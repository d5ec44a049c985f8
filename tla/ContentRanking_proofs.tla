----------------------- MODULE ContentRanking_proofs -----------------------
(***************************************************************************)
(* Machine-checked proofs about ContentRanking, for any set of items, of   *)
(* viewers and of concurrent requests, and any days, weights and bound on  *)
(* what happens.  A request that a test cannot pin down (an AddScore at    *)
(* its ZINCRBY, a list between the page it has read and the rows it        *)
(* prunes) is a record of one of six kinds; the lemmas say what one step   *)
(* of a request does to the keys of Redis and leaves to the others, the    *)
(* theorems put the steps together.                                        *)
(***************************************************************************)
EXTENDS ContentRanking, TLAPS

\* The kinds of request differ in what they do or in how far they are.
LEMMA RequestIs ==
    ASSUME NEW c \in Request
    PROVE  /\ c.op = "score" /\ c.stage = "incr" =>
                /\ c \in Adding /\ c.item \in Items /\ c.delta \in Int
                /\ c.view \subseteq ViewKeys
           /\ c.op = "score" /\ c.stage = "repeat" =>
                /\ c \in Repeating /\ c.day \in Days /\ c.item \in Items
                /\ c.delta \in Int /\ c.view \subseteq ViewKeys
           /\ c.op = "score" /\ c.stage \notin {"incr", "repeat"} =>
                /\ c \in Settling /\ c.day \in Days /\ c.item \in Items
                /\ c.stage \in {"zrem", "ttl"}
           /\ c.op = "view" =>
                c \in Viewing /\ c.item \in Items /\ c.by \in Viewers
           /\ c.op = "remove" => c \in Withdrawing /\ c.item \in Items
           /\ c.op = "list" =>
                /\ c \in Listing /\ c.top \in BOOLEAN
                /\ c.page \subseteq Items /\ c.hidden \subseteq Items
           /\ c.op = "idle" => c = Idle
BY DEF Request, Idle, Adding, Repeating, Settling, Viewing, Withdrawing,
       Listing

LEMMA IdleIs ==
    /\ Idle \in Request /\ Idle.op = "idle"
BY DEF Request, Idle

\* A change of one session's request, or of none.
Moves(s, c) == call' = [call EXCEPT ![s] = c]

LEMMA MovesIs ==
    ASSUME TypeOK, NEW s \in Sessions, NEW c, Moves(s, c)
    PROVE  /\ call'[s] = c
           /\ \A t \in Sessions : t # s => call'[t] = call[t]
           /\ c \in Request => call' \in [Sessions -> Request]
BY DEF TypeOK, Moves

LEMMA StartIs ==
    ASSUME TypeOK, NEW s \in Sessions, NEW c \in Request, Start(s, c)
    PROVE  /\ Moves(s, c) /\ call[s].op = "idle"
           /\ call' \in [Sessions -> Request]
           /\ calls' \in 0..MaxCalls
  <1>1. Moves(s, c)
    BY DEF Start, Moves
  <1>2. calls' \in 0..MaxCalls
    BY RankingAssumption DEF Start, TypeOK
  <1> QED
    BY <1>1, <1>2, MovesIs DEF Start

LEMMA StepIs ==
    ASSUME TypeOK, NEW s \in Sessions, NEW c \in Request, Step(s, c)
    PROVE  /\ Moves(s, c)
           /\ call' \in [Sessions -> Request]
           /\ calls' \in 0..MaxCalls
  <1>1. Moves(s, c)
    BY DEF Step, Moves
  <1> QED
    BY <1>1, MovesIs DEF Step, TypeOK

LEMMA FinishIs ==
    ASSUME TypeOK, NEW s \in Sessions, Finish(s)
    PROVE  /\ Moves(s, Idle)
           /\ call' \in [Sessions -> Request]
           /\ calls' \in 0..MaxCalls
BY IdleIs, StepIs DEF Finish

\* The list answers s, and those who wait for it.
LEMMA AnswerIs ==
    ASSUME TypeOK, NEW s \in Sessions, Answer(s)
    PROVE  /\ call'[s] = Idle
           /\ \A t \in Sessions :
                \/ call'[t] = call[t]
                \/ call'[t] = Idle /\ (t = s \/ call[t].op = "list")
           /\ call' \in [Sessions -> Request]
           /\ calls' \in 0..MaxCalls
           /\ flight' \in Sessions \union {NoOne}
  <1>1. /\ call \in [Sessions -> Request] /\ calls \in 0..MaxCalls
        /\ flight \in Sessions \union {NoOne}
    BY DEF TypeOK
  <1>2. \A t \in Sessions :
          call'[t] = IF t = s \/ (s = flight /\ At(t, "list", "wait")) THEN Idle
                     ELSE call[t]
    BY DEF Answer
  <1>3. call' \in [Sessions -> Request]
    <2>1. \A t \in Sessions : call'[t] \in Request
      BY <1>1, <1>2, IdleIs
    <2> QED
      BY <2>1 DEF Answer
  <1>4. call'[s] = Idle
    BY <1>2
  <1>6. ASSUME NEW t \in Sessions
        PROVE  call'[t] = call[t] \/ (call'[t] = Idle /\ (t = s \/ call[t].op = "list"))
    <2> DEFINE shares == t = s \/ (s = flight /\ At(t, "list", "wait"))
    <2>1. call'[t] = IF shares THEN Idle ELSE call[t]
      BY <1>2
    <2>2. shares => t = s \/ call[t].op = "list"
      BY DEF At
    <2> HIDE DEF shares
    <2> QED
      BY <2>1, <2>2
  <1>5. calls' \in 0..MaxCalls /\ flight' \in Sessions \union {NoOne}
    BY <1>1 DEF Answer
  <1> QED
    BY <1>3, <1>4, <1>5, <1>6

LEMMA RemovedIs ==
    ASSUME TypeOK, NEW d \in Days, NEW i \in Items, Removed(d, i)
    PROVE  /\ members' \in [Days -> SUBSET Items]
           /\ score' \in [Days -> [Items -> Int]]
           /\ expiring' \subseteq Days
           /\ \A e \in Days : members'[e] = IF e = d THEN members[e] \ {i}
                                                     ELSE members[e]
           /\ \A e \in Days : \A j \in members'[e] : score'[e][j] = score[e][j]
  <1>1. /\ members' = [members EXCEPT ![d] = @ \ {i}]
        /\ members \in [Days -> SUBSET Items]
        /\ score \in [Days -> [Items -> Int]]
        /\ score' = [score EXCEPT ![d][i] = 0]
    BY DEF Removed, TypeOK
  <1>2. /\ members' \in [Days -> SUBSET Items]
        /\ \A e \in Days : members'[e] = IF e = d THEN members[e] \ {i}
                                                  ELSE members[e]
    BY <1>1
  <1>3. score' \in [Days -> [Items -> Int]]
    BY <1>1
  <1>4. \A e \in Days : \A j \in Items : e # d \/ j # i => score'[e][j] = score[e][j]
    BY <1>1
  <1>5. \A e \in Days : \A j \in members'[e] : score'[e][j] = score[e][j]
    BY <1>1, <1>2, <1>4
  <1> QED
    BY <1>2, <1>3, <1>5 DEF Removed, TypeOK

-----------------------------------------------------------------------------
(* What most steps do: some member may go, no view is counted, nothing is   *)
(* withheld or shown, and a request that moves on carries nothing that has  *)
(* to be accounted for.                                                    *)

SetsShrink == /\ stuck \subseteq stuck'
              /\ \A d \in Days : members'[d] \subseteq members[d]
              /\ \A d \in Days : \A i \in members'[d] : score'[d][i] = score[d][i]

LEMMA PositivesStay ==
    ASSUME IInv, SetsShrink,
           \A t \in Sessions : At(t, "score", "zrem") =>
              \/ call'[t] = call[t]
              \/ <<call[t].day, call[t].item>> \in stuck'
              \/ call[t].item \notin members'[call[t].day]
    PROVE  OnlyPositiveScores'
  <1>1. ASSUME NEW d \in Days, NEW i \in members'[d],
               ~(score'[d][i] > 0), <<d, i>> \notin stuck'
        PROVE  \E s \in Sessions : /\ At(s, "score", "zrem")'
                                   /\ call'[s].day = d /\ call'[s].item = i
    <2>1. i \in members[d] /\ ~(score[d][i] > 0) /\ <<d, i>> \notin stuck
      BY <1>1 DEF SetsShrink
    <2>2. PICK s \in Sessions : /\ At(s, "score", "zrem")
                                /\ call[s].day = d /\ call[s].item = i
      BY <2>1 DEF IInv, OnlyPositiveScores
    <2>3. call'[s] = call[s]
      BY <1>1, <2>2
    <2> QED
      BY <2>2, <2>3 DEF At
  <1> QED
    BY <1>1 DEF OnlyPositiveScores

\* A request that moves on leaves no empty score behind, and takes up neither
\* a view ...
SettlesQuietly(t) ==
    /\ At(t, "score", "zrem") => \/ <<call[t].day, call[t].item>> \in stuck'
                                 \/ call[t].item \notin members'[call[t].day]
    /\ Increments(t)' => call'[t].view = {}

\* ... nor a removal of what has been public.
MovesQuietly(t) ==
    /\ SettlesQuietly(t)
    /\ call'[t].op # "remove"
    /\ call'[t].op = "list" => call'[t].hidden \subseteq unsteady

LEMMA SettledStays ==
    ASSUME IInv, SetsShrink, viewed \subseteq viewed',
           UNCHANGED <<counted, doubled, resent>>,
           \A t \in Sessions : call'[t] = call[t] \/ SettlesQuietly(t)
    PROVE  OnlyPositiveScores' /\ ViewsAreOwed' /\ ViewScoredOnce'
  <1>1. OnlyPositiveScores'
    BY PositivesStay DEF SettlesQuietly
  <1>2. ViewsAreOwed' /\ ViewScoredOnce'
    <2>1. ViewsAreOwed /\ ViewScoredOnce
      BY DEF IInv
    <2>2. \A t \in Sessions :
            Increments(t)' => \/ call'[t].view = {}
                              \/ call'[t] = call[t] /\ Increments(t)
      BY DEF SettlesQuietly, Increments
    <2>3. ASSUME NEW s \in Sessions, Increments(s)'
          PROVE  /\ call'[s].view \subseteq viewed'
                 /\ call'[s].view \intersect counted' \subseteq resent'
                 /\ \A t \in Sessions : t # s /\ Increments(t)' =>
                        call'[s].view \intersect call'[t].view = {}
      BY <2>1, <2>2, <2>3 DEF ViewsAreOwed
    <2> QED
      BY <2>1, <2>3 DEF ViewsAreOwed, ViewScoredOnce
  <1> QED
    BY <1>1, <1>2

LEMMA QuietStep ==
    ASSUME IInv, TypeOK', SetsShrink, viewed \subseteq viewed',
           UNCHANGED <<counted, doubled, resent, status, unsteady>>,
           \A t \in Sessions : call'[t] = call[t] \/ MovesQuietly(t)
    PROVE  IInv'
  <1>1. OnlyPositiveScores' /\ ViewsAreOwed' /\ ViewScoredOnce'
    BY SettledStays DEF MovesQuietly
  <1>2. OnlyUnsteadyRemoved'
    BY DEF IInv, OnlyUnsteadyRemoved, MovesQuietly, Public
  <1> QED
    BY <1>1, <1>2 DEF IInv

\* Nothing but what the requests know moves, and the sets may be pruned.
LEMMA QuietRequest ==
    ASSUME IInv, SetsShrink, viewed \subseteq viewed',
           UNCHANGED <<kind, day, counted, doubled, resent, status, unsteady>>,
           members' \in [Days -> SUBSET Items],
           score' \in [Days -> [Items -> Int]],
           expiring' \subseteq Days,
           viewed' \subseteq ViewKeys, stuck' \subseteq Days \X Items,
           cache' \in [items : SUBSET Items, fresh : BOOLEAN],
           flight' \in Sessions \union {NoOne},
           calls' \in 0..MaxCalls,
           call' \in [Sessions -> Request],
           \A t \in Sessions : call'[t] = call[t] \/ MovesQuietly(t)
    PROVE  IInv'
  <1>1. TypeOK'
    BY DEF IInv, TypeOK
  <1> QED
    BY <1>1, QuietStep

\* What a step that leaves Redis and the database alone has of it all.
LEMMA NothingShrinks ==
    ASSUME IInv
    PROVE  /\ UNCHANGED <<zsetVars, stuck>> => SetsShrink
           /\ UNCHANGED zsetVars =>
                /\ members' \in [Days -> SUBSET Items]
                /\ score' \in [Days -> [Items -> Int]]
                /\ expiring' \subseteq Days
           /\ UNCHANGED viewed => viewed' \subseteq ViewKeys /\ viewed \subseteq viewed'
           /\ UNCHANGED stuck => stuck' \subseteq Days \X Items
           /\ UNCHANGED cache => cache' \in [items : SUBSET Items, fresh : BOOLEAN]
           /\ UNCHANGED flight => flight' \in Sessions \union {NoOne}
           /\ UNCHANGED calls => calls' \in 0..MaxCalls
           /\ UNCHANGED call => call' \in [Sessions -> Request]
           /\ TypeOK
           /\ call \in [Sessions -> Request]
  <1>1. TypeOK
    BY DEF IInv
  <1> QED
    BY <1>1 DEF TypeOK, SetsShrink, zsetVars

-----------------------------------------------------------------------------
(* AddScore.                                                               *)

LEMMA AddScoreStep ==
    ASSUME IInv, NEW s \in Sessions, AddLike(s) \/ AddComment(s)
    PROVE  IInv'
  <1>1. PICK i \in Items, delta \in {2, -2, 3, -3} : Start(s, Scoring(i, delta, {}))
    BY DEF AddLike, AddComment, AddScore
  <1>2. /\ Scoring(i, delta, {}) \in Request
        /\ Scoring(i, delta, {}).op = "score"
        /\ Scoring(i, delta, {}).view = {}
    BY DEF Scoring, Request, Adding
  <1>3. UNCHANGED <<kind, day, status, zsetVars, viewVars, cache, flight, stuck,
                    unsteady>>
    BY DEF AddLike, AddComment, AddScore
  <1>4. /\ Moves(s, Scoring(i, delta, {})) /\ call[s].op = "idle"
        /\ call' \in [Sessions -> Request] /\ calls' \in 0..MaxCalls
    BY <1>1, <1>2, NothingShrinks, StartIs
  <1>5. \A t \in Sessions : call'[t] = call[t] \/ MovesQuietly(t)
    BY <1>2, <1>4, NothingShrinks, MovesIs DEF MovesQuietly, SettlesQuietly, Increments, At
  <1> QED
    BY <1>3, <1>4, <1>5, NothingShrinks, QuietRequest DEF viewVars

\* An increment that is made, answered or not, adds to one member of one day.
LEMMA IncrementsIs ==
    ASSUME TypeOK, NEW s \in Sessions, Increments(s)
    PROVE  /\ KeyDay(s) \in Days /\ call[s].item \in Items
           /\ call[s].delta \in Int /\ call[s].view \subseteq ViewKeys
  <1>1. call[s] \in Request /\ day \in Days
    BY DEF TypeOK
  <1>2. CASE call[s].stage = "incr"
    BY <1>1, <1>2, RequestIs DEF Increments, KeyDay
  <1>3. CASE call[s].stage = "repeat"
    BY <1>1, <1>3, RequestIs DEF Increments, KeyDay
  <1> QED
    BY <1>2, <1>3 DEF Increments

LEMMA IncrementedIs ==
    ASSUME TypeOK, NEW s \in Sessions, Increments(s), Incremented(s)
    PROVE  /\ members' \in [Days -> SUBSET Items]
           /\ score' \in [Days -> [Items -> Int]]
           /\ counted' \subseteq ViewKeys /\ doubled' \subseteq counted'
           /\ UNCHANGED <<expiring, viewed>>
           /\ \A e \in Days :
                members'[e] = IF e = KeyDay(s)
                              THEN members[e] \union {call[s].item}
                              ELSE members[e]
           /\ \A e \in Days, j \in Items :
                e # KeyDay(s) \/ j # call[s].item => score'[e][j] = score[e][j]
  <1>1. /\ members \in [Days -> SUBSET Items]
        /\ score \in [Days -> [Items -> Int]]
        /\ members' = [members EXCEPT ![KeyDay(s)] = @ \union {call[s].item}]
        /\ score' = [score EXCEPT ![KeyDay(s)][call[s].item] = @ + call[s].delta]
        /\ counted' = counted \union call[s].view
        /\ doubled' = doubled \union (counted \intersect call[s].view)
        /\ UNCHANGED <<expiring, viewed>>
    BY DEF TypeOK, Incremented
  <1>2. /\ KeyDay(s) \in Days /\ call[s].item \in Items /\ call[s].delta \in Int
        /\ call[s].view \subseteq ViewKeys
    BY IncrementsIs
  <1>3. counted' \subseteq ViewKeys /\ doubled' \subseteq counted'
    BY <1>1, <1>2 DEF TypeOK
  <1>4. members' \in [Days -> SUBSET Items]
    BY <1>1, <1>2
  <1>5. score' \in [Days -> [Items -> Int]]
    BY <1>1, <1>2
  <1>6. \A e \in Days :
          members'[e] = IF e = KeyDay(s)
                        THEN members[e] \union {call[s].item}
                        ELSE members[e]
    BY <1>1
  <1>7. \A e \in Days, j \in Items :
          e # KeyDay(s) \/ j # call[s].item => score'[e][j] = score[e][j]
    BY <1>1
  <1> QED
    BY <1>1, <1>3, <1>4, <1>5, <1>6, <1>7

\* Who made the increment answers for that member: it is positive, or is to be
\* removed, or is known to be stuck.
LEMMA IncrementAnswered ==
    ASSUME IInv, NEW s \in Sessions, Increments(s), Incremented(s),
           \A t \in Sessions : t # s => call'[t] = call[t],
           NEW d, d = KeyDay(s), NEW i, i = call[s].item,
           stuck \ {<<d, i>>} \subseteq stuck',
           \/ score'[d][i] > 0
           \/ <<d, i>> \in stuck'
           \/ At(s, "score", "zrem")' /\ call'[s].day = d /\ call'[s].item = i
    PROVE  OnlyPositiveScores'
  <1>1. /\ members' \in [Days -> SUBSET Items]
        /\ \A e \in Days : members'[e] = IF e = d THEN members[e] \union {i}
                                                  ELSE members[e]
        /\ \A e \in Days, j \in Items :
              e # d \/ j # i => score'[e][j] = score[e][j]
    <2>1. TypeOK
      BY DEF IInv
    <2> QED
      BY <2>1, IncrementedIs
  <1>2. ASSUME NEW e \in Days, NEW j \in members'[e],
               ~(score'[e][j] > 0), <<e, j>> \notin stuck'
        PROVE  \E t \in Sessions : /\ At(t, "score", "zrem")'
                                   /\ call'[t].day = e /\ call'[t].item = j
    <2>1. CASE e = d /\ j = i
      BY <1>2, <2>1
    <2>2. CASE e # d \/ j # i
      <3>1. j \in members[e] /\ j \in Items
        BY <1>1, <1>2, <2>2
      <3>2. ~(score[e][j] > 0)
        BY <1>1, <1>2, <2>2, <3>1
      <3>3. <<e, j>> # <<d, i>>
        BY <2>2
      <3>4. <<e, j>> \notin stuck
        BY <1>2, <3>3
      <3>5. PICK t \in Sessions : /\ At(t, "score", "zrem")
                                  /\ call[t].day = e /\ call[t].item = j
        BY <3>1, <3>2, <3>4 DEF IInv, OnlyPositiveScores
      <3>6. call'[t] = call[t]
        BY <3>5 DEF At, Increments
      <3> QED
        BY <3>5, <3>6 DEF At
    <2> QED
      BY <2>1, <2>2
  <1> QED
    BY <1>2 DEF OnlyPositiveScores

\* Its view is counted now, and carried on only to be sent again.
LEMMA IncrementOwesNothing ==
    ASSUME IInv, NEW s \in Sessions, Increments(s),
           \A t \in Sessions : t # s => call'[t] = call[t],
           viewed' = viewed, resent \subseteq resent',
           \/ UNCHANGED <<counted, doubled>>
           \/ /\ counted' = counted \union call[s].view
              /\ doubled' = doubled \union (counted \intersect call[s].view),
           Increments(s)' => /\ call'[s].view = call[s].view
                             /\ call[s].view \subseteq resent'
    PROVE  ViewsAreOwed' /\ ViewScoredOnce'
  <1>1. /\ counted \subseteq viewed /\ doubled \subseteq resent
        /\ call[s].view \subseteq viewed
        /\ call[s].view \intersect counted \subseteq resent
    BY DEF IInv, ViewsAreOwed, ViewScoredOnce
  <1>2. /\ counted' \subseteq viewed' /\ doubled' \subseteq resent'
        /\ counted' \subseteq counted \union call[s].view
    BY <1>1
  <1>3. ASSUME NEW t \in Sessions, Increments(t)'
        PROVE  Increments(t) /\ call'[t].view = call[t].view
    BY <1>3 DEF Increments
  <1>4. ASSUME NEW t \in Sessions, Increments(t)'
        PROVE  /\ call'[t].view \subseteq viewed'
               /\ call'[t].view \intersect counted' \subseteq resent'
    <2>1. CASE t = s
      BY <1>1, <1>4, <2>1
    <2>2. CASE t # s
      <3>1. /\ call[t].view \subseteq viewed
            /\ call[t].view \intersect counted \subseteq resent
            /\ call[t].view \intersect call[s].view = {}
        BY <1>3, <1>4, <2>2 DEF IInv, ViewsAreOwed
      <3> QED
        BY <1>2, <1>3, <1>4, <3>1
    <2> QED
      BY <2>1, <2>2
  <1>5. ASSUME NEW t \in Sessions, Increments(t)',
               NEW u \in Sessions, u # t, Increments(u)'
        PROVE  call'[t].view \intersect call'[u].view = {}
    BY <1>3, <1>5 DEF IInv, ViewsAreOwed
  <1> QED
    BY <1>2, <1>4, <1>5 DEF ViewsAreOwed, ViewScoredOnce

LEMMA ZIncrByStep ==
    ASSUME IInv, NEW s \in Sessions, ZIncrBy(s)
    PROVE  IInv'
  <1> DEFINE d == KeyDay(s)
             i == call[s].item
             next == [op |-> "score", day |-> d, item |-> i,
                      stage |-> IF score'[d][i] <= 0 THEN "zrem" ELSE "ttl"]
  <1>1. /\ TypeOK /\ Increments(s) /\ Incremented(s) /\ d \in Days /\ i \in Items
        /\ stuck' = stuck \ {<<d, i>>} /\ Step(s, next)
        /\ UNCHANGED <<kind, day, status, resent, cache, flight, unsteady>>
    BY IncrementsIs DEF IInv, ZIncrBy
  <1>2. next \in Request
    BY <1>1 DEF Request, Settling
  <1>3. /\ Moves(s, next) /\ call' \in [Sessions -> Request]
        /\ calls' \in 0..MaxCalls
    BY <1>1, <1>2, StepIs
  <1>4. /\ call'[s] = next
        /\ \A t \in Sessions : t # s => call'[t] = call[t]
    BY <1>1, <1>3, MovesIs
  <1>5. /\ members' \in [Days -> SUBSET Items]
        /\ score' \in [Days -> [Items -> Int]]
        /\ counted' \subseteq ViewKeys /\ doubled' \subseteq counted'
        /\ UNCHANGED <<expiring, viewed>>
    BY <1>1, IncrementedIs
  <1>6. TypeOK'
    BY <1>1, <1>3, <1>5 DEF TypeOK
  <1>7. OnlyPositiveScores'
    <2>1. score'[d][i] \in Int
      BY <1>1, <1>5
    <2>2. \/ score'[d][i] > 0
          \/ At(s, "score", "zrem")' /\ call'[s].day = d /\ call'[s].item = i
      BY <1>4, <2>1 DEF At
    <2>3. stuck \ {<<d, i>>} \subseteq stuck'
      BY <1>1
    <2> HIDE DEF d, i
    <2> QED
      BY <1>1, <1>4, <2>2, <2>3, IncrementAnswered DEF d, i
  <1>8. ViewsAreOwed' /\ ViewScoredOnce'
    <2>1. ~Increments(s)'
      BY <1>4 DEF Increments
    <2> QED
      BY <1>1, <1>4, <1>5, <2>1, IncrementOwesNothing DEF Incremented
  <1>9. OnlyUnsteadyRemoved'
    BY <1>1, <1>4 DEF IInv, OnlyUnsteadyRemoved, Public
  <1> QED
    BY <1>6, <1>7, <1>8, <1>9 DEF IInv

\* Made or not, the increment goes out again with its key, or is given up.
LEMMA ZIncrByLostStep ==
    ASSUME IInv, NEW s \in Sessions, ZIncrByLost(s)
    PROVE  IInv'
  <1> DEFINE d == KeyDay(s)
             i == call[s].item
             again == [op |-> "score", stage |-> "repeat", day |-> d, item |-> i,
                       delta |-> call[s].delta, view |-> call[s].view]
  <1>1. /\ TypeOK /\ Increments(s) /\ d \in Days /\ i \in Items
        /\ call[s].delta \in Int /\ call[s].view \subseteq ViewKeys
        /\ UNCHANGED <<kind, day, status, cache, flight, unsteady>>
    BY IncrementsIs DEF IInv, ZIncrByLost
  <1>2. /\ call' \in [Sessions -> Request] /\ calls' \in 0..MaxCalls
        /\ \A t \in Sessions : t # s => call'[t] = call[t]
        /\ call'[s] \in {Idle, again}
        /\ resent \subseteq resent' /\ resent' \subseteq ViewKeys
        /\ call'[s] = again => call[s].view \subseteq resent'
    <2>1. CASE SendAgain(s)
      <3>1. again \in Request
        BY <1>1 DEF Request, Repeating
      <3>2. Moves(s, again) /\ resent' = resent \union call[s].view
        BY <2>1 DEF SendAgain, Moves
      <3>3. calls' \in 0..MaxCalls
        BY <1>1, <2>1, RankingAssumption DEF SendAgain, TypeOK
      <3> HIDE DEF again
      <3>4. resent' \subseteq ViewKeys
        BY <1>1, <3>2 DEF TypeOK
      <3> QED
        BY <1>1, <3>1, <3>2, <3>3, <3>4, MovesIs
    <2>2. CASE Finish(s) /\ resent' = resent
      <3>1. /\ Moves(s, Idle) /\ call' \in [Sessions -> Request]
            /\ calls' \in 0..MaxCalls
        BY <1>1, <2>2, FinishIs
      <3>2. call'[s] = Idle /\ \A t \in Sessions : t # s => call'[t] = call[t]
        BY <1>1, <3>1, MovesIs
      <3>3. Idle # again
        BY DEF Idle
      <3> HIDE DEF again
      <3>4. resent' \subseteq ViewKeys
        BY <1>1, <2>2 DEF TypeOK
      <3> QED
        BY <2>2, <3>1, <3>2, <3>3, <3>4
    <2> QED
      BY <2>1, <2>2 DEF ZIncrByLost
  <1>3. /\ again.op = "score" /\ again.stage = "repeat" /\ again.view = call[s].view
        /\ Idle.op = "idle"
    BY DEF Idle
  <1> HIDE DEF again
  <1>4. \/ Incremented(s) /\ stuck' = stuck \union {<<d, i>>}
        \/ UNCHANGED <<zsetVars, viewed, counted, doubled, stuck>>
    BY DEF ZIncrByLost
  <1>5. UNCHANGED viewed
    BY <1>4 DEF Incremented
  <1>6. TypeOK' /\ OnlyPositiveScores'
    <2>1. CASE Incremented(s) /\ stuck' = stuck \union {<<d, i>>}
      <3>1. /\ members' \in [Days -> SUBSET Items]
            /\ score' \in [Days -> [Items -> Int]]
            /\ counted' \subseteq ViewKeys /\ doubled' \subseteq counted'
            /\ UNCHANGED <<expiring, viewed>>
        BY <1>1, <2>1, IncrementedIs
      <3>2. stuck' \subseteq Days \X Items
        BY <1>1, <2>1 DEF TypeOK
      <3>3. TypeOK'
        BY <1>1, <1>2, <3>1, <3>2 DEF TypeOK
      <3>4. stuck \ {<<d, i>>} \subseteq stuck' /\ <<d, i>> \in stuck'
        BY <2>1
      <3> HIDE DEF d, i
      <3>5. OnlyPositiveScores'
        BY <1>1, <1>2, <2>1, <3>4, IncrementAnswered DEF d, i
      <3> QED
        BY <3>3, <3>5
    <2>2. CASE UNCHANGED <<zsetVars, viewed, counted, doubled, stuck>>
      <3>1. TypeOK'
        BY <1>1, <1>2, <2>2 DEF TypeOK, zsetVars
      <3>2. \A t \in Sessions : At(t, "score", "zrem") => call'[t] = call[t]
        BY <1>1, <1>2 DEF At, Increments
      <3>3. SetsShrink
        BY <2>2, NothingShrinks
      <3> QED
        BY <3>1, <3>2, <3>3, PositivesStay
    <2> QED
      BY <1>4, <2>1, <2>2
  <1>7. ViewsAreOwed' /\ ViewScoredOnce'
    <2>1. \/ UNCHANGED <<counted, doubled>>
          \/ /\ counted' = counted \union call[s].view
             /\ doubled' = doubled \union (counted \intersect call[s].view)
      BY <1>4 DEF Incremented
    <2>2. Increments(s)' => /\ call'[s].view = call[s].view
                            /\ call[s].view \subseteq resent'
      BY <1>2, <1>3 DEF Increments
    <2> QED
      BY <1>1, <1>2, <1>5, <2>1, <2>2, IncrementOwesNothing
  <1>8. OnlyUnsteadyRemoved'
    BY <1>1, <1>2, <1>3 DEF IInv, OnlyUnsteadyRemoved, Public
  <1> QED
    BY <1>6, <1>7, <1>8 DEF IInv

\* What a failing or finishing request leaves: the settling of one whose
\* score is in its set is all that may be missed.
LEMMA FinishStep ==
    ASSUME IInv, NEW s \in Sessions, Finish(s), SetsShrink,
           UNCHANGED <<kind, day, status, viewVars, cache, flight, unsteady>>,
           members' \in [Days -> SUBSET Items],
           score' \in [Days -> [Items -> Int]],
           expiring' \subseteq Days, stuck' \subseteq Days \X Items,
           At(s, "score", "zrem") => \/ <<call[s].day, call[s].item>> \in stuck'
                                     \/ call[s].item \notin members'[call[s].day]
    PROVE  IInv'
  <1>1. /\ Moves(s, Idle) /\ call' \in [Sessions -> Request]
        /\ calls' \in 0..MaxCalls
    BY NothingShrinks, FinishIs
  <1>2. \A t \in Sessions : call'[t] = call[t] \/ MovesQuietly(t)
    BY <1>1, NothingShrinks, MovesIs, IdleIs
    DEF MovesQuietly, SettlesQuietly, Increments
  <1> QED
    BY <1>1, <1>2, NothingShrinks, QuietRequest DEF viewVars

LEMMA RemovedShrinks ==
    ASSUME IInv, NEW d \in Days, NEW i \in Items, Removed(d, i), UNCHANGED stuck
    PROVE  SetsShrink
  <1>1. TypeOK
    BY DEF IInv
  <1> QED
    BY <1>1, RemovedIs DEF SetsShrink

LEMMA ScoreEnds ==
    ASSUME IInv, NEW s \in Sessions, ZRem(s) \/ Expire(s) \/ ScoreFails(s)
    PROVE  IInv'
  <1>1. /\ TypeOK /\ call[s] \in Request
        /\ members \in [Days -> SUBSET Items]
        /\ score \in [Days -> [Items -> Int]]
        /\ expiring \subseteq Days /\ stuck \subseteq Days \X Items
    BY DEF IInv, TypeOK
  <1>2. CASE ZRem(s)
    <2>1. /\ call[s].day \in Days /\ call[s].item \in Items
          /\ Removed(call[s].day, call[s].item) /\ Finish(s)
          /\ UNCHANGED <<kind, day, status, viewVars, cache, flight, stuck, unsteady>>
      BY <1>1, <1>2, RequestIs DEF ZRem, At
    <2>2. SetsShrink
      BY <2>1, RemovedShrinks
    <2>3. /\ members' \in [Days -> SUBSET Items]
          /\ score' \in [Days -> [Items -> Int]]
          /\ expiring' \subseteq Days
          /\ members'[call[s].day] = members[call[s].day] \ {call[s].item}
      BY <1>1, <2>1, RemovedIs
    <2> QED
      BY <1>1, <2>1, <2>2, <2>3, FinishStep
  <1>3. CASE Expire(s)
    <2>1. /\ call[s].day \in Days /\ ~At(s, "score", "zrem") /\ Finish(s)
          /\ UNCHANGED <<kind, day, status, members, score, viewVars, cache,
                         flight, stuck, unsteady>>
      BY <1>1, <1>3, RequestIs DEF Expire, At
    <2>2. expiring' \subseteq Days /\ SetsShrink
      BY <1>1, <1>3, <2>1 DEF Expire, SetsShrink
    <2> QED
      BY <1>1, <2>1, <2>2, FinishStep
  <1>4. CASE ScoreFails(s)
    <2>1. /\ Finish(s)
          /\ UNCHANGED <<kind, day, status, zsetVars, viewVars, cache, flight,
                         unsteady>>
          /\ stuck' = stuck \union (IF call[s].stage = "zrem"
                                    THEN {<<call[s].day, call[s].item>>} ELSE {})
          /\ call[s].op = "score" /\ call[s].stage \in {"zrem", "ttl"}
      BY <1>4 DEF ScoreFails, Failing, At
    <2>2. call[s].stage = "zrem" => <<call[s].day, call[s].item>> \in Days \X Items
      BY <1>1, <2>1, RequestIs
    <2>3. /\ stuck' \subseteq Days \X Items /\ SetsShrink
          /\ At(s, "score", "zrem") => <<call[s].day, call[s].item>> \in stuck'
      BY <1>1, <2>1, <2>2 DEF SetsShrink, zsetVars, At
    <2> QED
      BY <1>1, <2>1, <2>3, FinishStep DEF zsetVars
  <1> QED
    BY <1>2, <1>3, <1>4

-----------------------------------------------------------------------------
(* Views.                                                                  *)

LEMMA ViewStep ==
    ASSUME IInv, NEW s \in Sessions,
           ArticleDetail(s) \/ SkillDetail(s) \/ McpServerDetail(s)
    PROVE  IInv'
  <1>1. PICK i \in Items, u \in Viewers :
          Start(s, [op |-> "view", stage |-> "setnx", item |-> i, by |-> u])
    BY DEF ArticleDetail, SkillDetail, McpServerDetail, View, Public
  <1> DEFINE c == [op |-> "view", stage |-> "setnx", item |-> i, by |-> u]
  <1>2. c \in Request /\ c.op = "view"
    BY DEF Request, Viewing
  <1>3. UNCHANGED <<kind, day, status, zsetVars, viewVars, cache, flight, stuck,
                    unsteady>>
    BY DEF ArticleDetail, SkillDetail, McpServerDetail, View
  <1>4. /\ Moves(s, c) /\ call[s].op = "idle"
        /\ call' \in [Sessions -> Request] /\ calls' \in 0..MaxCalls
    BY <1>1, <1>2, NothingShrinks, StartIs
  <1>5. \A t \in Sessions : call'[t] = call[t] \/ MovesQuietly(t)
    BY <1>2, <1>4, NothingShrinks, MovesIs DEF MovesQuietly, SettlesQuietly, Increments, At
  <1> QED
    BY <1>3, <1>4, <1>5, NothingShrinks, QuietRequest DEF viewVars

LEMMA RecordViewStep ==
    ASSUME IInv, NEW s \in Sessions, RecordView(s)
    PROVE  IInv'
  <1> DEFINE c == call[s]
             key == <<day, c.by, c.item>>
             next == Scoring(c.item, 1, {key})
  <1>1. /\ TypeOK /\ c.op = "view" /\ c.item \in Items /\ key \in ViewKeys
    BY RequestIs DEF IInv, TypeOK, RecordView, At, ViewKeys
  <1>2. /\ viewed' = viewed \union {key}
        /\ UNCHANGED <<kind, day, status, zsetVars, counted, doubled, resent,
                       cache, flight, stuck, unsteady>>
    BY DEF RecordView
  <1>3. viewed' \subseteq ViewKeys /\ SetsShrink
    BY <1>1, <1>2, NothingShrinks DEF TypeOK
  <1>4. CASE key \in viewed
    <2>1. Finish(s)
      BY <1>4 DEF RecordView
    <2>2. UNCHANGED viewVars
      BY <1>2, <1>4 DEF viewVars
    <2> QED
      BY <1>1, <1>2, <1>3, <2>1, <2>2, NothingShrinks, FinishStep DEF At
  <1>5. CASE key \notin viewed
    <2>1. /\ next \in Request /\ next.op = "score" /\ next.stage = "incr"
          /\ next.view = {key}
      BY <1>1 DEF Scoring, Request, Adding
    <2>2. Step(s, next)
      BY <1>5 DEF RecordView
    <2>3. /\ Moves(s, next) /\ call' \in [Sessions -> Request]
          /\ calls' \in 0..MaxCalls
      BY <1>1, <2>1, <2>2, StepIs
    <2>4. /\ call'[s] = next
          /\ \A t \in Sessions : t # s => call'[t] = call[t]
      BY <1>1, <2>3, MovesIs
    <2>5. TypeOK'
      BY <1>1, <1>2, <1>3, <2>3 DEF TypeOK, zsetVars
    <2>6. OnlyPositiveScores'
      <3>1. \A t \in Sessions : At(t, "score", "zrem") => call'[t] = call[t]
        BY <1>1, <2>4 DEF At
      <3> QED
        BY <1>3, <3>1, PositivesStay
    <2>7. ViewsAreOwed' /\ ViewScoredOnce'
      <3>1. ViewsAreOwed /\ ViewScoredOnce
        BY DEF IInv
      <3>2. counted' \subseteq viewed' /\ key \notin counted
        BY <1>2, <1>5, <3>1 DEF ViewsAreOwed
      <3>3. ASSUME NEW t \in Sessions, t # s, Increments(t)'
            PROVE  /\ call'[t] = call[t] /\ Increments(t)
                   /\ call[t].view \subseteq viewed
                   /\ call[t].view \intersect counted \subseteq resent
                   /\ call[t].view \intersect {key} = {}
        <4>1. call'[t] = call[t] /\ Increments(t)
          BY <2>4, <3>3 DEF Increments
        <4>2. /\ call[t].view \subseteq viewed
              /\ call[t].view \intersect counted \subseteq resent
          BY <3>1, <4>1 DEF ViewsAreOwed
        <4> QED
          BY <1>5, <4>1, <4>2
      <3>4. ASSUME NEW t \in Sessions, Increments(t)'
            PROVE  /\ call'[t].view \subseteq viewed'
                   /\ call'[t].view \intersect counted' \subseteq resent'
        BY <1>2, <2>1, <2>4, <3>2, <3>3, <3>4
      <3>5. ASSUME NEW t \in Sessions, Increments(t)',
                   NEW u \in Sessions, u # t, Increments(u)'
            PROVE  call'[t].view \intersect call'[u].view = {}
        <4>1. CASE t = s
          BY <2>1, <2>4, <3>3, <3>5, <4>1
        <4>2. CASE u = s
          BY <2>1, <2>4, <3>3, <3>5, <4>2
        <4>3. CASE t # s /\ u # s
          BY <3>1, <3>3, <3>5, <4>3 DEF ViewsAreOwed
        <4> QED
          BY <4>1, <4>2, <4>3
      <3> QED
        BY <1>2, <3>1, <3>2, <3>4, <3>5 DEF ViewsAreOwed, ViewScoredOnce
    <2>8. OnlyUnsteadyRemoved'
      BY <1>2, <2>1, <2>4 DEF IInv, OnlyUnsteadyRemoved, Public
    <2> QED
      BY <2>5, <2>6, <2>7, <2>8 DEF IInv
  <1> QED
    BY <1>4, <1>5

\* A view that fails may leave its key behind: the view is lost.
LEMMA ViewFailsStep ==
    ASSUME IInv, NEW s \in Sessions, ViewFails(s)
    PROVE  IInv'
  <1> DEFINE key == <<day, call[s].by, call[s].item>>
  <1>1. /\ TypeOK /\ call[s].op = "view" /\ key \in ViewKeys /\ Finish(s)
        /\ viewed' = viewed \/ viewed' = viewed \union {key}
        /\ UNCHANGED <<kind, day, status, zsetVars, counted, doubled, resent,
                       cache, flight, stuck, unsteady>>
    BY RequestIs DEF IInv, TypeOK, ViewFails, At, ViewKeys
  <1>2. viewed' \subseteq ViewKeys /\ viewed \subseteq viewed'
    BY <1>1 DEF TypeOK
  <1>3. /\ Moves(s, Idle) /\ call' \in [Sessions -> Request]
        /\ calls' \in 0..MaxCalls
    BY <1>1, FinishIs
  <1>4. \A t \in Sessions : call'[t] = call[t] \/ MovesQuietly(t)
    BY <1>1, <1>3, MovesIs, IdleIs
    DEF MovesQuietly, SettlesQuietly, Increments, At
  <1> QED
    BY <1>1, <1>2, <1>3, <1>4, NothingShrinks, QuietRequest

LEMMA RemoveFailsStep ==
    ASSUME IInv, NEW s \in Sessions, RemoveFails(s)
    PROVE  IInv'
  <1>1. /\ Finish(s) /\ ~At(s, "score", "zrem")
        /\ UNCHANGED <<kind, day, status, zsetVars, viewVars, cache, flight,
                       unsteady, stuck>>
    BY DEF RemoveFails, Failing, At
  <1> QED
    BY <1>1, NothingShrinks, FinishStep

-----------------------------------------------------------------------------
(* Withholding and showing.                                                *)

LEMMA WithholdStep ==
    ASSUME IInv, NEW s \in Sessions, Withhold(s)
    PROVE  IInv'
  <1>1. PICK i \in Items, st \in {"hidden", "private"} :
          /\ Start(s, [op |-> "remove", stage |-> "zrem", item |-> i])
          /\ status' = [status EXCEPT ![i] = st]
          /\ unsteady' = unsteady \union {i}
    BY DEF Withhold
  <1> DEFINE c == [op |-> "remove", stage |-> "zrem", item |-> i]
  <1>2. c \in Request /\ c.op = "remove" /\ c.item = i
    BY DEF Request, Withdrawing
  <1>3. /\ UNCHANGED <<kind, day, zsetVars, viewVars, cache, flight, stuck>>
        /\ TypeOK /\ OnlyUnsteadyRemoved
    BY DEF Withhold, IInv
  <1>4. /\ Moves(s, c) /\ call[s].op = "idle"
        /\ call' \in [Sessions -> Request] /\ calls' \in 0..MaxCalls
    BY <1>1, <1>2, <1>3, StartIs
  <1>5. /\ call'[s] = c
        /\ \A t \in Sessions : t # s => call'[t] = call[t]
    BY <1>3, <1>4, MovesIs
  <1>6. TypeOK'
    BY <1>1, <1>3, <1>4 DEF TypeOK, zsetVars, viewVars
  <1>7. OnlyPositiveScores' /\ ViewsAreOwed' /\ ViewScoredOnce'
    <2>1. \A t \in Sessions : call'[t] = call[t] \/ SettlesQuietly(t)
      BY <1>2, <1>4, <1>5 DEF SettlesQuietly, Increments, At
    <2>2. SetsShrink /\ viewed \subseteq viewed'
      BY <1>3, NothingShrinks DEF viewVars
    <2> QED
      BY <1>3, <2>1, <2>2, SettledStays DEF viewVars
  <1>8. OnlyUnsteadyRemoved'
    <2>1. Items \ Public' \subseteq unsteady'
      BY <1>1, <1>3 DEF OnlyUnsteadyRemoved, Public, TypeOK
    <2> QED
      BY <1>1, <1>2, <1>3, <1>5, <2>1 DEF OnlyUnsteadyRemoved
  <1> QED
    BY <1>6, <1>7, <1>8 DEF IInv

LEMMA RemoveStep ==
    ASSUME IInv, NEW s \in Sessions, Remove(s)
    PROVE  IInv'
  <1>1. /\ TypeOK /\ call[s].item \in Items /\ day \in Days
        /\ ~At(s, "score", "zrem")
    BY RequestIs DEF IInv, TypeOK, Remove, At
  <1>2. /\ Removed(day, call[s].item) /\ Finish(s)
        /\ UNCHANGED <<kind, day, status, viewVars, cache, flight, stuck, unsteady>>
    BY DEF Remove
  <1>3. SetsShrink
    BY <1>1, <1>2, RemovedShrinks
  <1>4. /\ members' \in [Days -> SUBSET Items]
        /\ score' \in [Days -> [Items -> Int]]
        /\ expiring' \subseteq Days
    BY <1>1, <1>2, RemovedIs
  <1>5. stuck' \subseteq Days \X Items
    BY <1>1, <1>2 DEF TypeOK
  <1> QED
    BY <1>1, <1>2, <1>3, <1>4, <1>5, FinishStep

LEMMA RestoreStep ==
    ASSUME IInv, Restore
    PROVE  IInv'
  <1>1. PICK i \in Items \ Public :
          /\ status' = [status EXCEPT ![i] = "public"]
          /\ unsteady' = IF Removing THEN unsteady ELSE unsteady \ {i}
    BY DEF Restore
  <1>2. /\ UNCHANGED <<kind, day, zsetVars, viewVars, cache, flight, call, stuck>>
        /\ calls < MaxCalls /\ calls' = calls + 1
        /\ TypeOK /\ OnlyUnsteadyRemoved
    BY DEF Restore, IInv
  <1>3. TypeOK'
    <2>1. calls' \in 0..MaxCalls
      BY <1>2, RankingAssumption DEF TypeOK
    <2> QED
      BY <1>1, <1>2, <2>1 DEF TypeOK, zsetVars, viewVars
  <1>4. OnlyPositiveScores' /\ ViewsAreOwed' /\ ViewScoredOnce'
    <2>1. SetsShrink /\ viewed \subseteq viewed'
      BY <1>2, NothingShrinks DEF viewVars
    <2> QED
      BY <1>2, <2>1, SettledStays DEF viewVars
  <1>5. OnlyUnsteadyRemoved'
    <2>1. Items \ Public' \subseteq unsteady'
      BY <1>1, <1>2 DEF OnlyUnsteadyRemoved, Public, TypeOK
    <2>2. CASE Removing
      BY <1>1, <1>2, <2>1, <2>2 DEF OnlyUnsteadyRemoved
    <2>3. CASE ~Removing
      BY <1>2, <2>1, <2>3 DEF OnlyUnsteadyRemoved, Removing
    <2> QED
      BY <2>2, <2>3
  <1> QED
    BY <1>3, <1>4, <1>5 DEF IInv

-----------------------------------------------------------------------------
(* Lists.                                                                  *)

\* A list that goes on, and the answer to one.
LEMMA ListMoves ==
    ASSUME IInv, NEW s \in Sessions, NEW c \in Listing, Step(s, c),
           c.hidden \subseteq unsteady, call[s].op \in {"idle", "list"}
    PROVE  /\ call' \in [Sessions -> Request] /\ calls' \in 0..MaxCalls
           /\ \A t \in Sessions : call'[t] = call[t] \/ MovesQuietly(t)
  <1>1. c \in Request /\ c.op = "list"
    BY DEF Request, Listing
  <1>2. /\ Moves(s, c) /\ call' \in [Sessions -> Request]
        /\ calls' \in 0..MaxCalls
    BY <1>1, NothingShrinks, StepIs
  <1> QED
    BY <1>1, <1>2, NothingShrinks, MovesIs DEF MovesQuietly, SettlesQuietly, Increments, At

LEMMA ListAnswers ==
    ASSUME IInv, NEW s \in Sessions, Answer(s), call[s].op = "list"
    PROVE  /\ call' \in [Sessions -> Request] /\ calls' \in 0..MaxCalls
           /\ flight' \in Sessions \union {NoOne}
           /\ \A t \in Sessions : call'[t] = call[t] \/ MovesQuietly(t)
  <1>1. TypeOK
    BY DEF IInv
  <1>2. /\ \A t \in Sessions :
             \/ call'[t] = call[t]
             \/ call'[t] = Idle /\ (t = s \/ call[t].op = "list")
        /\ call' \in [Sessions -> Request] /\ calls' \in 0..MaxCalls
        /\ flight' \in Sessions \union {NoOne}
    BY <1>1, AnswerIs
  <1> QED
    BY <1>2, IdleIs DEF MovesQuietly, SettlesQuietly, Increments, At

\* The list of a request in hand.
LEMMA ListInHand ==
    ASSUME IInv, NEW s \in Sessions, call[s].op = "list"
    PROVE  /\ call[s] \in Listing
           /\ call[s].page \in SUBSET Items
           /\ call[s].hidden \subseteq Items /\ call[s].hidden \subseteq unsteady
  <1>1. call[s] \in Listing /\ call[s].page \subseteq Items /\ call[s].hidden \subseteq Items
    BY RequestIs DEF IInv, TypeOK
  <1>2. call[s].hidden \subseteq unsteady
    BY DEF IInv, OnlyUnsteadyRemoved
  <1> QED
    BY <1>1, <1>2

\* What it may become.
LEMMA ListReads ==
    ASSUME NEW c \in Listing, NEW page \in SUBSET Items
    PROVE  /\ [c EXCEPT !.stage = "read"] \in Listing
           /\ [c EXCEPT !.stage = "read"].hidden = c.hidden
           /\ [c EXCEPT !.stage = "hydrate", !.page = page] \in Listing
           /\ [c EXCEPT !.stage = "hydrate", !.page = page].hidden = c.hidden
BY DEF Listing

LEMMA ListHydrates ==
    ASSUME NEW c \in Listing, NEW page \in SUBSET Items, NEW hidden \in SUBSET Items
    PROVE  /\ [c EXCEPT !.stage = "prune", !.page = page, !.hidden = hidden]
                 \in Listing
           /\ [c EXCEPT !.stage = "prune", !.page = page, !.hidden = hidden].hidden
                 = hidden
BY DEF Listing

LEMMA ListPrunes ==
    ASSUME NEW c \in Listing, NEW hidden \in SUBSET Items
    PROVE  /\ [c EXCEPT !.hidden = hidden] \in Listing
           /\ [c EXCEPT !.hidden = hidden].hidden = hidden
BY DEF Listing

\* The rows found for a page, and the items without.
LEMMA RowsArePublic ==
    ASSUME NEW page \in SUBSET Items
    PROVE  Rows(page) = page \intersect Public
BY DEF Rows, ArticleRows, SkillRows, McpServerRows

LEMMA ListBegins ==
    ASSUME IInv, NEW s \in Sessions,
           ListSkills(s) \/ ListMcpServers(s) \/ ListArticles(s)
    PROVE  IInv'
  <1>1. \A top \in BOOLEAN :
          /\ Reading(top) \in Listing /\ Reading(top).hidden = {}
          /\ \A st \in {"again", "wait"} :
               /\ [Reading(top) EXCEPT !.stage = st] \in Listing
               /\ [Reading(top) EXCEPT !.stage = st].hidden = {}
    BY DEF Reading, Listing
  <1>2. /\ UNCHANGED <<listUnchanged, zsetVars, cache>>
        /\ call[s].op = "idle"
        /\ flight' \in {flight, s}
        /\ \E c \in Listing : Step(s, c) /\ c.hidden = {}
    BY <1>1 DEF ListSkills, ListMcpServers, ListArticles, ListUnshared
  <1>3. /\ call' \in [Sessions -> Request] /\ calls' \in 0..MaxCalls
        /\ \A t \in Sessions : call'[t] = call[t] \/ MovesQuietly(t)
    BY <1>2, ListMoves
  <1>4. flight' \in Sessions \union {NoOne}
    BY <1>2 DEF IInv, TypeOK
  <1> QED
    BY <1>2, <1>3, <1>4, NothingShrinks, QuietRequest DEF listUnchanged, viewVars

LEMMA RefreshStep ==
    ASSUME IInv, NEW s \in Sessions, Refresh(s) \/ ReadPage(s)
    PROVE  IInv'
  <1>1. /\ call[s].op = "list"
        /\ UNCHANGED <<listUnchanged, zsetVars, cache>>
    BY DEF Refresh, ReadPage, At
  <1>2. CASE Refresh(s) /\ cache.fresh
    BY <1>1, <1>2, NothingShrinks, ListAnswers, QuietRequest
    DEF Refresh, listUnchanged, viewVars
  <1>3. CASE Refresh(s) /\ ~cache.fresh
    <2>1. Step(s, [call[s] EXCEPT !.stage = "read"]) /\ flight' = flight
      BY <1>3 DEF Refresh
    <2> DEFINE next == [call[s] EXCEPT !.stage = "read"]
    <2>2. next \in Listing /\ next.hidden \subseteq unsteady
      <3>1. call[s] \in Listing /\ call[s].hidden \subseteq unsteady
        BY <1>1, ListInHand
      <3> QED
        BY <3>1, ListReads
    <2>3. /\ call' \in [Sessions -> Request] /\ calls' \in 0..MaxCalls
          /\ \A t \in Sessions : call'[t] = call[t] \/ MovesQuietly(t)
      BY <1>1, <2>1, <2>2, ListMoves
    <2> QED
      BY <1>1, <2>1, <2>3, NothingShrinks, QuietRequest DEF listUnchanged, viewVars
  <1>4. CASE ReadPage(s)
    <2>1. PICK page \in SUBSET members[day] :
            Step(s, [call[s] EXCEPT !.stage = "hydrate", !.page = page])
      BY <1>4 DEF ReadPage
    <2>2. page \subseteq Items /\ flight' = flight
      BY <1>4 DEF ReadPage, IInv, TypeOK
    <2> DEFINE next == [call[s] EXCEPT !.stage = "hydrate", !.page = page]
    <2>3. next \in Listing /\ next.hidden \subseteq unsteady
      <3>1. /\ call[s] \in Listing /\ call[s].hidden \subseteq unsteady
            /\ page \in SUBSET Items
        BY <1>1, <2>2, ListInHand
      <3> QED
        BY <3>1, ListReads
    <2>4. Step(s, next)
      BY <2>1
    <2> HIDE DEF next
    <2>5. /\ call' \in [Sessions -> Request] /\ calls' \in 0..MaxCalls
          /\ \A t \in Sessions : call'[t] = call[t] \/ MovesQuietly(t)
      BY <1>1, <2>3, <2>4, ListMoves
    <2> QED
      BY <1>1, <2>2, <2>5, NothingShrinks, QuietRequest DEF listUnchanged, viewVars
  <1> QED
    BY <1>2, <1>3, <1>4

LEMMA HydrateStep ==
    ASSUME IInv, NEW s \in Sessions, Hydrate(s)
    PROVE  IInv'
  <1> DEFINE page == call[s].page
  <1>1. /\ call[s].op = "list" /\ page \subseteq Items
        /\ UNCHANGED <<listUnchanged, zsetVars, cache, flight>>
        /\ Step(s, [call[s] EXCEPT !.stage = "prune", !.page = Rows(page),
                                   !.hidden = page \ Rows(page)])
    BY ListInHand DEF Hydrate, At
  <1>2. /\ Rows(page) \subseteq Items /\ page \ Rows(page) \subseteq Items
        /\ page \ Rows(page) \subseteq unsteady
    BY <1>1, RowsArePublic DEF IInv, OnlyUnsteadyRemoved
  <1> DEFINE next == [call[s] EXCEPT !.stage = "prune", !.page = Rows(page),
                                     !.hidden = page \ Rows(page)]
  <1>3. next \in Listing /\ next.hidden \subseteq unsteady
    <2>1. /\ call[s] \in Listing /\ Rows(page) \in SUBSET Items
          /\ page \ Rows(page) \in SUBSET Items
      BY <1>1, <1>2, ListInHand
    <2>2. PICK rows \in SUBSET Items, rest \in SUBSET Items :
            rows = Rows(page) /\ rest = page \ Rows(page)
      BY <2>1
    <2>3. PICK c \in Listing : c = call[s]
      BY <2>1
    <2>4. /\ [c EXCEPT !.stage = "prune", !.page = rows, !.hidden = rest] \in Listing
          /\ [c EXCEPT !.stage = "prune", !.page = rows, !.hidden = rest].hidden = rest
      BY ListHydrates
    <2> QED
      BY <1>2, <2>2, <2>3, <2>4
  <1>4. Step(s, next)
    BY <1>1
  <1> HIDE DEF next
  <1>5. /\ call' \in [Sessions -> Request] /\ calls' \in 0..MaxCalls
        /\ \A t \in Sessions : call'[t] = call[t] \/ MovesQuietly(t)
    BY <1>1, <1>3, <1>4, ListMoves
  <1> QED
    BY <1>1, <1>5, NothingShrinks, QuietRequest DEF listUnchanged, viewVars

LEMMA PruneStep ==
    ASSUME IInv, NEW s \in Sessions, Prune(s)
    PROVE  IInv'
  <1>1. PICK i \in call[s].hidden :
          /\ Removed(day, i) \/ UNCHANGED zsetVars
          /\ Step(s, [call[s] EXCEPT !.hidden = @ \ {i}])
    BY DEF Prune
  <1>2. /\ call[s].op = "list"
        /\ UNCHANGED <<listUnchanged, cache, flight>>
        /\ TypeOK /\ day \in Days
    BY DEF Prune, At, IInv, TypeOK
  <1>3. call[s].hidden \subseteq Items /\ call[s].hidden \subseteq unsteady
    BY <1>2, RequestIs DEF IInv, TypeOK, OnlyUnsteadyRemoved
  <1>4. /\ SetsShrink
        /\ members' \in [Days -> SUBSET Items]
        /\ score' \in [Days -> [Items -> Int]]
        /\ expiring' \subseteq Days
    <2>1. CASE UNCHANGED zsetVars
      BY <1>2, <2>1, NothingShrinks DEF listUnchanged
    <2>2. CASE Removed(day, i)
      <3>1. SetsShrink
        BY <1>2, <1>3, <2>2, RemovedShrinks DEF listUnchanged
      <3> QED
        BY <1>2, <1>3, <2>2, <3>1, RemovedIs
    <2> QED
      BY <1>1, <2>1, <2>2
  <1>5. /\ call' \in [Sessions -> Request] /\ calls' \in 0..MaxCalls
        /\ \A t \in Sessions : call'[t] = call[t] \/ MovesQuietly(t)
    <2> DEFINE next == [call[s] EXCEPT !.hidden = call[s].hidden \ {i}]
    <2>1. /\ call[s].hidden \ {i} \in SUBSET Items
          /\ call[s].hidden \ {i} \subseteq unsteady
      BY <1>3
    <2>2. next \in Listing /\ next.hidden \subseteq unsteady
      <3>1. call[s] \in Listing
        BY <1>2, ListInHand
      <3> QED
        BY <2>1, <3>1, ListPrunes
    <2>3. Step(s, next)
      BY <1>1
    <2> HIDE DEF next
    <2> QED
      BY <1>2, <2>2, <2>3, ListMoves
  <1> QED
    BY <1>2, <1>4, <1>5, NothingShrinks, QuietRequest DEF listUnchanged, viewVars

LEMMA ListEnds ==
    ASSUME IInv, NEW s \in Sessions, ListFails(s) \/ StoreTop(s)
    PROVE  IInv'
  <1>1. /\ call[s].op = "list" /\ Answer(s)
        /\ UNCHANGED <<listUnchanged, zsetVars>>
    BY DEF ListFails, StoreTop, At
  <1>2. cache' \in [items : SUBSET Items, fresh : BOOLEAN]
    <2>1. call[s].page \subseteq Items
      BY <1>1, ListInHand
    <2>2. \/ cache' = cache
          \/ cache' = [items |-> {}, fresh |-> TRUE]
          \/ cache' = [items |-> call[s].page, fresh |-> TRUE]
      BY DEF ListFails, StoreTop
    <2>3. cache \in [items : SUBSET Items, fresh : BOOLEAN]
      BY DEF IInv, TypeOK
    <2>4. \A page \in SUBSET Items :
            [items |-> page, fresh |-> TRUE] \in [items : SUBSET Items, fresh : BOOLEAN]
      OBVIOUS
    <2> QED
      BY <2>1, <2>2, <2>3, <2>4
  <1> QED
    BY <1>1, <1>2, NothingShrinks, ListAnswers, QuietRequest
    DEF listUnchanged, viewVars

\* The ten seconds, midnight, and steps of somebody else.
LEMMA TimePasses ==
    ASSUME IInv, CacheExpires \/ NextDay \/ UNCHANGED vars
    PROVE  IInv'
  <1>1. /\ UNCHANGED <<kind, status, call, calls, flight, stuck, unsteady>>
        /\ UNCHANGED zsetVars /\ UNCHANGED viewVars
    BY DEF CacheExpires, NextDay, vars, listUnchanged
  <1>2. cache' \in [items : SUBSET Items, fresh : BOOLEAN] /\ day' \in Days
    <2>1. cache \in [items : SUBSET Items, fresh : BOOLEAN] /\ day \in Days
      BY DEF IInv, TypeOK
    <2>2. cache' = Stale \/ cache' = cache
      BY DEF CacheExpires, NextDay, vars
    <2>3. day' = day \/ (day < LastDay /\ day' = day + 1)
      BY DEF CacheExpires, NextDay, vars, listUnchanged
    <2>4. Stale \in [items : SUBSET Items, fresh : BOOLEAN]
      BY DEF Stale
    <2>5. day' \in Days
      BY <2>1, <2>3, RankingAssumption DEF Days
    <2> QED
      BY <2>1, <2>2, <2>4, <2>5
  <1>3. TypeOK'
    BY <1>1, <1>2 DEF IInv, TypeOK, zsetVars, viewVars
  <1>4. SetsShrink /\ viewed \subseteq viewed'
    BY <1>1, NothingShrinks DEF viewVars
  <1> QED
    BY <1>1, <1>3, <1>4, QuietStep DEF viewVars

-----------------------------------------------------------------------------
(* What the hot list keeps to.                                             *)

\* IInv is inductive: a score in the making, a view on its way and a removal
\* on its way are accounted for by the request that carries them.
THEOREM RankingInvariant == Spec => []IInv
  <1>1. Init => IInv
    <2> SUFFICES ASSUME Init
                 PROVE  IInv
      OBVIOUS
    <2>1. PICK earned \in [Items -> FirstScores] :
            /\ score = [d \in Days |-> IF d = 1 THEN earned
                                       ELSE [i \in Items |-> 0]]
            /\ members = [d \in Days |-> {i \in Items : score[d][i] > 0}]
            /\ expiring = {d \in Days : members[d] # {}}
      BY DEF Init
    <2>2. day \in Days /\ 0 \in 0..MaxCalls
      BY RankingAssumption DEF Init, Days
    <2>3. \A d \in Days : score[d] \in [Items -> Int]
      <3>1. earned \in [Items -> Int]
        <4>1. FirstScores \subseteq Int
          BY RankingAssumption
        <4> QED
          BY <4>1
      <3>2. [i \in Items |-> 0] \in [Items -> Int]
        OBVIOUS
      <3> QED
        BY <2>1, <3>1, <3>2
    <2>4. score \in [Days -> [Items -> Int]]
      BY <2>1, <2>3
    <2>5. Stale \in [items : SUBSET Items, fresh : BOOLEAN]
      BY DEF Stale
    <2>6. TypeOK
      BY <2>1, <2>2, <2>4, <2>5, IdleIs DEF Init, TypeOK
    <2>7. OnlyPositiveScores
      BY <2>1 DEF OnlyPositiveScores
    <2>8. ViewsAreOwed /\ ViewScoredOnce /\ OnlyUnsteadyRemoved
      BY IdleIs DEF Init, ViewsAreOwed, ViewScoredOnce, OnlyUnsteadyRemoved,
                    Public, Increments
    <2> QED
      BY <2>6, <2>7, <2>8 DEF IInv
  <1>2. IInv /\ [Next]_vars => IInv'
    <2> SUFFICES ASSUME IInv, [Next]_vars
                 PROVE  IInv'
      OBVIOUS
    <2>1. ASSUME NEW s \in Sessions, Score(s) \/ Read(s)
          PROVE  IInv'
      BY <2>1, AddScoreStep, ZIncrByStep, ZIncrByLostStep, ScoreEnds, ViewStep,
         RecordViewStep, ViewFailsStep DEF Score, Read
    <2>2. ASSUME NEW s \in Sessions, Moderate(s)
          PROVE  IInv'
      BY <2>2, WithholdStep, RemoveStep, RemoveFailsStep DEF Moderate
    <2>3. ASSUME NEW s \in Sessions, List(s)
          PROVE  IInv'
      BY <2>3, ListBegins, RefreshStep, HydrateStep, PruneStep, ListEnds
      DEF List, ListStep
    <2>4. CASE Restore \/ CacheExpires \/ NextDay \/ UNCHANGED vars
      BY <2>4, RestoreStep, TimePasses
    <2> QED
      BY <2>1, <2>2, <2>3, <2>4 DEF Next
  <1> QED
    BY <1>1, <1>2, PTL DEF Spec

\* A member of a day's set has a positive score, or an AddScore is about to
\* remove it, or its ZREM failed, or the answer to its last increment was lost
\* (ContentRankingService.AddScore).
THEOREM SetsHoldPositives == Spec => []OnlyPositiveScores
  <1>1. IInv => OnlyPositiveScores
    BY DEF IInv
  <1> QED
    BY <1>1, RankingInvariant, PTL

\* No view of a member is added to the sets twice for one day's key
\* (RecordView's SETNX), but by a Redis client that sends its increment again.
THEOREM ViewsCountOnce == Spec => []ViewScoredOnce
  <1>1. IInv => ViewScoredOnce
    BY DEF IInv
  <1> QED
    BY <1>1, RankingInvariant, PTL

\* A ZREM for an item that has been public all along comes from an AddScore
\* that saw zero: every other one removes what was withheld meanwhile.
LEMMA ScoresStayStep ==
    ASSUME IInv, [Next]_vars,
           NEW d \in Days, NEW i \in members[d] \ members'[d]
    PROVE  \/ i \in unsteady
           \/ \E s \in Sessions : At(s, "score", "zrem") /\ call'[s] = Idle
  <1>1. /\ TypeOK /\ OnlyUnsteadyRemoved /\ day \in Days
        /\ members \in [Days -> SUBSET Items]
    BY DEF IInv, TypeOK
  <1>2. ASSUME NEW s \in Sessions, ZRem(s)
        PROVE  At(s, "score", "zrem") /\ call'[s] = Idle
    BY <1>1, <1>2, FinishIs, MovesIs DEF ZRem
  <1>3. ASSUME NEW s \in Sessions, Remove(s)
        PROVE  i \in unsteady
    <2>1. /\ call[s].op = "remove" /\ call[s].item \in Items
          /\ Removed(day, call[s].item)
      BY <1>1, <1>3, RequestIs DEF Remove, At, TypeOK
    <2>2. i = call[s].item
      BY <1>1, <2>1, RemovedIs
    <2> QED
      BY <1>1, <2>1, <2>2 DEF OnlyUnsteadyRemoved
  <1>4. ASSUME NEW s \in Sessions, Prune(s)
        PROVE  i \in unsteady
    <2>1. PICK j \in call[s].hidden : Removed(day, j) \/ UNCHANGED zsetVars
      BY <1>4 DEF Prune
    <2>2. call[s].hidden \subseteq Items /\ call[s].hidden \subseteq unsteady
      BY <1>4, ListInHand DEF Prune, At
    <2>3. ~UNCHANGED zsetVars
      BY DEF zsetVars
    <2>4. Removed(day, j)
      BY <2>1, <2>3
    <2>5. i = j
      BY <1>1, <2>2, <2>4, RemovedIs
    <2> QED
      BY <2>2, <2>5
  <1>5. ASSUME NEW s \in Sessions, ZIncrBy(s) \/ ZIncrByLost(s)
        PROVE  FALSE
    <2>1. \/ UNCHANGED members
          \/ members' = [members EXCEPT ![KeyDay(s)] = @ \union {call[s].item}]
      BY <1>5 DEF ZIncrBy, ZIncrByLost, Incremented, zsetVars
    <2> QED
      BY <1>1, <2>1
  <1>6. ASSUME UNCHANGED members
        PROVE  FALSE
    BY <1>6
  <1>7. ASSUME NEW s \in Sessions, Score(s) \/ Read(s), ~ZRem(s), ~ZIncrBy(s),
               ~ZIncrByLost(s)
        PROVE  UNCHANGED members
    BY <1>7 DEF Score, Read, AddLike, AddComment, AddScore, Expire, ScoreFails,
                Failing, ArticleDetail, SkillDetail, McpServerDetail, View,
                RecordView, ViewFails, zsetVars
  <1>8. ASSUME NEW s \in Sessions, Moderate(s) \/ List(s), ~Remove(s), ~Prune(s)
        PROVE  UNCHANGED members
    BY <1>8 DEF Moderate, Withhold, RemoveFails, Failing, List, ListSkills,
                ListMcpServers, ListUnshared, ListArticles, ListStep, Refresh,
                ReadPage, ListFails, Hydrate, StoreTop, zsetVars
  <1>9. Restore \/ CacheExpires \/ NextDay \/ UNCHANGED vars => UNCHANGED members
    BY DEF Restore, CacheExpires, NextDay, vars, zsetVars
  <1> QED
    BY <1>2, <1>3, <1>4, <1>5, <1>6, <1>7, <1>8, <1>9 DEF Next

\* Content that has been public all along loses a positive score only to an
\* AddScore that saw zero, and to no page or removal of something else.
THEOREM PublicKeepsItsScore == Spec => ScoresStay
  <1> DEFINE Kept == \A d \in Days : \A i \in members[d] \ members'[d] :
                        score[d][i] > 0 =>
                           \/ i \in unsteady
                           \/ \E s \in Sessions : /\ At(s, "score", "zrem")
                                                  /\ call'[s] = Idle
  <1>1. IInv /\ [Next]_vars => [Kept]_vars
    BY ScoresStayStep
  <1>2. Spec => [][Kept]_vars
    BY <1>1, RankingInvariant, PTL DEF Spec
  <1> QED
    BY <1>2 DEF ScoresStay
=============================================================================
