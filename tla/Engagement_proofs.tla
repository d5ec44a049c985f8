------------------------- MODULE Engagement_proofs -------------------------
(***************************************************************************)
(* The counters, threads and hidden threads of Engagement, for any users,  *)
(* requests and comments.                                                  *)
(***************************************************************************)
EXTENDS Engagement, FiniteSetTheorems, WellFoundedInduction, TLAPS

-----------------------------------------------------------------------------
(* Requests.                                                               *)

\* The kinds of request differ in what they do or in how far they are.
LEMMA RequestIs ==
    ASSUME NEW c \in Request
    PROVE  /\ c.op = "toggle" /\ c.stage = "insert" => c \in Inserting
           /\ c.op = "toggle" /\ c.stage # "insert" => c \in Inserted
           /\ c.op = "post" /\ c.stage = "draft" => c \in Writing
           /\ c.op = "post" /\ c.stage # "draft" => c \in Posting
           /\ c.op \in {"drop", "hide"} => c \in Aiming
           /\ c.op = "save" => c \in Saving
           /\ c.op = "idle" => c = Idle
BY DEF Request, Idle, Inserting, Inserted, Writing, Posting, Aiming, Saving,
       Viewing

LEMMA InsertingIs ==
    ASSUME NEW c \in Inserting
    PROVE  /\ c.op = "toggle" /\ c.stage = "insert"
           /\ c.user \in Users /\ c.mark \in Marks
BY DEF Inserting

LEMMA InsertedIs ==
    ASSUME NEW c \in Inserted
    PROVE  /\ c.op = "toggle" /\ c.stage \in {"duplicate", "flipped"}
           /\ c.user \in Users /\ c.mark \in Marks /\ c.on \in BOOLEAN
BY DEF Inserted

LEMMA PostsAre ==
    ASSUME NEW c \in Writing \union Posting
    PROVE  /\ c.op = "post" /\ c.stage \in {"draft", "commit"}
           /\ c.row \in Comment
           /\ c.stage = "commit" => c.notify \in Users \union {Nobody}
BY DEF Writing, Posting

\* A change of one session's request, or of none.
Moves(s, c) == call' = [call EXCEPT ![s] = c]

LEMMA MovesIs ==
    ASSUME TypeOK, NEW s \in Sessions, NEW c, Moves(s, c)
    PROVE  /\ call'[s] = c
           /\ \A t \in Sessions : t # s => call'[t] = call[t]
           /\ c \in Request => call' \in [Sessions -> Request]
BY DEF TypeOK, Moves

-----------------------------------------------------------------------------
(* Toggles.                                                                *)

\* A request that has not met its row yet, or no toggle at all, is no rival.
LEMMA TogglesKept ==
    ASSUME TypeOK, TogglesHold, rows' = rows,
           NEW s \in Sessions, NEW c, Moves(s, c),
           c.op # "toggle" \/ c.stage = "insert"
    PROVE  TogglesHold'
<1>1. \A t \in Sessions : t # s => call'[t] = call[t]
  BY MovesIs
<1>2. call'[s] = c
  BY MovesIs
<1>3. ~Toggles(s, "flipped")' /\ ~Toggles(s, "duplicate")'
  BY <1>2 DEF Toggles
<1>4. ASSUME NEW t \in Sessions, NEW st \in {"flipped", "duplicate"},
             Toggles(t, st)'
      PROVE  /\ Toggles(t, st)
             /\ Key(t)' = Key(t) /\ call'[t].on = call[t].on
             /\ Rivals(t, "flipped")' \subseteq Rivals(t, "flipped")
             /\ Rivals(t, "duplicate")' \subseteq Rivals(t, "duplicate")
  <2>1. t # s /\ call'[t] = call[t]
    BY <1>1, <1>3, <1>4
  <2>2. Rivals(t, "flipped")' \subseteq Rivals(t, "flipped")
    BY <2>1, <1>1, <1>3 DEF Rivals, Key, Toggles
  <2>3. Rivals(t, "duplicate")' \subseteq Rivals(t, "duplicate")
    BY <2>1, <1>1, <1>3 DEF Rivals, Key, Toggles
  <2> QED
    BY <2>1, <2>2, <2>3, <1>4 DEF Toggles, Key
<1>5. \A t \in Sessions : Toggles(t, "flipped")' =>
          /\ (call[t].on <=> Key(t) \notin rows)'
          /\ (Rivals(t, "flipped") \union Rivals(t, "duplicate") = {})'
  <2> SUFFICES ASSUME NEW t \in Sessions, Toggles(t, "flipped")'
               PROVE  /\ (call[t].on <=> Key(t) \notin rows)'
                      /\ (Rivals(t, "flipped") \union Rivals(t, "duplicate") = {})'
    OBVIOUS
  <2> QED
    BY <1>4 DEF TogglesHold
<1>6. \A t \in Sessions :
          Toggles(t, "duplicate")' => (~call[t].on /\ Key(t) \in rows)'
  <2> SUFFICES ASSUME NEW t \in Sessions, Toggles(t, "duplicate")'
               PROVE  (~call[t].on /\ Key(t) \in rows)'
    OBVIOUS
  <2> QED
    BY <1>4 DEF TogglesHold
<1>7. \A m \in Marks : IsFiniteSet(Reactors(m))'
  BY DEF TogglesHold, Reactors
<1> QED
  BY <1>5, <1>6, <1>7 DEF TogglesHold

\* The row is found as the request will remember it.
LEMMA InsertFits ==
    ASSUME TypeOK, TogglesHold, NEW s \in Sessions, InsertRow(s)
    PROVE  TogglesHold' /\ call' \in [Sessions -> Request]
<1> DEFINE c == [op |-> "toggle", user |-> call[s].user, mark |-> call[s].mark,
                 on |-> Key(s) \notin rows,
                 stage |-> IF Key(s) \in rows THEN "duplicate" ELSE "flipped"]
<1>1. Moves(s, c) /\ rows' = rows /\ Rivals(s, "flipped") = {}
  BY DEF InsertRow, Moves
<1>2. call[s] \in Inserting
  BY RequestIs DEF InsertRow, TypeOK
<1>3. c \in Inserted
  BY <1>2, InsertingIs DEF Inserted
<1>4. call' \in [Sessions -> Request]
  BY <1>1, <1>3, MovesIs DEF Request
<1>5. call'[s] = c /\ \A t \in Sessions : t # s => call'[t] = call[t]
  BY <1>1, MovesIs
<1>6. Key(s)' = Key(s) /\ \A t \in Sessions : Key(t)' = Key(t)
  BY <1>5 DEF Key
<1>7. c.on <=> Key(s) \notin rows
  OBVIOUS
<1>8. c.op = "toggle" /\ c.stage = IF Key(s) \in rows THEN "duplicate" ELSE "flipped"
  OBVIOUS
<1> HIDE DEF c
<1>9. ASSUME NEW t \in Sessions, Toggles(t, "flipped")'
      PROVE  /\ (call[t].on <=> Key(t) \notin rows)'
             /\ (Rivals(t, "flipped") \union Rivals(t, "duplicate") = {})'
  <2>1. CASE t = s
    <3>1. Key(s) \notin rows
      BY <1>5, <1>8, <1>9, <2>1 DEF Toggles
    <3>2. \A u \in Sessions \ {s} : Key(u) = Key(s) =>
              ~Toggles(u, "flipped") /\ ~Toggles(u, "duplicate")
      BY <3>1, <1>1 DEF TogglesHold, Rivals, Toggles
    <3>3. Rivals(s, "flipped")' = {} /\ Rivals(s, "duplicate")' = {}
      BY <3>2, <1>5, <1>6 DEF Rivals, Toggles
    <3> QED
      BY <3>1, <3>3, <2>1, <1>1, <1>5, <1>6, <1>7
  <2>2. CASE t # s
    <3>1. Toggles(t, "flipped") /\ call'[t] = call[t]
      BY <2>2, <1>5, <1>9 DEF Toggles
    <3>2. Key(t) # Key(s)
      BY <3>1, <2>2, <1>1 DEF Rivals, Toggles
    <3>3. (Rivals(t, "flipped") \union Rivals(t, "duplicate"))'
             \subseteq Rivals(t, "flipped") \union Rivals(t, "duplicate")
      BY <3>2, <1>5, <1>6 DEF Rivals
    <3> QED
      BY <3>1, <3>3, <1>1, <1>6 DEF TogglesHold
  <2> QED
    BY <2>1, <2>2
<1>10. ASSUME NEW t \in Sessions, Toggles(t, "duplicate")'
       PROVE  (~call[t].on /\ Key(t) \in rows)'
  <2>1. CASE t = s
    BY <2>1, <1>1, <1>5, <1>6, <1>7, <1>8, <1>10 DEF Toggles
  <2>2. CASE t # s
    BY <2>2, <1>1, <1>5, <1>6, <1>10 DEF Toggles, TogglesHold
  <2> QED
    BY <2>1, <2>2
<1>11. \A m \in Marks : IsFiniteSet(Reactors(m))'
  BY <1>1 DEF TogglesHold, Reactors
<1> QED
  BY <1>4, <1>9, <1>10, <1>11 DEF TogglesHold

\* The duplicate is deleted by its only holder.
LEMMA DeleteFits ==
    ASSUME TypeOK, TogglesHold, NEW s \in Sessions, DeleteRow(s)
    PROVE  TogglesHold' /\ call' \in [Sessions -> Request]
<1> DEFINE c == [call[s] EXCEPT !.stage = "flipped"]
<1>1. Moves(s, c) /\ rows' = rows /\ Rivals(s, "duplicate") = {}
  BY DEF DeleteRow, Go, Moves
<1>2. call[s] \in Inserted /\ Toggles(s, "duplicate")
  BY RequestIs DEF DeleteRow, TypeOK, Toggles
<1>3. c \in Inserted /\ c.op = "toggle" /\ c.user = call[s].user /\ c.on = call[s].on
      /\ c.mark = call[s].mark /\ c.stage = "flipped"
  BY <1>2 DEF Inserted
<1>4. call' \in [Sessions -> Request]
  BY <1>1, <1>3, MovesIs DEF Request
<1>5. call'[s] = c /\ \A t \in Sessions : t # s => call'[t] = call[t]
  BY <1>1, MovesIs
<1> HIDE DEF c
<1>6. Key(s)' = Key(s) /\ \A t \in Sessions : Key(t)' = Key(t)
  BY <1>3, <1>5 DEF Key
<1>7. ASSUME NEW t \in Sessions, Toggles(t, "flipped")'
      PROVE  /\ (call[t].on <=> Key(t) \notin rows)'
             /\ (Rivals(t, "flipped") \union Rivals(t, "duplicate") = {})'
  <2>1. CASE t = s
    <3>1. \A u \in Sessions \ {s} : Key(u) = Key(s) =>
              ~Toggles(u, "flipped") /\ ~Toggles(u, "duplicate")
      BY <1>1, <1>2 DEF TogglesHold, Rivals, Toggles
    <3>2. Rivals(s, "flipped")' = {} /\ Rivals(s, "duplicate")' = {}
      BY <3>1, <1>5, <1>6 DEF Rivals, Toggles
    <3>3. ~c.on /\ Key(s) \in rows
      BY <1>2, <1>3 DEF TogglesHold
    <3> QED
      BY <3>2, <3>3, <2>1, <1>1, <1>5, <1>6
  <2>2. CASE t # s
    <3>1. Toggles(t, "flipped") /\ call'[t] = call[t]
      BY <2>2, <1>5, <1>7 DEF Toggles
    <3>2. Key(t) # Key(s)
      BY <3>1, <2>2, <1>2 DEF TogglesHold, Rivals, Toggles
    <3>3. (Rivals(t, "flipped") \union Rivals(t, "duplicate"))'
             \subseteq Rivals(t, "flipped") \union Rivals(t, "duplicate")
      BY <3>2, <1>5, <1>6 DEF Rivals
    <3> QED
      BY <3>1, <3>3, <1>1, <1>6 DEF TogglesHold
  <2> QED
    BY <2>1, <2>2
<1>8. ASSUME NEW t \in Sessions, Toggles(t, "duplicate")'
      PROVE  (~call[t].on /\ Key(t) \in rows)'
  BY <1>1, <1>3, <1>5, <1>6, <1>8 DEF Toggles, TogglesHold
<1>9. \A m \in Marks : IsFiniteSet(Reactors(m))'
  BY <1>1 DEF TogglesHold, Reactors
<1> QED
  BY <1>4, <1>7, <1>8, <1>9 DEF TogglesHold

\* The row a toggle has flipped is one reaction more or one less.
LEMMA ReactorsMove ==
    ASSUME TypeOK, TogglesHold, NEW s \in Sessions, Toggles(s, "flipped"),
           rows' = IF call[s].on THEN rows \union {Key(s)} ELSE rows \ {Key(s)},
           NEW m \in Marks
    PROVE  /\ IsFiniteSet(Reactors(m)')
           /\ m # call[s].mark => Reactors(m)' = Reactors(m)
           /\ m = call[s].mark => Cardinality(Reactors(m)')
                = Cardinality(Reactors(m)) + (IF call[s].on THEN 1 ELSE -1)
<1>1. call[s].user \in Users /\ call[s].mark \in Marks
  BY RequestIs, InsertedIs DEF TypeOK, Toggles
<1>2. IsFiniteSet(Reactors(m)) /\ (call[s].on <=> Key(s) \notin rows)
  BY DEF TogglesHold
<1>3. m # call[s].mark => Reactors(m)' = Reactors(m)
  BY DEF Reactors, Key
<1>4. CASE m = call[s].mark /\ call[s].on
  <2>1. Reactors(m)' = Reactors(m) \union {call[s].user}
    BY <1>1, <1>4 DEF Reactors, Key
  <2>2. call[s].user \notin Reactors(m)
    BY <1>2, <1>4 DEF Reactors, Key
  <2>3. /\ IsFiniteSet(Reactors(m) \union {call[s].user})
        /\ Cardinality(Reactors(m) \union {call[s].user})
              = Cardinality(Reactors(m)) + 1
    BY ONLY <2>2, <1>2, FS_AddElement
  <2> QED
    BY <2>1, <2>3, <1>4
<1>5. CASE m = call[s].mark /\ ~call[s].on
  <2>1. Reactors(m)' = Reactors(m) \ {call[s].user}
    BY <1>1, <1>5 DEF Reactors, Key
  <2>2. call[s].user \in Reactors(m)
    BY <1>1, <1>2, <1>5 DEF Reactors, Key
  <2>3. Cardinality(Reactors(m)) \in Nat
    BY <1>2, FS_CardinalityType
  <2>4. /\ IsFiniteSet(Reactors(m) \ {call[s].user})
        /\ Cardinality(Reactors(m) \ {call[s].user})
              = Cardinality(Reactors(m)) - 1
    BY ONLY <2>2, <1>2, FS_RemoveElement
  <2> QED
    BY <2>1, <2>3, <2>4, <1>5
<1> QED
  BY <1>2, <1>3, <1>4, <1>5

\* Nobody else has the key of the toggle that commits.
LEMMA CommitFits ==
    ASSUME TypeOK, TogglesHold, NEW s \in Sessions, CommitToggle(s)
    PROVE  TogglesHold'
<1>1. /\ Toggles(s, "flipped") /\ Moves(s, Idle)
      /\ rows' = IF call[s].on THEN rows \union {Key(s)} ELSE rows \ {Key(s)}
  BY DEF CommitToggle, Finish, Moves, Toggles
<1>2. call'[s] = Idle /\ \A t \in Sessions : t # s => call'[t] = call[t]
  BY <1>1, MovesIs
<1>3. \A st : ~Toggles(s, st)'
  BY <1>2 DEF Toggles, Idle
<1>4. ASSUME NEW t \in Sessions, NEW st \in {"flipped", "duplicate"},
             Toggles(t, st)'
      PROVE  /\ Toggles(t, st)
             /\ Key(t)' = Key(t) /\ call'[t].on = call[t].on
             /\ Key(t) \in rows' <=> Key(t) \in rows
             /\ Rivals(t, "flipped")' \subseteq Rivals(t, "flipped")
             /\ Rivals(t, "duplicate")' \subseteq Rivals(t, "duplicate")
  <2>1. t # s /\ call'[t] = call[t]
    BY <1>2, <1>3, <1>4
  <2>2. Toggles(t, st) /\ Key(t)' = Key(t) /\ call'[t].on = call[t].on
    BY <2>1, <1>4 DEF Toggles, Key
  <2>3. Key(t) # Key(s)
    BY <2>1, <2>2, <1>1 DEF TogglesHold, Rivals, Toggles
  <2>4. Rivals(t, "flipped")' \subseteq Rivals(t, "flipped")
    BY <2>1, <1>2, <1>3 DEF Rivals, Key, Toggles
  <2>5. Rivals(t, "duplicate")' \subseteq Rivals(t, "duplicate")
    BY <2>1, <1>2, <1>3 DEF Rivals, Key, Toggles
  <2> QED
    BY <2>2, <2>3, <2>4, <2>5, <1>1
<1>5. \A t \in Sessions : Toggles(t, "flipped")' =>
          /\ (call[t].on <=> Key(t) \notin rows)'
          /\ (Rivals(t, "flipped") \union Rivals(t, "duplicate") = {})'
  <2> SUFFICES ASSUME NEW t \in Sessions, Toggles(t, "flipped")'
               PROVE  /\ (call[t].on <=> Key(t) \notin rows)'
                      /\ (Rivals(t, "flipped") \union Rivals(t, "duplicate") = {})'
    OBVIOUS
  <2> QED
    BY <1>4 DEF TogglesHold
<1>6. \A t \in Sessions :
          Toggles(t, "duplicate")' => (~call[t].on /\ Key(t) \in rows)'
  <2> SUFFICES ASSUME NEW t \in Sessions, Toggles(t, "duplicate")'
               PROVE  (~call[t].on /\ Key(t) \in rows)'
    OBVIOUS
  <2> QED
    BY <1>4 DEF TogglesHold
<1>7. \A m \in Marks : IsFiniteSet(Reactors(m))'
  <2> SUFFICES ASSUME NEW m \in Marks
               PROVE  IsFiniteSet(Reactors(m)')
    BY DEF Reactors
  <2> QED
    BY <1>1, ReactorsMove
<1> QED
  BY <1>5, <1>6, <1>7 DEF TogglesHold

-----------------------------------------------------------------------------
(* Comments.                                                               *)

\* The requests that are new refer to comments that are there.
Knows(c) == /\ c.op = "toggle" => \A i \in Comments :
                                      c.mark = CommentLike(i) => Born(i)
            /\ c.op \in {"drop", "hide"} => Born(c.id)

LEMMA UnbornKept ==
    ASSUME TypeOK, UnbornIsUnknown,
           \A i \in Comments :
               /\ Born(i) => comment'[i].state # "unborn"
               /\ comment'[i].state = "unborn" =>
                     /\ comment'[i] = comment[i] /\ likes'[i] = likes[i]
                     /\ \A j \in Comments :
                            i < j => comment'[j].state = "unborn",
           \A k \in rows' : k \in rows \/
               \A i \in Comments : k[2] = CommentLike(i) => Born(i),
           \A s \in Sessions : call'[s] = call[s] \/ Knows(call'[s])
    PROVE  UnbornIsUnknown'
<1>1. ASSUME NEW i \in Comments, comment'[i].state = "unborn"
      PROVE  /\ comment'[i] = NoRow
             /\ likes'[i] = 0
             /\ \A j \in Comments : i < j => comment'[j].state = "unborn"
             /\ \A k \in rows' : k[2] # CommentLike(i)
  BY <1>1 DEF UnbornIsUnknown, Born
<1>2. ASSUME NEW s \in Sessions
      PROVE  /\ call'[s].op = "toggle" =>
                  \A i \in Comments : call'[s].mark = CommentLike(i) => Born(i)
             /\ call'[s].op \in {"drop", "hide"} => Born(call'[s].id)
  BY DEF UnbornIsUnknown, Knows
<1>3. \A i : Born(i) => i \in Comments /\ comment'[i].state # "unborn"
  BY DEF Born
<1> QED
  BY <1>1, <1>2, <1>3 DEF UnbornIsUnknown, Born, NoRow

\* A request to post, once it is new.
Drafts(c) == c.op = "post" =>
    /\ Fits(c.row, IF c.stage = "draft" THEN Nobody ELSE c.notify)
    /\ c.row.state = "live"
    /\ ~c.row.hidden

LEMMA ThreadsKept ==
    ASSUME TypeOK, ThreadsAreFlat, comment' \in [Comments -> Comment],
           call' \in [Sessions -> Request], told' = told,
           \A i \in Comments :
               /\ comment'[i].author = comment[i].author
               /\ comment'[i].parent = comment[i].parent
               /\ comment'[i].replyTo = comment[i].replyTo
               /\ comment'[i].state = "unborn" <=> comment[i].state = "unborn",
           \A s \in Sessions : call'[s] = call[s] \/ Drafts(call'[s])
    PROVE  ThreadsAreFlat'
<1>1. \A i : Born(i)' <=> Born(i)
  BY DEF Born
<1>2. \A c \in Comment : \A to : Fits(c, to) =>
        /\ c.replyTo = 0 \/ Born(c.replyTo)'
        /\ c.parent = IF c.replyTo # 0 /\ comment'[c.replyTo].parent # 0
                      THEN comment'[c.replyTo].parent ELSE c.replyTo
        /\ to \in {Nobody} \union
              ({IF c.replyTo = 0 THEN Owner ELSE comment'[c.replyTo].author}
                  \ {c.author})
  BY <1>1 DEF Fits, RootOf, Comment, Born
<1>3. ASSUME NEW i \in Comments, Born(i)'
      PROVE  /\ Fits(comment[i], told[i])'
             /\ comment'[i].replyTo < i
             /\ comment'[i].parent # 0 =>
                   /\ Born(comment[i].parent)'
                   /\ comment'[comment'[i].parent].parent = 0
  <2>1. Born(i) /\ comment[i] \in Comment /\ comment'[i] \in Comment
    BY <1>1, <1>3 DEF TypeOK
  <2>2. /\ Fits(comment[i], told[i]) /\ comment[i].replyTo < i
        /\ comment[i].parent # 0 => /\ Born(comment[i].parent)
                                    /\ comment[comment[i].parent].parent = 0
    BY <2>1 DEF ThreadsAreFlat
  <2>3. /\ comment'[i].author = comment[i].author
        /\ comment'[i].parent = comment[i].parent
        /\ comment'[i].replyTo = comment[i].replyTo
    OBVIOUS
  <2>4. Fits(comment[i], told[i])'
    BY <2>1, <2>2, <2>3, <1>2 DEF Fits, RootOf
  <2> QED
    BY <2>2, <2>3, <2>4, <1>1 DEF Born
<1>4. ASSUME NEW s \in Sessions, call'[s].op = "post"
      PROVE  /\ Fits(call[s].row, IF call[s].stage = "draft" THEN Nobody
                                                    ELSE call[s].notify)'
             /\ call'[s].row.state = "live"
             /\ ~call'[s].row.hidden
  <2>1. Drafts(call'[s])
    BY <1>4 DEF ThreadsAreFlat, Drafts
  <2>2. call'[s].row \in Comment
    BY <1>4, RequestIs, PostsAre DEF Request
  <2> QED
    BY <2>1, <2>2, <1>2, <1>4 DEF Drafts, Fits, RootOf
<1> QED
  BY <1>3, <1>4 DEF ThreadsAreFlat

-----------------------------------------------------------------------------
(* The opener of a conversation.                                           *)

\* A recursive function is any that solves its equation: here is one.
LEMMA OpenerIs ==
    ASSUME TypeOK, UnbornIsUnknown, ThreadsAreFlat, NEW i \in Comments
    PROVE  Opener[i] = IF comment[i].parent = 0 THEN i ELSE comment[i].parent
<1> DEFINE Up(j) == comment[j].replyTo
           Root(j) == IF comment[j].parent = 0 THEN j ELSE comment[j].parent
           f == [j \in Comments |-> Root(j)]
<1>1. ASSUME NEW j \in Comments
      PROVE  /\ Up(j) \in Comments \union {0}
             /\ Up(j) < j
             /\ Up(j) = 0 => comment[j].parent = 0
             /\ Up(j) # 0 => Root(j) = Root(Up(j))
  <2>1. CASE comment[j].state = "unborn"
    BY <2>1 DEF UnbornIsUnknown, NoRow, Comments
  <2>2. CASE Born(j)
    <3>1. comment[j] \in Comment
      BY DEF TypeOK
    <3>2. comment[j].parent = RootOf(Up(j)) /\ Up(j) < j
      BY <2>2 DEF ThreadsAreFlat, Fits
    <3>3. Up(j) # 0 => comment[Up(j)] \in Comment
      BY <3>1 DEF TypeOK, Comment
    <3> QED
      BY <3>1, <3>2, <3>3 DEF RootOf, Comment
  <2> QED
    BY <2>1, <2>2 DEF Born
<1>2. f = [j \in Comments |-> IF Up(j) = 0 THEN j ELSE f[Up(j)]]
  <2>1. \A j \in Comments : f[j] = IF Up(j) = 0 THEN j ELSE f[Up(j)]
    BY <1>1
  <2> QED
    BY <2>1, Zenon
<1>3. Opener = [j \in Comments |-> IF Up(j) = 0 THEN j ELSE Opener[Up(j)]]
  BY <1>2 DEF Opener
<1>4. \A j \in Comments : Opener[j] = IF Up(j) = 0 THEN j ELSE Opener[Up(j)]
  BY ONLY <1>3
<1> DEFINE Bad == {j \in Comments : Opener[j] # Root(j)}
<1>5. ASSUME Bad # {}
      PROVE  FALSE
  <2>1. Bad \subseteq Nat
    BY DEF Comments
  <2>2. \E j \in Bad : \A k \in Bad : <<k, j>> \notin OpToRel(<, Nat)
    BY ONLY <2>1, <1>5, WFMin, NatLessThanWellFounded
  <2>3. PICK j \in Bad : \A k \in Bad : ~(k < j)
    BY <2>1, <2>2 DEF OpToRel
  <2>4. Up(j) # 0 => Up(j) \notin Bad
    BY <2>3, <1>1
  <2>5. Opener[j] = Root(j)
    BY <2>3, <2>4, <1>1, <1>4
  <2> QED
    BY <2>3, <2>5
<1> QED
  BY <1>5

LEMMA RepliesStay ==
    ASSUME TypeOK, UnbornIsUnknown, ThreadsAreFlat
    PROVE  RepliesStayInThread
<1>1. ASSUME NEW i \in Comments, comment[i].state # "unborn"
      PROVE  /\ comment[i].parent = IF comment[i].replyTo = 0 THEN 0
                                                              ELSE Opener[i]
             /\ told[i] \in {Nobody} \union
                   ({IF comment[i].replyTo = 0 THEN Owner
                     ELSE comment[comment[i].replyTo].author}
                        \ {comment[i].author})
  <2>1. Fits(comment[i], told[i])
    BY <1>1 DEF ThreadsAreFlat, Born
  <2>2. comment[i].replyTo \in Comments \union {0}
    BY DEF TypeOK, Comment
  <2>3. 0 \notin Comments
    BY DEF Comments
  <2>4. comment[i].parent = 0 <=> comment[i].replyTo = 0
    BY <2>1, <2>2, <2>3 DEF Fits, RootOf
  <2> QED
    BY <2>1, <2>4, OpenerIs DEF Fits
<1> DEFINE list == {i \in Comments : Live(i) /\ ~comment[i].hidden}
           shown == Threads(list)
<1>2. Listing.list = shown
  BY DEF Listing, CommentList, ResourceCommentList, assembleComments,
         assembleResComments, ListByArticle, ListByResource
<1>3. /\ shown.roots = {i \in list : comment[i].parent = 0}
      /\ shown.under = [r \in shown.roots |->
                           {i \in list : comment[i].parent = r}]
      /\ shown.orphans =
            {i \in list : comment[i].parent \notin shown.roots \union {0}}
  BY DEF Threads
<1> HIDE DEF shown
<1>4. ASSUME NEW i \in Comments
      PROVE  IF ~Live(i) \/ comment[i].hidden
             THEN /\ i \notin shown.roots \union shown.orphans
                  /\ \A r \in shown.roots : i \notin shown.under[r]
             ELSE IF Opener[i] \in shown.roots \ {i}
             THEN /\ {r \in shown.roots : i \in shown.under[r]} = {Opener[i]}
                  /\ i \notin shown.orphans
             ELSE (i \in shown.roots) # (i \in shown.orphans)
  <2>1. CASE ~Live(i) \/ comment[i].hidden
    BY <2>1, <1>3
  <2>2. CASE Live(i) /\ ~comment[i].hidden
    <3>1. i \in list /\ comment[i].parent \in Comments \union {0}
      BY <2>2 DEF TypeOK, Comment
    <3>2. Opener[i] = IF comment[i].parent = 0 THEN i ELSE comment[i].parent
      BY OpenerIs
    <3>3. 0 \notin Comments
      BY DEF Comments
    <3>4. CASE Opener[i] \in shown.roots \ {i}
      <4>1. comment[i].parent = Opener[i]
        BY <3>2, <3>4
      <4>2. {r \in shown.roots : i \in shown.under[r]} = {Opener[i]}
        BY <4>1, <3>1, <3>4, <1>3
      <4> QED
        BY <4>1, <4>2, <3>4, <2>2, <1>3
    <3>5. CASE Opener[i] \notin shown.roots \ {i}
      <4>1. i \in shown.roots <=> comment[i].parent = 0
        BY <3>1, <1>3
      <4>2. comment[i].parent # 0 => comment[i].parent \notin shown.roots
        <5> SUFFICES ASSUME comment[i].parent # 0,
                            comment[i].parent \in shown.roots
                     PROVE  FALSE
          OBVIOUS
        <5>1. Opener[i] = i
          BY <3>2, <3>5
        <5>2. comment[i].parent = i
          BY <5>1, <3>2
        <5> QED
          BY <5>2, <1>3
      <4> QED
        BY <4>1, <4>2, <3>1, <3>5, <2>2, <1>3
    <3> QED
      BY <3>4, <3>5, <2>2
  <2> QED
    BY <2>1, <2>2
<1> QED
  BY <1>1, <1>2, <1>4 DEF RepliesStayInThread

-----------------------------------------------------------------------------
(* Counters and hidden threads, where a step leaves them alone.            *)

LEMMA CountersKept ==
    ASSUME CountersMatchRows, TypeOK, rows' = rows, likes' = likes,
           item'.count = item.count, astray' = astray, opened' = opened,
           redeleted' = redeleted,
           \A i \in Comments : comment'[i].state = "live" <=> comment[i].state = "live"
    PROVE  CountersMatchRows'
<1>1. \A i : Live(i)' <=> Live(i)
  BY DEF Live
<1>2. {i \in Comments : Live(i)}' = {i \in Comments : Live(i)}
  BY <1>1
<1>3. \A m : Reactors(m)' = Reactors(m)
  BY DEF Reactors
<1>4. ReactionsCounted'
  BY <1>1, <1>3 DEF CountersMatchRows, ReactionsCounted
<1>5. CommentsCounted'
  BY <1>2 DEF CountersMatchRows, CommentsCounted
<1> QED
  BY <1>4, <1>5 DEF CountersMatchRows

LEMMA SilenceKept ==
    ASSUME HiddenThreadsAreSilent, TypeOK, comment' = comment,
           UNCHANGED <<spoken, missed>>,
           \A s \in Sessions : call'[s] = call[s] \/ call[s].op # "hide"
    PROVE  HiddenThreadsAreSilent'
BY DEF HiddenThreadsAreSilent, Replies, Live

\* A request that is new has no more views to bring back than the row has.
Fresh(c) == c.op = "save" => c.copy = item

LEMMA CopiesKept ==
    ASSUME TypeOK, CopiesAreOld, CountersMatchRows,
           opened' \in Nat, opened <= opened',
           \A s \in Sessions : call'[s] = call[s] \/ Fresh(call'[s])
    PROVE  CopiesAreOld'
<1> SUFFICES ASSUME NEW s \in Sessions, call'[s].op = "save"
             PROVE  call'[s].copy.count["views"] <= opened'
  BY DEF CopiesAreOld
<1>1. item.count["views"] \in Int /\ item.count["views"] <= opened
  BY DEF TypeOK, Item, Counters, CountersMatchRows
<1>2. opened \in Nat
  BY DEF TypeOK
<1>3. CASE call'[s] = call[s]
  <2>1. call[s].copy.count["views"] <= opened
    BY <1>3 DEF CopiesAreOld
  <2>2. call[s].copy.count["views"] \in Int
    BY <1>3, RequestIs DEF TypeOK, Saving, Item, Counters
  <2> QED
    BY <2>1, <2>2, <1>2, <1>3
<1>4. CASE Fresh(call'[s])
  BY <1>1, <1>2, <1>4 DEF Fresh
<1> QED
  BY <1>3, <1>4

-----------------------------------------------------------------------------
(* One lemma per kind of step.                                             *)

Passes == calls' \in Nat /\ calls <= calls' /\ calls' <= MaxCalls

\* A step that only changes requests.
LEMMA QuietSteps ==
    ASSUME IInv, UNCHANGED <<contentVars, commentVars, rows, likes>>, Passes,
           call' \in [Sessions -> Request], TogglesHold',
           \A s \in Sessions : call'[s] = call[s] \/
               /\ Knows(call'[s]) /\ Drafts(call'[s]) /\ Fresh(call'[s])
               /\ call[s].op # "hide"
    PROVE  IInv'
<1>1. TypeOK'
  BY DEF IInv, TypeOK, Passes, contentVars, commentVars
<1>2. UnbornIsUnknown'
  <2>1. \A i \in Comments : comment[i].state = "unborn" =>
            \A j \in Comments : i < j => comment[j].state = "unborn"
    BY DEF IInv, UnbornIsUnknown
  <2> QED
    BY <2>1, UnbornKept DEF IInv, commentVars, Born
<1>3. ThreadsAreFlat'
  BY <1>1, ThreadsKept DEF IInv, TypeOK, commentVars
<1>4. CountersMatchRows'
  BY CountersKept DEF IInv, contentVars, commentVars
<1>5. HiddenThreadsAreSilent'
  BY SilenceKept DEF IInv, commentVars
<1>6. CopiesAreOld'
  BY CopiesKept DEF IInv, TypeOK, contentVars
<1> QED
  BY <1>1, <1>2, <1>3, <1>4, <1>5, <1>6 DEF IInv

\* ... of one session, which meets no row yet or ends.
LEMMA QuietMoves ==
    ASSUME IInv, UNCHANGED <<contentVars, commentVars, rows, likes>>, Passes,
           NEW s \in Sessions, NEW c \in Request, Moves(s, c),
           c.op # "toggle" \/ c.stage = "insert",
           Knows(c), Drafts(c), Fresh(c), call[s].op # "hide"
    PROVE  IInv'
<1>1. call' \in [Sessions -> Request] /\ TogglesHold'
  BY MovesIs, TogglesKept DEF IInv
<1>2. \A t \in Sessions : call'[t] = call[t] \/ (t = s /\ call'[t] = c)
  BY MovesIs DEF IInv
<1> QED
  BY <1>1, <1>2, QuietSteps

LEMMA IdleFits ==
    /\ Idle \in Request /\ Idle.op = "idle"
    /\ Knows(Idle) /\ Drafts(Idle) /\ Fresh(Idle)
BY DEF Request, Idle, Knows, Drafts, Fresh

LEMMA Starts ==
    ASSUME IInv, NEW s \in Sessions, NEW c, Start(s, c)
    PROVE  Moves(s, c) /\ Passes /\ call[s].op = "idle"
BY EngagementAssumption DEF Start, Moves, Passes, IInv, TypeOK

LEMMA Finishes ==
    ASSUME IInv, NEW s \in Sessions, Finish(s)
    PROVE  Moves(s, Idle) /\ Passes /\ calls' = calls
BY EngagementAssumption DEF Finish, Moves, Passes, IInv, TypeOK

LEMMA MarksAre ==
    /\ Like \in Marks /\ Favorite \in Marks
    /\ \A i \in Likeable : CommentLike(i) \in Marks
    /\ \A i \in Comments : CommentLike(i) # Like /\ CommentLike(i) # Favorite
    /\ \A i, j : CommentLike(i) = CommentLike(j) => i = j
    /\ Like # Favorite /\ Like[1] = "like" /\ Favorite[1] = "favorite"
    /\ \A m \in Marks : m = Like \/ m = Favorite \/
          \E i \in Likeable : m = CommentLike(i) /\ m[2] = i
BY DEF Marks, Like, Favorite, CommentLike

LEMMA ToggleStep ==
    ASSUME IInv, NEW s \in Sessions, NEW u \in Users, NEW m \in Marks,
           Toggle(s, u, m),
           \A i \in Comments : m = CommentLike(i) => Born(i)
    PROVE  IInv'
<1> DEFINE c == [op |-> "toggle", stage |-> "insert", user |-> u, mark |-> m]
<1>1. c \in Inserting /\ c.op = "toggle" /\ c.stage = "insert" /\ c.mark = m
  BY DEF Inserting
<1>2. Start(s, c) /\ UNCHANGED <<contentVars, commentVars, rows, likes>>
  BY DEF Toggle
<1> HIDE DEF c
<1>3. c \in Request
  BY <1>1 DEF Request
<1>4. Knows(c) /\ Drafts(c) /\ Fresh(c)
  BY <1>1 DEF Knows, Drafts, Fresh
<1>5. Moves(s, c) /\ Passes /\ call[s].op = "idle"
  BY <1>2, Starts
<1> QED
  BY <1>1, <1>2, <1>3, <1>4, <1>5, QuietMoves

LEMMA ItemToggles ==
    ASSUME IInv, NEW s \in Sessions, NEW k, NEW m \in {Like, Favorite},
           ToggleItem(s, k, m)
    PROVE  IInv'
BY ToggleStep, MarksAre DEF ToggleItem

LEMMA CommentToggles ==
    ASSUME IInv, NEW s \in Sessions, NEW i \in Likeable, ToggleComment(s, i)
    PROVE  IInv'
<1>1. Born(i)
  BY DEF ToggleComment, Live, Born
<1>2. \A j \in Comments : CommentLike(i) = CommentLike(j) => Born(j)
  BY <1>1, MarksAre
<1>3. CommentLike(i) \in Marks
  BY MarksAre
<1> QED
  BY <1>2, <1>3, ToggleStep DEF ToggleComment

LEMMA MeetStep ==
    ASSUME IInv, NEW s \in Sessions, InsertRow(s) \/ DeleteRow(s)
    PROVE  IInv'
<1>1. /\ call' \in [Sessions -> Request] /\ TogglesHold' /\ Passes
      /\ UNCHANGED <<contentVars, commentVars, rows, likes>>
      /\ call[s].op = "toggle"
  <2>1. calls' = calls /\ Passes
    BY EngagementAssumption
    DEF InsertRow, DeleteRow, Go, Passes, IInv, TypeOK
  <2> QED
    BY <2>1, InsertFits, DeleteFits DEF InsertRow, DeleteRow, IInv
<1>2. call[s] \in Inserting \union Inserted
  BY <1>1, RequestIs DEF IInv, TypeOK
<1>3. call'[s].op = "toggle" /\ call'[s].mark = call[s].mark
  <2>1. CASE InsertRow(s)
    BY <2>1 DEF InsertRow, IInv, TypeOK
  <2>2. CASE DeleteRow(s)
    <3>1. call[s] \in Inserted
      BY <2>2, RequestIs DEF DeleteRow, IInv, TypeOK
    <3> QED
      BY <2>2, <3>1 DEF DeleteRow, Go, IInv, TypeOK, Inserted
  <2> QED
    BY <2>1, <2>2
<1>4. \A t \in Sessions : t # s => call'[t] = call[t]
  BY DEF InsertRow, DeleteRow, Go, IInv, TypeOK
<1>5. Knows(call'[s]) /\ Drafts(call'[s]) /\ Fresh(call'[s])
  BY <1>1, <1>3 DEF Knows, Drafts, Fresh, IInv, UnbornIsUnknown
<1>6. \A t \in Sessions : call'[t] = call[t] \/
          /\ Knows(call'[t]) /\ Drafts(call'[t]) /\ Fresh(call'[t])
          /\ call[t].op # "hide"
  BY <1>1, <1>4, <1>5
<1> QED
  BY <1>1, <1>6, QuietSteps

\* A request that ends without having written anything.
LEMMA EndStep ==
    ASSUME IInv, NEW s \in Sessions, Finish(s), call[s].op # "hide",
           UNCHANGED <<contentVars, commentVars, rows, likes>>
    PROVE  IInv'
BY Finishes, IdleFits, QuietMoves

\* What Finish does to the rest of the invariant.
LEMMA FinishKnows ==
    ASSUME IInv, NEW s \in Sessions, Finish(s)
    PROVE  /\ call' \in [Sessions -> Request]
           /\ call'[s] = Idle
           /\ calls' = calls
           /\ \A t \in Sessions : call'[t] = call[t] \/
                 (t = s /\ Knows(call'[t]) /\ Drafts(call'[t])
                        /\ Fresh(call'[t]))
BY Finishes, IdleFits, MovesIs DEF IInv

LEMMA BumpIs ==
    ASSUME NEW row \in Item, NEW c \in Counters, NEW n \in Int
    PROVE  /\ Bump(row, c, n) \in Item
           /\ Bump(row, c, n).count[c] = row.count[c] + n
           /\ \A d \in Counters : d # c =>
                 Bump(row, c, n).count[d] = row.count[d]
BY DEF Bump, Item

\* An update of a counter of rows counts, or is remembered not to have.
LEMMA IncrCountIs ==
    ASSUME TypeOK, NEW c \in RowCounters, NEW n \in Int, IncrCount(c, n)
    PROVE  /\ item' \in Item /\ astray' \subseteq RowCounters
           /\ astray \subseteq astray'
           /\ c \notin astray' => item'.count[c] = item.count[c] + n
           /\ \A d \in Counters : d # c => item'.count[d] = item.count[d]
<1>1. item \in Item /\ c \in Counters
  BY DEF TypeOK, Counters
<1>2. CASE item.live
  <2>1. item' = Bump(item, c, n) /\ astray' = astray
    BY <1>2 DEF IncrCount
  <2> QED
    BY <2>1, <1>1, BumpIs DEF TypeOK
<1>3. CASE ~item.live
  BY <1>1, <1>3 DEF IncrCount, TypeOK
<1> QED
  BY <1>2, <1>3

LEMMA CommitToggleStep ==
    ASSUME IInv, NEW s \in Sessions, CommitToggle(s)
    PROVE  IInv'
<1> DEFINE m == call[s].mark
           delta == IF call[s].on THEN 1 ELSE -1
<1>1. /\ Toggles(s, "flipped") /\ Finish(s)
      /\ rows' = IF call[s].on THEN rows \union {Key(s)} ELSE rows \ {Key(s)}
      /\ UNCHANGED <<kind, opened, commentVars>>
  BY DEF CommitToggle, Toggles
<1>2. IF m \in {Like, Favorite}
      THEN IncrCount(m[1], delta) /\ likes' = likes
      ELSE /\ likes' = [likes EXCEPT ![m[2]] =
                           IF Live(m[2]) THEN @ + delta ELSE @]
           /\ UNCHANGED <<item, astray>>
  BY DEF CommitToggle
<1>3. call[s] \in Inserted /\ m \in Marks /\ call[s].user \in Users
  BY <1>1, RequestIs, InsertedIs DEF IInv, TypeOK, Toggles
<1>4. /\ call' \in [Sessions -> Request] /\ calls' = calls
      /\ \A t \in Sessions : call'[t] = call[t] \/
            (t = s /\ Knows(call'[t]) /\ Drafts(call'[t]) /\ Fresh(call'[t]))
  BY <1>1, FinishKnows
<1>5. delta \in Int
  OBVIOUS
<1>6. ASSUME NEW n \in Marks
      PROVE  /\ IsFiniteSet(Reactors(n)')
             /\ n # m => Reactors(n)' = Reactors(n)
             /\ n = m => Cardinality(Reactors(n)')
                            = Cardinality(Reactors(n)) + delta
  BY <1>1, ReactorsMove DEF IInv
<1> HIDE DEF delta
<1>7. m \in {Like, Favorite} =>
          /\ item' \in Item /\ astray' \subseteq RowCounters
          /\ astray \subseteq astray'
          /\ m[1] \notin astray' => item'.count[m[1]] = item.count[m[1]] + delta
          /\ \A d \in Counters : d # m[1] => item'.count[d] = item.count[d]
  <2>1. TypeOK
    BY DEF IInv
  <2>2. m \in {Like, Favorite} => m[1] \in RowCounters
    BY MarksAre DEF RowCounters
  <2> HIDE DEF m
  <2> QED
    BY <2>1, <2>2, <1>2, <1>5, IncrCountIs
<1>8. \A i \in Comments : m # CommentLike(i) => likes'[i] = likes[i]
  BY <1>2, <1>3, MarksAre DEF IInv, TypeOK
<1>9. \A i \in Comments : m = CommentLike(i) =>
          likes'[i] = IF Live(i) THEN likes[i] + delta ELSE likes[i]
  BY <1>2, <1>3, MarksAre DEF IInv, TypeOK, CommentLike
<1>10. TypeOK'
  <2>1. item' \in Item /\ astray' \subseteq RowCounters
    BY <1>2, <1>7 DEF IInv, TypeOK
  <2>2. rows' \subseteq Users \X Marks
    BY <1>1, <1>3 DEF IInv, TypeOK, Key
  <2>3. likes' \in [Comments -> Int]
    BY <1>2, <1>5 DEF IInv, TypeOK
  <2> QED
    BY <1>1, <1>4, <2>1, <2>2, <2>3 DEF IInv, TypeOK, commentVars
<1>11. TogglesHold'
  BY CommitFits DEF IInv
<1>12. UnbornIsUnknown'
  <2>1. \A i \in Comments : comment[i].state = "unborn" => m # CommentLike(i)
    BY <1>1 DEF IInv, UnbornIsUnknown, Born, Toggles
  <2>2. \A k \in rows' : k \in rows \/
            \A i \in Comments : k[2] = CommentLike(i) => Born(i)
    BY <1>1, <2>1 DEF Key, Born
  <2>3. \A i \in Comments : comment[i].state = "unborn" =>
            /\ likes'[i] = likes[i]
            /\ \A j \in Comments : i < j => comment[j].state = "unborn"
    BY <2>1, <1>8 DEF IInv, UnbornIsUnknown
  <2> QED
    BY <1>1, <1>4, <2>2, <2>3, UnbornKept DEF IInv, commentVars, Born
<1>13. ThreadsAreFlat'
  BY <1>1, <1>4, ThreadsKept DEF IInv, TypeOK, commentVars
<1>14. ReactionsCounted'
  <2>1. ASSUME NEW n \in {Like, Favorite}, n[1] \notin astray'
        PROVE  item'.count[n[1]] = Cardinality(Reactors(n)')
    <3>1. n \in Marks /\ n[1] \in Counters
      BY MarksAre DEF Counters, RowCounters
    <3>2. item.count[n[1]] = Cardinality(Reactors(n))
      BY <2>1, <1>2, <1>7 DEF IInv, CountersMatchRows, ReactionsCounted
    <3>3. n # m => item'.count[n[1]] = item.count[n[1]]
      BY <3>1, <1>2, <1>7, MarksAre
    <3> QED
      BY <3>1, <3>2, <3>3, <2>1, <1>6, <1>7
  <2>2. ASSUME NEW i \in Likeable, Live(i)
        PROVE  likes'[i] = Cardinality(Reactors(CommentLike(i))')
    <3>1. CommentLike(i) \in Marks /\ i \in Comments
      BY <2>2, MarksAre DEF Live
    <3>2. likes[i] = Cardinality(Reactors(CommentLike(i)))
      BY <2>2 DEF IInv, CountersMatchRows, ReactionsCounted
    <3> QED
      BY <3>1, <3>2, <2>2, <1>6, <1>8, <1>9
  <2> QED
    BY <2>1, <2>2, <1>1 DEF ReactionsCounted, Live, commentVars, Reactors
<1>15. /\ item'.count["comments"] = item.count["comments"]
       /\ item'.count["views"] = item.count["views"]
       /\ astray \subseteq astray'
  BY <1>2, <1>7, MarksAre DEF Counters, RowCounters
<1>16. CountersMatchRows'
  <2>1. CommentsCounted'
    BY <1>1, <1>15
    DEF IInv, CountersMatchRows, CommentsCounted, Live, commentVars
  <2> QED
    BY <2>1, <1>1, <1>14, <1>15 DEF IInv, CountersMatchRows
<1>17. HiddenThreadsAreSilent'
  BY <1>1, <1>4, SilenceKept DEF IInv, commentVars, Toggles
<1>18. CopiesAreOld'
  BY <1>1, <1>4, CopiesKept DEF IInv, TypeOK
<1> QED
  BY <1>10, <1>11, <1>12, <1>13, <1>16, <1>17, <1>18 DEF IInv

\* A draft answers a comment that is there, whatever becomes of it.
LEMMA PostStep ==
    ASSUME IInv, NEW s \in Sessions, Post(s)
    PROVE  IInv'
<1>1. PICK u \in Users, p \in {0} \union {i \in Comments : Live(i)} :
          Start(s, [op |-> "post", stage |-> "draft",
                    row |-> [state |-> "live", author |-> u, hidden |-> FALSE,
                             parent |-> RootOf(p), replyTo |-> p]])
  BY DEF Post
<1> DEFINE row == [state |-> "live", author |-> u, hidden |-> FALSE,
                   parent |-> RootOf(p), replyTo |-> p]
           c == [op |-> "post", stage |-> "draft", row |-> row]
<1>2. p \in Comments \union {0} /\ RootOf(p) \in Comments \union {0}
  BY DEF RootOf, IInv, TypeOK, Comment
<1>3. row \in Comment
  BY <1>2 DEF Comment
<1>4. Fits(row, Nobody)
  BY DEF Fits, Born, Live
<1>5. c \in Request
  BY <1>3 DEF Request, Writing
<1>6. Knows(c) /\ Drafts(c) /\ Fresh(c) /\ c.op = "post"
  BY <1>4 DEF Knows, Drafts, Fresh
<1>7. Moves(s, c) /\ Passes /\ call[s].op = "idle"
  BY <1>1, Starts
<1>8. UNCHANGED <<contentVars, commentVars, rows, likes>>
  BY DEF Post
<1> HIDE DEF c
<1> QED
  BY <1>5, <1>6, <1>7, <1>8, QuietMoves

LEMMA DropStep ==
    ASSUME IInv, NEW s \in Sessions, NEW i \in Comments, Drop(s, i)
    PROVE  IInv'
<1> DEFINE c == [op |-> "drop", id |-> i]
<1>1. c \in Request /\ c.op = "drop"
  BY DEF Request, Aiming
<1>2. Knows(c) /\ Drafts(c) /\ Fresh(c)
  BY DEF Knows, Drafts, Fresh, Drop, Live, Born
<1>3. Moves(s, c) /\ Passes /\ call[s].op = "idle"
  BY Starts DEF Drop
<1> HIDE DEF c
<1> QED
  BY <1>1, <1>2, <1>3, QuietMoves DEF Drop

LEMMA ReadStep ==
    ASSUME IInv, NEW s \in Sessions, ReadItem(s)
    PROVE  IInv'
<1> DEFINE c == [op |-> "save", copy |-> item]
<1>1. c \in Request /\ c.op = "save"
  BY DEF Request, Saving, IInv, TypeOK
<1>2. Knows(c) /\ Drafts(c) /\ Fresh(c)
  BY DEF Knows, Drafts, Fresh
<1>3. Moves(s, c) /\ Passes /\ call[s].op = "idle"
  BY Starts DEF ReadItem
<1> HIDE DEF c
<1> QED
  BY <1>1, <1>2, <1>3, QuietMoves DEF ReadItem

LEMMA DetailStep ==
    ASSUME IInv, NEW s \in Sessions, Detail(s)
    PROVE  IInv'
<1> DEFINE c == [op |-> "view"]
<1>1. c \in Request /\ c.op = "view"
  BY DEF Request, Viewing
<1>2. Knows(c) /\ Drafts(c) /\ Fresh(c)
  BY DEF Knows, Drafts, Fresh
<1>3. Moves(s, c) /\ Passes /\ call[s].op = "idle"
  BY Starts DEF Detail
<1> HIDE DEF c
<1> QED
  BY <1>1, <1>2, <1>3, QuietMoves DEF Detail

\* The draft has the recipient its row asks for, or none.
LEMMA DraftStep ==
    ASSUME IInv, NEW s \in Sessions, CommentDraft(s) \/ ResourceCommentDraft(s)
    PROVE  IInv'
<1>1. call[s] \in Writing /\ call[s].op = "post" /\ call[s].stage = "draft"
  BY RequestIs DEF CommentDraft, ResourceCommentDraft, Drafting, IInv, TypeOK
<1> DEFINE row == call[s].row
<1>2. PICK to \in {row.author, Recipient(row)} : DraftTo(s, to)
  BY DEF CommentDraft, ResourceCommentDraft
<1> DEFINE n == IF to = row.author THEN Nobody ELSE to
           c == [op |-> "post", stage |-> "commit", row |-> row, notify |-> n]
<1>3. row \in Comment
  BY <1>1, PostsAre
<1>4. Fits(row, Nobody) /\ row.state = "live" /\ ~row.hidden
  BY <1>1 DEF IInv, ThreadsAreFlat
<1>5. to \in {row.author,
              IF row.replyTo = 0 THEN Owner ELSE comment[row.replyTo].author}
  BY <1>2 DEF Recipient
<1>6. Fits(row, n)
  BY <1>4, <1>5 DEF Fits
<1>7. n \in Users \union {Nobody}
  BY <1>3, <1>5, EngagementAssumption DEF Comment, IInv, TypeOK
<1>8. c \in Posting
  BY <1>3, <1>7 DEF Posting
<1>9. c.op = "post" /\ Knows(c) /\ Drafts(c) /\ Fresh(c)
  BY <1>4, <1>6 DEF Knows, Drafts, Fresh
<1>10. /\ Moves(s, c) /\ Passes
       /\ UNCHANGED <<contentVars, commentVars, rows, likes>>
  BY <1>2, EngagementAssumption DEF DraftTo, Moves, Passes, IInv, TypeOK
<1> HIDE DEF c
<1>11. c \in Request
  BY <1>8 DEF Request
<1> QED
  BY <1>1, <1>9, <1>10, <1>11, QuietMoves

\* The next comment gets the next id; nothing has referred to it before.
LEMMA CommitPostStep ==
    ASSUME IInv, NEW s \in Sessions, CommitPost(s)
    PROVE  IInv'
<1> DEFINE c == call[s].row
           to == call[s].notify
<1>1. PICK i \in Comments :
          /\ comment[i].state = "unborn"
          /\ \A j \in Comments : j < i => comment[j].state # "unborn"
          /\ comment' = [comment EXCEPT ![i] = c]
          /\ told' = [told EXCEPT ![i] = to]
          /\ spoken' = IF c.parent # 0 /\ comment[c.parent].hidden
                       THEN spoken \union {i} ELSE spoken
  BY DEF CommitPost
<1>2. /\ IncrCount("comments", 1) /\ Finish(s)
      /\ UNCHANGED <<kind, opened, redeleted, missed, rows, likes>>
      /\ call[s].op = "post" /\ call[s].stage = "commit"
  BY DEF CommitPost
<1>3. call[s] \in Posting /\ c \in Comment /\ to \in Users \union {Nobody}
  BY <1>2, RequestIs, PostsAre DEF IInv, TypeOK
<1>4. Fits(c, to) /\ c.state = "live" /\ ~c.hidden
  BY <1>2 DEF IInv, ThreadsAreFlat
<1>5. /\ call' \in [Sessions -> Request] /\ calls' = calls /\ call'[s] = Idle
      /\ \A t \in Sessions : call'[t] = call[t] \/
            (t = s /\ Knows(call'[t]) /\ Drafts(call'[t]) /\ Fresh(call'[t]))
  BY <1>2, FinishKnows
<1>6. /\ item' \in Item /\ astray' \subseteq RowCounters
      /\ astray \subseteq astray'
      /\ "comments" \notin astray' =>
            item'.count["comments"] = item.count["comments"] + 1
      /\ \A d \in Counters : d # "comments" => item'.count[d] = item.count[d]
  <2>1. TypeOK /\ "comments" \in RowCounters /\ 1 \in Int
    BY DEF IInv, RowCounters
  <2> QED
    BY <2>1, <1>2, IncrCountIs
<1>7. comment' \in [Comments -> Comment]
      /\ comment'[i] = c /\ told'[i] = to
      /\ \A j \in Comments : j # i => comment'[j] = comment[j] /\ told'[j] = told[j]
  BY <1>1, <1>3 DEF IInv, TypeOK
<1> HIDE DEF c, to
<1>8. TypeOK'
  BY <1>1, <1>2, <1>3, <1>5, <1>6, <1>7 DEF IInv, TypeOK
<1>9. TogglesHold'
  BY <1>2, Finishes, TogglesKept, IdleFits DEF IInv
<1>10. UnbornIsUnknown'
  <2>1. \A j \in Comments : comment'[j].state = "unborn" =>
            /\ comment[j].state = "unborn" /\ comment'[j] = comment[j]
            /\ \A k \in Comments : j < k => comment'[k].state = "unborn"
    <3> SUFFICES ASSUME NEW j \in Comments, comment'[j].state = "unborn"
                 PROVE  /\ comment[j].state = "unborn" /\ comment'[j] = comment[j]
                        /\ \A k \in Comments : j < k => comment'[k].state = "unborn"
      OBVIOUS
    <3>1. j # i /\ comment'[j] = comment[j] /\ comment[j].state = "unborn"
      BY <1>4, <1>7
    <3>2. ~(j < i)
      BY <1>1, <3>1
    <3>3. \A k \in Comments : j < k => comment[k].state = "unborn" /\ k # i
      BY <3>1, <3>2 DEF IInv, UnbornIsUnknown
    <3> QED
      BY <3>1, <3>3, <1>7
  <2>2. \A j \in Comments : Born(j) => comment'[j].state # "unborn"
    BY <1>4, <1>7 DEF Born
  <2> QED
    BY <2>1, <2>2, <1>2, <1>5, UnbornKept DEF IInv
<1>11. \A j : Born(j) => j # i /\ Born(j)' /\ comment'[j] = comment[j]
  BY <1>1, <1>4, <1>7 DEF Born
<1>12. \A j \in Comments : Born(j)' => j = i \/ Born(j)
  BY <1>7 DEF Born
<1>13. \A d \in Comment : \A u : Fits(d, u) =>
        /\ d.replyTo = 0 \/ Born(d.replyTo)'
        /\ d.parent = IF d.replyTo # 0 /\ comment'[d.replyTo].parent # 0
                      THEN comment'[d.replyTo].parent ELSE d.replyTo
        /\ u \in {Nobody} \union
              ({IF d.replyTo = 0 THEN Owner ELSE comment'[d.replyTo].author}
                  \ {d.author})
  BY <1>11 DEF Fits, RootOf
<1>14. ThreadsAreFlat'
  <2>1. ASSUME NEW j \in Comments, Born(j)'
        PROVE  /\ Fits(comment[j], told[j])'
               /\ comment'[j].replyTo < j
               /\ comment'[j].parent # 0 =>
                     /\ Born(comment[j].parent)'
                     /\ comment'[comment'[j].parent].parent = 0
    <3>1. CASE j = i
      <4>1. Fits(comment[j], told[j])'
        BY <3>1, <1>3, <1>4, <1>7, <1>13 DEF Fits, RootOf
      <4>2. c.replyTo = 0 \/ (c.replyTo \in Comments /\ c.replyTo < i)
        <5>1. c.replyTo = 0 \/ Born(c.replyTo)
          BY <1>4 DEF Fits
        <5>2. ASSUME Born(c.replyTo), c.replyTo > i
              PROVE  FALSE
          BY <5>2, <1>1 DEF IInv, UnbornIsUnknown, Born
        <5> QED
          BY <5>1, <5>2, <1>11 DEF Born, Comments
      <4>3. ASSUME c.parent # 0
            PROVE  Born(c.parent) /\ comment[c.parent].parent = 0
        <5>1. c.parent = RootOf(c.replyTo) /\ Born(c.replyTo)
          BY <4>3, <1>4 DEF Fits, RootOf
        <5>2. comment[c.replyTo].parent # 0 =>
                  /\ Born(comment[c.replyTo].parent)
                  /\ comment[comment[c.replyTo].parent].parent = 0
          BY <5>1 DEF IInv, ThreadsAreFlat, Born
        <5> QED
          BY <4>3, <5>1, <5>2 DEF RootOf
      <4> QED
        BY <4>1, <4>2, <4>3, <3>1, <1>7, <1>11 DEF Comments
    <3>2. CASE j # i
      <4>1. Born(j) /\ comment'[j] = comment[j] /\ told'[j] = told[j]
        BY <3>2, <2>1, <1>7, <1>12
      <4>2. /\ Fits(comment[j], told[j]) /\ comment[j].replyTo < j
            /\ comment[j].parent # 0 =>
                  /\ Born(comment[j].parent)
                  /\ comment[comment[j].parent].parent = 0
        BY <4>1 DEF IInv, ThreadsAreFlat
      <4>3. comment[j] \in Comment
        BY DEF IInv, TypeOK
      <4>4. Fits(comment[j], told[j])'
        BY <4>1, <4>2, <4>3, <1>13 DEF Fits, RootOf
      <4> QED
        BY <4>1, <4>2, <4>4, <1>11 DEF Born
    <3> QED
      BY <3>1, <3>2
  <2>2. ASSUME NEW t \in Sessions, call'[t].op = "post"
        PROVE  /\ Fits(call[t].row, IF call[t].stage = "draft" THEN Nobody
                                                      ELSE call[t].notify)'
               /\ call'[t].row.state = "live"
               /\ ~call'[t].row.hidden
    <3>1. call'[t] = call[t]
      BY <2>2, <1>5 DEF Idle
    <3>2. call[t].row \in Comment
      BY <3>1, <2>2, RequestIs, PostsAre DEF IInv, TypeOK
    <3>3. /\ Fits(call[t].row, IF call[t].stage = "draft" THEN Nobody
                                                 ELSE call[t].notify)
          /\ call[t].row.state = "live"
          /\ ~call[t].row.hidden
      BY <3>1, <2>2 DEF IInv, ThreadsAreFlat
    <3> QED
      BY <3>1, <3>2, <3>3, <1>13 DEF Fits, RootOf
  <2> QED
    BY <2>1, <2>2 DEF ThreadsAreFlat
<1>15. {j \in Comments : Live(j)}' = {j \in Comments : Live(j)} \union {i}
  BY <1>4, <1>7 DEF Live
<1>16. CommentsCounted'
  <2> DEFINE L == {j \in Comments : Live(j)}
  <2>1. IsFiniteSet(L)
    <3>1. IsFiniteSet(Comments)
      BY FS_Interval, EngagementAssumption DEF Comments
    <3>2. L \in SUBSET Comments
      OBVIOUS
    <3> QED
      BY ONLY <3>1, <3>2, FS_Subset
  <2>2. i \notin L
    BY <1>1 DEF Live
  <2> HIDE DEF L
  <2>3. Cardinality(L \union {i}) = Cardinality(L) + 1
    BY ONLY <2>1, <2>2, FS_AddElement
  <2>4. Cardinality(L) \in Nat
    BY ONLY <2>1, FS_CardinalityType
  <2>5. item.count["comments"] \in Int /\ redeleted \in Nat
    BY DEF IInv, TypeOK, Item, Counters, RowCounters
  <2>6. "comments" \notin astray =>
            item.count["comments"] + redeleted = Cardinality(L)
    BY DEF IInv, CountersMatchRows, CommentsCounted, L
  <2>7. "comments" \notin astray' =>
            item'.count["comments"] + redeleted = Cardinality(L \union {i})
    BY <2>3, <2>4, <2>5, <2>6, <1>6
  <2>8. {j \in Comments : Live(j)}' = L \union {i}
    BY <1>15 DEF L
  <2> QED
    BY <2>7, <2>8, <1>2 DEF CommentsCounted
<1>17. ReactionsCounted'
  <2>1. \A m : Reactors(m)' = Reactors(m)
    BY <1>2 DEF Reactors
  <2>2. likes[i] = 0 /\ (i \in Likeable => Reactors(CommentLike(i)) = {})
    BY <1>1 DEF IInv, UnbornIsUnknown, Reactors
  <2>3. ASSUME NEW j \in Likeable, Live(j)'
        PROVE  likes'[j] = Cardinality(Reactors(CommentLike(j)))
    <3>1. CASE j = i
      BY <3>1, <2>2, <1>2, FS_EmptySet
    <3>2. CASE j # i
      <4>1. Live(j)
        BY <3>2, <2>3, <1>7 DEF Live
      <4> QED
        BY <4>1, <1>2 DEF IInv, CountersMatchRows, ReactionsCounted
    <3> QED
      BY <3>1, <3>2
  <2>4. \A m \in {Like, Favorite} : m[1] \notin astray' =>
            item'.count[m[1]] = Cardinality(Reactors(m))
    <3>1. \A m \in {Like, Favorite} : m[1] \in Counters /\ m[1] # "comments"
      BY MarksAre DEF Counters, RowCounters
    <3> QED
      BY <3>1, <1>6 DEF IInv, CountersMatchRows, ReactionsCounted
  <2> QED
    BY <2>1, <2>3, <2>4, <1>2 DEF ReactionsCounted
<1>18. CountersMatchRows'
  BY <1>2, <1>6, <1>16, <1>17 DEF IInv, CountersMatchRows, Counters
<1>19. HiddenThreadsAreSilent'
  <2>1. ASSUME NEW r \in Comments, NEW j \in Comments, Live(j)',
               comment'[j].parent = r, comment'[r].hidden, ~comment'[j].hidden
        PROVE  j \in spoken' \union missed' \/
                  \E t \in Sessions : call'[t].op = "hide" /\ call'[t].id = r
    <3>1. Born(r)
      <4>1. CASE j = i
        <5>1. c.parent = r /\ r # 0
          BY <4>1, <2>1, <1>7 DEF Comments
        <5>2. Born(c.replyTo) /\ c.parent = RootOf(c.replyTo)
          BY <5>1, <1>4 DEF Fits, RootOf
        <5> QED
          BY <5>1, <5>2 DEF IInv, ThreadsAreFlat, RootOf, Born
      <4>2. CASE j # i
        <5>1. Born(j) /\ comment[j].parent = r /\ r # 0
          BY <4>2, <2>1, <1>7 DEF Live, Born, Comments
        <5> QED
          BY <5>1 DEF IInv, ThreadsAreFlat, Born
      <4> QED
        BY <4>1, <4>2
    <3>2. comment'[r] = comment[r]
      BY <3>1, <1>11
    <3>3. CASE j = i
      BY <3>2, <3>3, <2>1, <1>1, <1>7 DEF Comments
    <3>4. CASE j # i
      <4>1. Live(j) /\ comment[j] = comment'[j]
        BY <3>4, <2>1, <1>7 DEF Live
      <4>2. j \in spoken \union missed \/
                \E t \in Sessions : call[t].op = "hide" /\ call[t].id = r
        BY <4>1, <3>2, <2>1 DEF IInv, HiddenThreadsAreSilent, Replies
      <4>3. \A t \in Sessions : call[t].op = "hide" => call'[t] = call[t]
        BY <1>2, <1>5
      <4> QED
        BY <4>2, <4>3, <1>1, <1>2
    <3> QED
      BY <3>3, <3>4
  <2> QED
    BY <2>1 DEF HiddenThreadsAreSilent, Replies
<1>20. CopiesAreOld'
  BY <1>2, <1>5, CopiesKept DEF IInv, TypeOK
<1> QED
  BY <1>8, <1>9, <1>10, <1>14, <1>18, <1>19, <1>20 DEF IInv

\* One comment less, if it was not deleted already.
LEMMA CommitDropStep ==
    ASSUME IInv, NEW s \in Sessions, CommitDrop(s)
    PROVE  IInv'
<1> DEFINE i == call[s].id
           L == {j \in Comments : Live(j)}
<1>1. /\ redeleted' = redeleted + (IF Live(i) THEN 0 ELSE 1)
      /\ comment' = [comment EXCEPT ![i] = Deleted(i)]
      /\ IncrCount("comments", -1) /\ Finish(s)
      /\ UNCHANGED <<kind, opened, told, spoken, missed, rows, likes>>
      /\ call[s].op = "drop"
  BY DEF CommitDrop
<1>2. i \in Comments /\ Born(i)
  BY <1>1 DEF IInv, UnbornIsUnknown, Born
<1> HIDE DEF i
<1>3. comment[i] \in Comment
  BY <1>2 DEF IInv, TypeOK
<1>4. /\ Deleted(i) \in Comment /\ Deleted(i).state = "deleted"
      /\ Deleted(i).author = comment[i].author
      /\ Deleted(i).parent = comment[i].parent
      /\ Deleted(i).replyTo = comment[i].replyTo
      /\ Deleted(i).hidden = comment[i].hidden
  BY <1>3 DEF Deleted, Comment
<1>5. /\ comment' \in [Comments -> Comment]
      /\ comment'[i] = Deleted(i)
      /\ \A j \in Comments : j # i => comment'[j] = comment[j]
  BY <1>1, <1>2, <1>4 DEF IInv, TypeOK
<1>6. /\ call' \in [Sessions -> Request] /\ calls' = calls /\ call'[s] = Idle
      /\ \A t \in Sessions : call'[t] = call[t] \/
            (t = s /\ Knows(call'[t]) /\ Drafts(call'[t]) /\ Fresh(call'[t]))
  BY <1>1, FinishKnows
<1>7. /\ item' \in Item /\ astray' \subseteq RowCounters
      /\ astray \subseteq astray'
      /\ "comments" \notin astray' =>
            item'.count["comments"] = item.count["comments"] + -1
      /\ \A d \in Counters : d # "comments" => item'.count[d] = item.count[d]
  <2>1. TypeOK /\ "comments" \in RowCounters /\ -1 \in Int
    BY DEF IInv, RowCounters
  <2> QED
    BY <2>1, <1>1, IncrCountIs
<1>8. TypeOK'
  <2>1. redeleted' \in Nat
    BY <1>1 DEF IInv, TypeOK
  <2> QED
    BY <2>1, <1>1, <1>5, <1>6, <1>7 DEF IInv, TypeOK
<1>9. TogglesHold'
  BY <1>1, Finishes, TogglesKept, IdleFits DEF IInv
<1>10. \A j \in Comments :
           /\ comment'[j].author = comment[j].author
           /\ comment'[j].parent = comment[j].parent
           /\ comment'[j].replyTo = comment[j].replyTo
           /\ comment'[j].hidden = comment[j].hidden
           /\ comment'[j].state = "unborn" <=> comment[j].state = "unborn"
           /\ comment'[j].state = "unborn" => comment'[j] = comment[j]
           /\ comment'[j].state = "live" <=> comment[j].state = "live" /\ j # i
  BY <1>2, <1>4, <1>5 DEF Born
<1>11. UnbornIsUnknown'
  <2>1. \A j \in Comments : comment'[j].state = "unborn" =>
            \A k \in Comments : j < k => comment'[k].state = "unborn"
    BY <1>10 DEF IInv, UnbornIsUnknown
  <2> QED
    BY <2>1, <1>1, <1>6, <1>10, UnbornKept DEF IInv, Born
<1>12. ThreadsAreFlat'
  BY <1>1, <1>5, <1>6, <1>10, ThreadsKept DEF IInv
<1>13. \A j : Live(j)' <=> Live(j) /\ j # i
  BY <1>10 DEF Live
<1>14. CommentsCounted'
  <2>1. IsFiniteSet(L)
    <3>1. IsFiniteSet(Comments)
      BY FS_Interval, EngagementAssumption DEF Comments
    <3>2. L \in SUBSET Comments
      OBVIOUS
    <3> QED
      BY ONLY <3>1, <3>2, FS_Subset
  <2>2. {j \in Comments : Live(j)}' = L \ {i}
    BY <1>13
  <2>3. Live(i) <=> i \in L
    BY <1>2
  <2> HIDE DEF L
  <2>4. i \in L => Cardinality(L \ {i}) = Cardinality(L) - 1
    BY ONLY <2>1, FS_RemoveElement
  <2>5. Cardinality(L) \in Nat
    BY ONLY <2>1, FS_CardinalityType
  <2>6. "comments" \notin astray =>
            item.count["comments"] + redeleted = Cardinality(L)
    BY DEF IInv, CountersMatchRows, CommentsCounted, L
  <2>7. i \notin L => L \ {i} = L
    OBVIOUS
  <2>8. item.count["comments"] \in Int /\ redeleted \in Nat
    BY DEF IInv, TypeOK, Item, Counters, RowCounters
  <2>9. "comments" \notin astray' =>
            item'.count["comments"] + redeleted' = Cardinality(L \ {i})
    <3> SUFFICES ASSUME "comments" \notin astray'
                 PROVE  item'.count["comments"] + redeleted'
                            = Cardinality(L \ {i})
      OBVIOUS
    <3>1. /\ item.count["comments"] + redeleted = Cardinality(L)
          /\ item'.count["comments"] = item.count["comments"] + -1
      BY <2>6, <1>7
    <3>2. CASE i \in L
      <4>1. redeleted' = redeleted
        BY <3>2, <2>3, <2>8, <1>1
      <4> QED
        BY ONLY <4>1, <3>1, <3>2, <2>4, <2>5, <2>8
    <3>3. CASE i \notin L
      <4>1. redeleted' = redeleted + 1
        BY <3>3, <2>3, <1>1
      <4>2. item'.count["comments"] + redeleted' = Cardinality(L)
        BY ONLY <4>1, <3>1, <2>5, <2>8
      <4>3. L \ {i} = L
        BY <3>3, <2>7
      <4> QED
        BY <4>2, <4>3, Zenon
    <3> QED
      BY <3>2, <3>3
  <2> SUFFICES ASSUME "comments" \notin astray'
               PROVE  item'.count["comments"] + redeleted'
                          = Cardinality({j \in Comments : Live(j)}')
    BY DEF CommentsCounted
  <2> QED
    BY <2>2, <2>9
<1>15. ReactionsCounted'
  <2>1. \A m : Reactors(m)' = Reactors(m)
    BY <1>1 DEF Reactors
  <2>2. \A j \in Likeable : Live(j)' =>
            likes'[j] = Cardinality(Reactors(CommentLike(j)))
    BY <1>1, <1>13 DEF IInv, CountersMatchRows, ReactionsCounted
  <2>3. \A m \in {Like, Favorite} : m[1] \notin astray' =>
            item'.count[m[1]] = Cardinality(Reactors(m))
    <3>1. \A m \in {Like, Favorite} : m[1] \in Counters /\ m[1] # "comments"
      BY MarksAre DEF Counters, RowCounters
    <3> QED
      BY <3>1, <1>7 DEF IInv, CountersMatchRows, ReactionsCounted
  <2> QED
    BY <2>1, <2>2, <2>3, <1>1 DEF ReactionsCounted
<1>16. CountersMatchRows'
  BY <1>1, <1>7, <1>14, <1>15 DEF IInv, CountersMatchRows, Counters
<1>17. HiddenThreadsAreSilent'
  <2>1. \A t \in Sessions : call[t].op = "hide" => call'[t] = call[t]
    BY <1>1, <1>6
  <2> QED
    BY <2>1, <1>1, <1>10, <1>13 DEF IInv, HiddenThreadsAreSilent, Replies
<1>18. CopiesAreOld'
  BY <1>1, <1>6, CopiesKept DEF IInv, TypeOK
<1> QED
  BY <1>8, <1>9, <1>11, <1>12, <1>16, <1>17, <1>18 DEF IInv

\* Showing or hiding touches one column of live rows.
LEMMA ShownIs ==
    ASSUME TypeOK, NEW ids, NEW h \in BOOLEAN, comment' = Shown(ids, h)
    PROVE  /\ comment' \in [Comments -> Comment]
           /\ \A j \in Comments :
                  /\ comment'[j].author = comment[j].author
                  /\ comment'[j].parent = comment[j].parent
                  /\ comment'[j].replyTo = comment[j].replyTo
                  /\ comment'[j].state = comment[j].state
                  /\ comment'[j].state = "unborn" => comment'[j] = comment[j]
                  /\ comment'[j].hidden = IF j \in ids /\ Live(j)
                                          THEN h ELSE comment[j].hidden
<1>1. \A j \in Comments : comment[j] \in Comment
  BY DEF TypeOK
<1>2. \A j \in Comments : LET d == [comment[j] EXCEPT !.hidden = h] IN
          /\ d \in Comment /\ d.author = comment[j].author
          /\ d.parent = comment[j].parent /\ d.replyTo = comment[j].replyTo
          /\ d.state = comment[j].state /\ d.hidden = h
  BY <1>1 DEF Comment
<1>3. \A j \in Comments : comment'[j] = IF j \in ids /\ Live(j)
                        THEN [comment[j] EXCEPT !.hidden = h] ELSE comment[j]
  BY DEF Shown
<1> QED
  BY <1>1, <1>2, <1>3 DEF Shown, Live

\* So it leaves everything but HiddenThreadsAreSilent as it was.
LEMMA ShownKeeps ==
    ASSUME IInv, NEW ids, NEW h \in BOOLEAN, comment' = Shown(ids, h),
           UNCHANGED <<contentVars, told, redeleted, rows, likes>>,
           spoken' \subseteq Comments, missed' \subseteq Comments, Passes,
           call' \in [Sessions -> Request], TogglesHold',
           \A s \in Sessions : call'[s] = call[s] \/
               (Knows(call'[s]) /\ Drafts(call'[s]) /\ Fresh(call'[s]))
    PROVE  /\ TypeOK'
           /\ UnbornIsUnknown'
           /\ ThreadsAreFlat'
           /\ CountersMatchRows'
           /\ CopiesAreOld'
<1>1. TypeOK'
  BY ShownIs DEF IInv, TypeOK, Passes, contentVars
<1>2. UnbornIsUnknown'
  <2>1. \A i \in Comments : comment[i].state = "unborn" =>
            \A j \in Comments : i < j => comment[j].state = "unborn"
    BY DEF IInv, UnbornIsUnknown
  <2> QED
    BY <2>1, ShownIs, UnbornKept DEF IInv, Born
<1>3. ThreadsAreFlat'
  BY ShownIs, ThreadsKept DEF IInv
<1>4. CountersMatchRows'
  BY ShownIs, CountersKept DEF IInv, contentVars
<1>5. CopiesAreOld'
  BY CopiesKept DEF IInv, TypeOK, contentVars
<1> QED
  BY <1>1, <1>2, <1>3, <1>4, <1>5

LEMMA HideStep ==
    ASSUME IInv, NEW s \in Sessions, Hide(s)
    PROVE  IInv'
<1>1. PICK i \in Comments :
          /\ Born(i) /\ Start(s, [op |-> "hide", id |-> i])
          /\ comment' = Shown({i}, TRUE)
  BY DEF Hide, Born
<1> DEFINE c == [op |-> "hide", id |-> i]
<1>2. UNCHANGED <<contentVars, told, redeleted, spoken, missed, rows, likes>>
  BY DEF Hide
<1>3. c \in Request /\ c.op = "hide" /\ c.id = i
  BY DEF Request, Aiming
<1>4. Knows(c) /\ Drafts(c) /\ Fresh(c)
  BY <1>1, <1>3 DEF Knows, Drafts, Fresh
<1>5. Moves(s, c) /\ Passes /\ call[s].op = "idle"
  BY <1>1, Starts
<1> HIDE DEF c
<1>6. /\ call' \in [Sessions -> Request] /\ call'[s] = c
      /\ \A t \in Sessions : t # s => call'[t] = call[t]
  BY <1>3, <1>5, MovesIs DEF IInv
<1>7. TogglesHold'
  BY <1>2, <1>3, <1>5, TogglesKept DEF IInv
<1>8. TypeOK' /\ UnbornIsUnknown' /\ ThreadsAreFlat' /\ CountersMatchRows'
      /\ CopiesAreOld'
  <2>1. \A t \in Sessions : call'[t] = call[t] \/
            (Knows(call'[t]) /\ Drafts(call'[t]) /\ Fresh(call'[t]))
    BY <1>4, <1>6
  <2>2. spoken' \subseteq Comments /\ missed' \subseteq Comments
    BY <1>2 DEF IInv, TypeOK
  <2> QED
    BY <1>1, <1>2, <1>5, <1>6, <1>7, <2>1, <2>2, ShownKeeps
<1>9. HiddenThreadsAreSilent'
  <2> SUFFICES ASSUME NEW r \in Comments, NEW j \in Comments, Live(j)',
                      comment'[j].parent = r, comment'[r].hidden,
                      ~comment'[j].hidden
               PROVE  j \in spoken' \union missed' \/
                      \E t \in Sessions : call'[t].op = "hide" /\ call'[t].id = r
    BY DEF HiddenThreadsAreSilent, Replies
  <2>1. CASE r = i
    BY <2>1, <1>3, <1>6
  <2>2. CASE r # i
    <3>1. Live(j) /\ comment[j].parent = r /\ comment[r].hidden /\ ~comment[j].hidden
      <4>1. \A k \in Comments :
                /\ comment'[k].parent = comment[k].parent
                /\ comment'[k].state = comment[k].state
                /\ comment'[k].hidden = IF k \in {i} /\ Live(k)
                                        THEN TRUE ELSE comment[k].hidden
        BY <1>1, ShownIs DEF IInv
      <4> QED
        BY <2>2, <4>1 DEF Live
    <3>2. j \in spoken \union missed \/
              \E t \in Sessions : call[t].op = "hide" /\ call[t].id = r
      BY <3>1 DEF IInv, HiddenThreadsAreSilent, Replies
    <3> QED
      BY <3>2, <1>2, <1>5, <1>6
  <2> QED
    BY <2>1, <2>2
<1> QED
  BY <1>7, <1>8, <1>9 DEF IInv

\* The replies are hidden with their root, or are known to have been missed.
LEMMA HideRepliesStep ==
    ASSUME IInv, NEW s \in Sessions, HideReplies(s)
    PROVE  IInv'
<1> DEFINE i == call[s].id
           ids == Replies(i)
<1>1. /\ call[s].op = "hide" /\ Finish(s)
      /\ UNCHANGED <<contentVars, told, redeleted, rows, likes>>
      /\ \/ comment' = Shown(ids, TRUE) /\ spoken' = spoken \ ids
                                       /\ missed' = missed \ ids
         \/ comment' = comment /\ spoken' = spoken
                               /\ missed' = missed \union ids
  BY DEF HideReplies
<1>2. /\ call' \in [Sessions -> Request] /\ calls' = calls /\ call'[s] = Idle
      /\ \A t \in Sessions : call'[t] = call[t] \/
            (t = s /\ Knows(call'[t]) /\ Drafts(call'[t]) /\ Fresh(call'[t]))
  BY <1>1, FinishKnows
<1>3. Passes
  BY <1>1, Finishes
<1>4. TogglesHold'
  BY <1>1, Finishes, TogglesKept, IdleFits DEF IInv
<1>5. ids \subseteq Comments
  BY DEF Replies
<1>6. comment' = Shown(ids, TRUE) \/ comment' = Shown({}, TRUE)
  <2>1. comment = Shown({}, TRUE)
    BY DEF Shown, IInv, TypeOK
  <2> QED
    BY <2>1, <1>1
<1>7. TypeOK' /\ UnbornIsUnknown' /\ ThreadsAreFlat' /\ CountersMatchRows'
      /\ CopiesAreOld'
  <2>1. spoken' \subseteq Comments /\ missed' \subseteq Comments
    BY <1>1, <1>5 DEF IInv, TypeOK
  <2> HIDE DEF ids
  <2>2. PICK hidden : comment' = Shown(hidden, TRUE)
    BY <1>6
  <2> QED
    BY <1>1, <1>2, <1>3, <1>4, <2>1, <2>2, ShownKeeps
<1>8. HiddenThreadsAreSilent'
  <2> SUFFICES ASSUME NEW r \in Comments, NEW j \in Comments, Live(j)',
                      comment'[j].parent = r, comment'[r].hidden,
                      ~comment'[j].hidden
               PROVE  j \in spoken' \union missed' \/
                      \E t \in Sessions : call'[t].op = "hide" /\ call'[t].id = r
    BY DEF HiddenThreadsAreSilent, Replies
  <2>1. Live(j) /\ comment[j].parent = r /\ ~comment[j].hidden
    BY <1>6, ShownIs DEF IInv, Live
  <2>2. CASE r = i
    <3>1. j \in ids
      BY <2>1, <2>2 DEF Replies
    <3>2. comment' # Shown(ids, TRUE)
      BY <3>1, <2>1, ShownIs DEF IInv
    <3> QED
      BY <3>1, <3>2, <1>1
  <2>3. CASE r # i
    <3>1. j \notin ids
      BY <2>1, <2>3 DEF Replies
    <3>2. CASE comment[r].hidden
      <4>1. j \in spoken \union missed \/
                \E t \in Sessions : call[t].op = "hide" /\ call[t].id = r
        BY <3>2, <2>1 DEF IInv, HiddenThreadsAreSilent, Replies
      <4>2. \A t \in Sessions :
                call[t].op = "hide" /\ call[t].id = r => call'[t] = call[t]
        BY <2>3, <1>2
      <4> QED
        BY <4>1, <4>2, <3>1, <1>1
    <3>3. CASE ~comment[r].hidden
      \* A root that is hidden now is a reply of i: but roots have no parent.
      <4>1. r \in ids
        BY <3>3, <1>1, ShownIs DEF IInv
      <4>2. comment[r].parent = i /\ i # 0 /\ Born(j)
        <5>1. comment[r].parent = i /\ Born(j)
          BY <4>1, <2>1 DEF Replies, Live, Born
        <5>2. i \in Comments
          BY <1>1 DEF IInv, UnbornIsUnknown, Born
        <5> QED
          BY <5>1, <5>2 DEF Comments
      <4>3. comment[j].parent # 0 /\ comment[comment[j].parent].parent # 0
        BY <4>2, <2>1 DEF Comments
      <4> QED
        BY <4>2, <4>3 DEF IInv, ThreadsAreFlat
    <3> QED
      BY <3>2, <3>3
  <2> QED
    BY <2>2, <2>3
<1> QED
  BY <1>4, <1>7, <1>8 DEF IInv

LEMMA UnhideStep ==
    ASSUME IInv, Unhide
    PROVE  IInv'
<1>1. PICK i \in Comments :
          /\ comment' = Shown({i}, FALSE)
          /\ spoken' = IF comment[i].parent # 0 /\ comment[comment[i].parent].hidden
                       THEN spoken \union {i} ELSE spoken
  BY DEF Unhide
<1>2. /\ UNCHANGED <<contentVars, told, redeleted, missed, rows, likes, call>>
      /\ Passes
  BY EngagementAssumption DEF Unhide, Passes, IInv, TypeOK
<1>3. TogglesHold'
  BY <1>2 DEF IInv, TogglesHold, Toggles, Key, Rivals, Reactors
<1>4. TypeOK' /\ UnbornIsUnknown' /\ ThreadsAreFlat' /\ CountersMatchRows'
      /\ CopiesAreOld'
  <2>1. /\ spoken' \subseteq Comments /\ missed' \subseteq Comments
        /\ call' \in [Sessions -> Request]
    BY <1>1, <1>2 DEF IInv, TypeOK
  <2> QED
    BY <1>1, <1>2, <1>3, <2>1, ShownKeeps
<1>5. HiddenThreadsAreSilent'
  <2> SUFFICES ASSUME NEW r \in Comments, NEW j \in Comments, Live(j)',
                      comment'[j].parent = r, comment'[r].hidden,
                      ~comment'[j].hidden
               PROVE  j \in spoken' \union missed' \/
                      \E t \in Sessions : call'[t].op = "hide" /\ call'[t].id = r
    BY DEF HiddenThreadsAreSilent, Replies
  <2>1. Live(j) /\ comment[j].parent = r /\ comment[r].hidden
    BY <1>1, ShownIs DEF IInv, Live
  <2>2. CASE comment[j].hidden
    <3>1. j = i
      <4>1. comment'[j].hidden = IF j \in {i} /\ Live(j)
                                 THEN FALSE ELSE comment[j].hidden
        BY <1>1, ShownIs DEF IInv
      <4> QED
        BY <2>2, <4>1
    <3> QED
      BY <3>1, <2>1, <1>1 DEF Comments
  <2>3. CASE ~comment[j].hidden
    BY <2>1, <2>3, <1>1, <1>2 DEF IInv, HiddenThreadsAreSilent, Replies
  <2> QED
    BY <2>2, <2>3
<1> QED
  BY <1>3, <1>4, <1>5 DEF IInv

\* A save that sets a counter back is remembered.
LEMMA SaveStep ==
    ASSUME IInv, NEW s \in Sessions, SaveItem(s)
    PROVE  IInv'
<1> DEFINE copy == call[s].copy
<1>1. PICK p \in BOOLEAN : item' = [copy EXCEPT !.published = p]
  BY DEF SaveItem
<1>2. /\ astray' = astray \union
            {c \in RowCounters : copy.count[c] # item.count[c]}
      /\ Finish(s) /\ UNCHANGED <<kind, opened, commentVars, rows, likes>>
      /\ call[s].op = "save"
  BY DEF SaveItem
<1>3. copy \in Item
  BY <1>2, RequestIs DEF IInv, TypeOK, Saving
<1>4. item' \in Item /\ item'.count = copy.count
  BY <1>1, <1>3 DEF Item
<1> HIDE DEF copy
<1>5. /\ call' \in [Sessions -> Request] /\ calls' = calls /\ call'[s] = Idle
      /\ \A t \in Sessions : call'[t] = call[t] \/
            (t = s /\ Knows(call'[t]) /\ Drafts(call'[t]) /\ Fresh(call'[t]))
  BY <1>2, FinishKnows
<1>6. \A c \in RowCounters : c \notin astray' =>
          c \notin astray /\ item'.count[c] = item.count[c]
  BY <1>2, <1>4
<1>7. TypeOK'
  BY <1>2, <1>4, <1>5 DEF IInv, TypeOK, commentVars
<1>8. TogglesHold'
  BY <1>2, Finishes, TogglesKept, IdleFits DEF IInv
<1>9. UnbornIsUnknown'
  <2>1. \A i \in Comments : comment[i].state = "unborn" =>
            \A j \in Comments : i < j => comment[j].state = "unborn"
    BY DEF IInv, UnbornIsUnknown
  <2> QED
    BY <2>1, <1>2, <1>5, UnbornKept DEF IInv, commentVars, Born
<1>10. ThreadsAreFlat'
  BY <1>2, <1>5, ThreadsKept DEF IInv, TypeOK, commentVars
<1>11. ReactionsCounted'
  <2>1. \A m : Reactors(m)' = Reactors(m)
    BY <1>2 DEF Reactors
  <2>2. \A m \in {Like, Favorite} : m[1] \in RowCounters
    BY MarksAre DEF RowCounters
  <2> QED
    BY <2>1, <2>2, <1>2, <1>6
    DEF IInv, CountersMatchRows, ReactionsCounted, Live, commentVars
<1>12. CountersMatchRows'
  <2>1. CommentsCounted'
    BY <1>2, <1>6
    DEF IInv, CountersMatchRows, CommentsCounted, Live, commentVars, RowCounters
  <2>2. copy.count["views"] <= opened
    BY <1>2 DEF IInv, CopiesAreOld, copy
  <2> QED
    BY <2>1, <2>2, <1>2, <1>4, <1>11 DEF CountersMatchRows
<1>13. HiddenThreadsAreSilent'
  BY <1>2, <1>5, SilenceKept DEF IInv, commentVars
<1>14. CopiesAreOld'
  BY <1>2, <1>5, CopiesKept DEF IInv, TypeOK
<1> QED
  BY <1>7, <1>8, <1>9, <1>10, <1>12, <1>13, <1>14 DEF IInv

\* A row that keeps its counters, or that has some more views, and requests
\* that end or stay.
LEMMA ItemSteps ==
    ASSUME IInv, UNCHANGED <<kind, astray, commentVars, rows, likes>>, Passes,
           item' \in Item, opened' \in Nat, opened <= opened',
           \A c \in RowCounters : item'.count[c] = item.count[c],
           item'.count["views"] <= opened',
           call' \in [Sessions -> Request], TogglesHold',
           \A t \in Sessions : call'[t] = call[t] \/
               /\ Knows(call'[t]) /\ Drafts(call'[t]) /\ Fresh(call'[t])
               /\ call[t].op # "hide"
    PROVE  IInv'
<1>1. TypeOK'
  BY DEF IInv, TypeOK, commentVars, Passes
<1>2. UnbornIsUnknown'
  <2>1. \A i \in Comments : comment[i].state = "unborn" =>
            \A j \in Comments : i < j => comment[j].state = "unborn"
    BY DEF IInv, UnbornIsUnknown
  <2> QED
    BY <2>1, UnbornKept DEF IInv, commentVars, Born
<1>3. ThreadsAreFlat'
  BY <1>1, ThreadsKept DEF IInv, TypeOK, commentVars
<1>4. CountersMatchRows'
  <2>1. \A m : Reactors(m)' = Reactors(m)
    BY DEF Reactors
  <2>2. \A m \in {Like, Favorite} : item'.count[m[1]] = item.count[m[1]]
    BY MarksAre DEF RowCounters
  <2>3. item'.count["comments"] = item.count["comments"]
    BY DEF RowCounters
  <2>4. ReactionsCounted'
    BY <2>1, <2>2
    DEF IInv, CountersMatchRows, ReactionsCounted, Live, commentVars
  <2>5. CommentsCounted'
    BY <2>3 DEF IInv, CountersMatchRows, CommentsCounted, Live, commentVars
  <2> QED
    BY <2>4, <2>5 DEF CountersMatchRows
<1>5. HiddenThreadsAreSilent'
  BY SilenceKept DEF IInv, commentVars
<1>6. CopiesAreOld'
  BY CopiesKept DEF IInv
<1> QED
  BY <1>1, <1>2, <1>3, <1>4, <1>5, <1>6 DEF IInv

\* One view more at most, for one reading more.
LEMMA IncrViewsStep ==
    ASSUME IInv, NEW s \in Sessions, IncrViews(s)
    PROVE  IInv'
<1>1. /\ item' = item \/ item' = Bump(item, "views", 1)
      /\ opened' = opened + 1 /\ Finish(s) /\ call[s].op = "view"
      /\ UNCHANGED <<kind, astray, commentVars, rows, likes>>
  BY DEF IncrViews
<1>2. /\ item \in Item /\ opened \in Nat /\ item.count["views"] \in Int
      /\ item.count["views"] <= opened
  BY DEF IInv, TypeOK, CountersMatchRows, Item, Counters
<1>3. /\ item' \in Item
      /\ \A c \in RowCounters : item'.count[c] = item.count[c]
      /\ item'.count["views"] <= opened'
  <2>1. CASE item' = item
    BY <2>1, <1>1, <1>2
  <2>2. CASE item' = Bump(item, "views", 1)
    <3>1. "views" \in Counters /\ 1 \in Int
      BY DEF Counters
    <3>2. /\ item' \in Item /\ item'.count["views"] = item.count["views"] + 1
          /\ \A c \in Counters : c # "views" => item'.count[c] = item.count[c]
      BY ONLY <3>1, <2>2, <1>2, BumpIs
    <3>3. \A c \in RowCounters : c \in Counters /\ c # "views"
      BY DEF RowCounters, Counters
    <3> QED
      BY <3>2, <3>3, <1>1, <1>2
  <2> QED
    BY <2>1, <2>2, <1>1
<1>4. /\ call' \in [Sessions -> Request]
      /\ \A t \in Sessions : call'[t] = call[t] \/
            (t = s /\ Knows(call'[t]) /\ Drafts(call'[t]) /\ Fresh(call'[t]))
  BY <1>1, FinishKnows
<1>5. TogglesHold' /\ Passes
  BY <1>1, Finishes, TogglesKept, IdleFits DEF IInv
<1> QED
  BY <1>1, <1>2, <1>3, <1>4, <1>5, ItemSteps

\* The row of a deleted item keeps its counters.
LEMMA DeleteItemStep ==
    ASSUME IInv, DeleteItem
    PROVE  IInv'
<1>1. /\ item' = [item EXCEPT !.live = FALSE]
      /\ UNCHANGED <<kind, opened, astray, commentVars, rows, likes, call>>
      /\ Passes
  BY EngagementAssumption DEF DeleteItem, Passes, IInv, TypeOK
<1>2. item' \in Item /\ item'.count = item.count
  BY <1>1 DEF IInv, TypeOK, Item
<1>3. TogglesHold'
  BY <1>1 DEF IInv, TogglesHold, Toggles, Key, Rivals, Reactors
<1>4. opened \in Nat /\ item.count["views"] <= opened
  BY DEF IInv, TypeOK, CountersMatchRows
<1> QED
  BY <1>1, <1>2, <1>3, <1>4, ItemSteps DEF IInv, TypeOK

LEMMA FailStep ==
    ASSUME IInv, NEW s \in Sessions, Fail(s) \/ Deadlock(s)
    PROVE  IInv'
BY EndStep DEF Fail, Deadlock

-----------------------------------------------------------------------------
(* The theorems.                                                           *)

LEMMA InitIInv == Init => IInv
<1> SUFFICES ASSUME Init PROVE IInv
  OBVIOUS
<1>1. \A i \in Comments : ~Live(i) /\ ~Born(i) /\ comment[i] = NoRow
  BY DEF Init, Live, Born, NoRow
<1>2. \A m : Reactors(m) = {}
  BY DEF Init, Reactors
<1>3. \A s \in Sessions : call[s] = Idle /\ call[s].op = "idle"
  BY DEF Init, Idle
<1>4. NoRow \in Comment
  BY EngagementAssumption DEF NoRow, Comment
<1>5. TypeOK
  <2>1. item \in Item /\ opened \in Nat /\ calls \in 0..MaxCalls
    BY EngagementAssumption DEF Init, Item, Zero
  <2>2. call \in [Sessions -> Request]
    BY IdleFits DEF Init
  <2>3. comment \in [Comments -> Comment]
    BY <1>4 DEF Init
  <2>4. kind \in Kinds /\ rows \subseteq Users \X Marks
    BY DEF Init
  <2>5. likes \in [Comments -> Int] /\ told \in [Comments -> Users \union {Nobody}]
    BY DEF Init
  <2>6. /\ astray \subseteq RowCounters /\ redeleted \in Nat
        /\ spoken \subseteq Comments /\ missed \subseteq Comments
    BY DEF Init
  <2> QED
    BY <2>1, <2>2, <2>3, <2>4, <2>5, <2>6 DEF TypeOK
<1>6. TogglesHold
  BY <1>2, <1>3, FS_EmptySet DEF TogglesHold, Toggles
<1>7. UnbornIsUnknown
  BY <1>1, <1>3 DEF UnbornIsUnknown, Init, Born
<1>8. ThreadsAreFlat
  BY <1>1, <1>3 DEF ThreadsAreFlat
<1>9. {i \in Comments : Live(i)} = {}
  BY <1>1
<1>10. CountersMatchRows
  <2>1. \A m \in {Like, Favorite} : m[1] \in Counters
    BY MarksAre DEF Counters, RowCounters
  <2>2. item.count = [c \in Counters |-> 0] /\ opened = 0 /\ redeleted = 0
    BY DEF Init, Zero
  <2>3. Cardinality({}) = 0
    BY FS_EmptySet
  <2>4. ReactionsCounted
    BY <2>1, <2>2, <2>3, <1>1, <1>2 DEF ReactionsCounted, Live
  <2>5. CommentsCounted
    BY <2>2, <2>3, <1>9 DEF CommentsCounted, Counters, RowCounters
  <2> QED
    BY <2>2, <2>4, <2>5 DEF CountersMatchRows, Counters
<1>11. HiddenThreadsAreSilent
  BY <1>1 DEF HiddenThreadsAreSilent, Replies
<1>12. CopiesAreOld
  BY <1>3 DEF CopiesAreOld
<1> QED
  BY <1>5, <1>6, <1>7, <1>8, <1>10, <1>11, <1>12 DEF IInv

LEMMA NextIInv ==
    ASSUME IInv, [Next]_vars
    PROVE  IInv'
<1>1. ASSUME NEW s \in Sessions, Begin(s)
      PROVE  IInv'
  <2>1. CASE \E k, m : m \in {Like, Favorite} /\ ToggleItem(s, k, m)
    BY <2>1, ItemToggles
  <2>2. CASE \E i \in Likeable : ToggleComment(s, i)
    BY <2>2, CommentToggles
  <2>3. CASE Post(s)
    BY <2>3, PostStep
  <2>4. CASE \E i \in Comments : Drop(s, i)
    BY <2>4, DropStep
  <2>5. CASE Hide(s)
    BY <2>5, HideStep
  <2>6. CASE ReadItem(s)
    BY <2>6, ReadStep
  <2>7. CASE Detail(s)
    BY <2>7, DetailStep
  <2> QED
    BY <1>1, <2>1, <2>2, <2>3, <2>4, <2>5, <2>6, <2>7
    DEF Begin, ArticleToggleLike, ArticleToggleFavorite, SkillToggleLike,
        SkillToggleFavorite, McpToggleLike, McpToggleFavorite,
        CommentToggleLike, ResourceCommentToggleLike, CommentCreate,
        ResourceCommentCreate, CommentDelete, ResourceCommentDelete,
        HideComment, HideResourceComment, ArticleDetail, SkillDetail,
        McpServerDetail
<1>2. ASSUME NEW s \in Sessions, React(s)
      PROVE  IInv'
  BY <1>2, MeetStep, FailStep, CommitToggleStep DEF React
<1>3. ASSUME NEW s \in Sessions, Discuss(s)
      PROVE  IInv'
  BY <1>3, DraftStep, CommitPostStep, CommitDropStep, HideRepliesStep
  DEF Discuss
<1>4. ASSUME NEW s \in Sessions, IncrViews(s) \/ SaveItem(s) \/ Fail(s)
      PROVE  IInv'
  BY <1>4, IncrViewsStep, SaveStep, FailStep
<1>5. CASE Unhide
  BY <1>5, UnhideStep
<1>6. CASE DeleteItem
  BY <1>6, DeleteItemStep
<1>7. CASE UNCHANGED vars
  <2>1. \A s \in Sessions : call'[s] = call[s]
    BY <1>7 DEF vars
  <2>2. TogglesHold' /\ Passes /\ call' \in [Sessions -> Request]
    BY <1>7, EngagementAssumption
    DEF vars, IInv, TypeOK, Passes, TogglesHold, Toggles, Key, Rivals, Reactors
  <2> QED
    BY <2>1, <2>2, <1>7, QuietSteps DEF vars
<1> QED
  BY <1>1, <1>2, <1>3, <1>4, <1>5, <1>6, <1>7
  DEF Next, UnhideComment, UnhideResourceComment

\* The invariant that carries the three properties: toggles hold their key,
\* nothing knows of a comment before it has its id, threads are two deep, and
\* no save holds more views than there have been readings.
THEOREM EngagementInvariant == Spec => []IInv
BY InitIInv, NextIInv, PTL DEF Spec

\* Whatever toggles, comments, deletions of comments and of the item do to each
\* other, a counter of likes or favourites is the number of its rows and that
\* of comments falls short of the comments by the deletions that came second,
\* but for a counter set back by a full-row save, or to be updated when the
\* item was deleted; the views never exceed the readings.
THEOREM CountersAreTrue == Spec => []CountersMatchRows
<1>1. IInv => CountersMatchRows
  BY DEF IInv
<1> QED
  BY <1>1, EngagementInvariant, PTL

\* However deep the answers go, a reply hangs under the comment that opened
\* its conversation, its notification goes to the author answered, and a list
\* shows every visible comment in one place.
THEOREM ThreadsHold == Spec => []RepliesStayInThread
<1>1. IInv => RepliesStayInThread
  BY RepliesStay DEF IInv
<1> QED
  BY <1>1, EngagementInvariant, PTL

\* A reply that can be read under a hidden comment was posted or shown since,
\* or the second statement of the hiding, which is separate and may fail
\* unnoticed, failed to hide it, or that statement is still to come.
THEOREM HiddenIsSilent == Spec => []HiddenThreadsAreSilent
<1>1. IInv => HiddenThreadsAreSilent
  BY DEF IInv
<1> QED
  BY <1>1, EngagementInvariant, PTL
=============================================================================
