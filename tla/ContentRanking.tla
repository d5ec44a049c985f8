--------------------------- MODULE ContentRanking ---------------------------
(***************************************************************************)
(* The hot list of the day (internal/service/content_ranking.go): a Redis  *)
(* sorted set per content type and day of UTC+8, the callers that add to   *)
(* it, and the pages read from it.                                         *)
(*                                                                         *)
(* Every Redis call is a step of its own and may fail, and the service     *)
(* never tries one again: the caller's transaction is committed by then.   *)
(* An increment that fails may have been made all the same, its answer     *)
(* lost, and the Redis client may send it again by itself.  A page reads   *)
(* the set, then the titles of the content that is published and not       *)
(* hidden, then prunes what has none; the first page is cached in memory.  *)
(***************************************************************************)
EXTENDS Integers, FiniteSets

CONSTANTS
    Sessions,  \* requests in progress
    Kinds,     \* which of "article", "skill", "mcp_server" the list may be of
    Items,     \* contents of that kind
    Viewers,   \* members who are not their author
    LastDay,   \* days are 1..LastDay
    FirstScores, \* the scores an item may have earned before the first step
    MaxCalls,  \* bound on the requests that change something
    NoOne      \* not a session

ASSUME RankingAssumption == /\ LastDay \in Nat \ {0}
                            /\ FirstScores \subseteq Nat
                            /\ MaxCalls \in Nat
                            /\ NoOne \notin Sessions

Days == 1..LastDay
ViewKeys == Days \X Viewers \X Items

VARIABLES
    kind,      \* what the list is of
    day,       \* the day it is
    status,    \* status[i]: "public", "hidden" (but published) or "private"
    members,   \* members[d]: the members of day d's set
    score,     \* score[d][i]: the score of member i, 0 of another
    expiring,  \* days whose set has a TTL
    viewed,    \* the view keys there are: <<day, viewer, item>>
    cache,     \* the first page: its items, and whether it has not expired
    flight,    \* the session whose refresh the others wait for, or NoOne
    call,      \* call[s]: the request session s is serving
    calls,     \* requests that change something, so far
    counted,   \* history: view keys whose view was added to a set
    doubled,   \* history: those that were added again
    resent,    \* history: view keys whose increment was sent again
    stuck,     \* history: <<day, item>> whose last increment got no answer,
               \*          or whose ZREM failed
    unsteady   \* history: items that were not public at some time of a
               \*          request still in progress when they were again

zsetVars == <<members, score, expiring>>
viewVars == <<viewed, counted, doubled, resent>>
vars == <<kind, day, status, zsetVars, viewVars, cache, flight, call, calls,
          stuck, unsteady>>

Stale == [items |-> {}, fresh |-> FALSE]
Public == {i \in Items : status[i] = "public"}

\* What a request knows: an AddScore before its ZINCRBY, before that is sent
\* again, and after it, a view to be recorded, a removal, a list (`hidden`:
\* members on its page to be pruned).
Idle == [op |-> "idle"]
Adding == [op : {"score"}, stage : {"incr"}, item : Items, delta : Int,
           view : SUBSET ViewKeys]
Repeating == [op : {"score"}, stage : {"repeat"}, day : Days, item : Items,
              delta : Int, view : SUBSET ViewKeys]
Settling == [op : {"score"}, stage : {"zrem", "ttl"}, day : Days, item : Items]
Viewing == [op : {"view"}, stage : {"setnx"}, item : Items, by : Viewers]
Withdrawing == [op : {"remove"}, stage : {"zrem"}, item : Items]
Listing == [op : {"list"}, stage : {"again", "wait", "read", "hydrate", "prune"},
            top : BOOLEAN, page : SUBSET Items, hidden : SUBSET Items]
Request == {Idle} \union Adding \union Repeating \union Settling
           \union Viewing \union Withdrawing \union Listing

TypeOK ==
    /\ kind \in Kinds
    /\ day \in Days
    /\ status \in [Items -> {"public", "hidden", "private"}]
    /\ members \in [Days -> SUBSET Items]
    /\ score \in [Days -> [Items -> Int]]
    /\ expiring \subseteq Days
    /\ viewed \subseteq ViewKeys
    /\ cache \in [items : SUBSET Items, fresh : BOOLEAN]
    /\ flight \in Sessions \union {NoOne}
    /\ calls \in 0..MaxCalls
    /\ call \in [Sessions -> Request]
    /\ counted \subseteq ViewKeys
    /\ doubled \subseteq counted
    /\ resent \subseteq ViewKeys
    /\ stuck \subseteq Days \X Items
    /\ unsteady \subseteq Items

Init ==
    /\ kind \in Kinds
    /\ day = 1
    /\ status = [i \in Items |-> "public"]
    /\ \E earned \in [Items -> FirstScores] :
          /\ score = [d \in Days |-> IF d = 1 THEN earned
                                     ELSE [i \in Items |-> 0]]
          /\ members = [d \in Days |-> {i \in Items : score[d][i] > 0}]
          /\ expiring = {d \in Days : members[d] # {}}
    /\ viewed = {}
    /\ cache = Stale
    /\ flight = NoOne
    /\ call = [s \in Sessions |-> Idle]
    /\ calls = 0
    /\ counted = {}
    /\ doubled = {}
    /\ resent = {}
    /\ stuck = {}
    /\ unsteady = {}

Start(s, c) ==
    /\ call[s].op = "idle"
    /\ calls < MaxCalls
    /\ calls' = calls + 1
    /\ call' = [call EXCEPT ![s] = c]

Step(s, c) == call' = [call EXCEPT ![s] = c] /\ calls' = calls
Finish(s) == Step(s, Idle)

At(s, op, stage) == call[s].op = op /\ call[s].stage = stage

-----------------------------------------------------------------------------
(* AddScore: ZINCRBY on the key of the day, then ZREM or TTL and EXPIRE.    *)

Scoring(i, delta, view) ==
    [op |-> "score", stage |-> "incr", item |-> i, delta |-> delta,
     view |-> view]

AddScore(s, i, delta) ==
    /\ Start(s, Scoring(i, delta, {}))
    /\ UNCHANGED <<kind, day, status, zsetVars, viewVars, cache, flight,
                   stuck, unsteady>>

\* A like, a favourite, and taking them back.
AddLike(s) == \E i \in Items, delta \in {2, -2} :
    status[i] # "private" /\ AddScore(s, i, delta)
\* A comment; its deletion or hiding, whatever has become of the content.
AddComment(s) == \E i \in Items :
    \/ status[i] # "private" /\ AddScore(s, i, 3)
    \/ AddScore(s, i, -3)

Failing(s) ==
    /\ Finish(s)
    /\ UNCHANGED <<kind, day, status, zsetVars, viewVars, cache, flight,
                   unsteady>>

\* An increment to be made, and the day whose set it is for: the client that
\* sends it again has the key it was given.
Increments(s) == call[s].op = "score" /\ call[s].stage \in {"incr", "repeat"}
KeyDay(s) == IF call[s].stage = "repeat" THEN call[s].day ELSE day

Incremented(s) ==
    LET c == call[s]
        d == KeyDay(s)
    IN /\ members' = [members EXCEPT ![d] = @ \union {c.item}]
       /\ score' = [score EXCEPT ![d][c.item] = @ + c.delta]
       /\ counted' = counted \union c.view
       /\ doubled' = doubled \union (counted \intersect c.view)
       /\ UNCHANGED <<expiring, viewed>>

ZIncrBy(s) ==
    LET i == call[s].item
        d == KeyDay(s)
    IN /\ Increments(s)
       /\ Incremented(s)
       /\ Step(s, [op |-> "score", day |-> d, item |-> i,
                   stage |-> IF score'[d][i] <= 0 THEN "zrem" ELSE "ttl"])
       /\ stuck' = stuck \ {<<d, i>>}
       /\ UNCHANGED <<kind, day, status, resent, cache, flight, unsteady>>

\* The client, which heard nothing, sends the command again ...
SendAgain(s) ==
    LET c == call[s]
    IN /\ calls < MaxCalls
       /\ calls' = calls + 1
       /\ call' = [call EXCEPT ![s] =
             [op |-> "score", stage |-> "repeat", day |-> KeyDay(s),
              item |-> c.item, delta |-> c.delta, view |-> c.view]]
       /\ resent' = resent \union c.view

\* ... or gives up; either way the increment may have been made.
ZIncrByLost(s) ==
    /\ Increments(s)
    /\ \/ /\ Incremented(s)
          /\ stuck' = stuck \union {<<KeyDay(s), call[s].item>>}
       \/ UNCHANGED <<zsetVars, viewed, counted, doubled, stuck>>
    /\ SendAgain(s) \/ (Finish(s) /\ resent' = resent)
    /\ UNCHANGED <<kind, day, status, cache, flight, unsteady>>

\* ZREM of a member; a set without members is no key, and has no TTL.
Removed(d, i) ==
    /\ members' = [members EXCEPT ![d] = @ \ {i}]
    /\ score' = [score EXCEPT ![d][i] = 0]
    /\ expiring' = IF members[d] \subseteq {i} THEN expiring \ {d}
                                               ELSE expiring

\* Mutant: a score of exactly zero stays.
ZRemNegative(s) ==
    LET c == call[s]
    IN /\ At(s, "score", "zrem")
       /\ IF score[c.day][c.item] < 0 THEN Removed(c.day, c.item)
                                      ELSE UNCHANGED zsetVars
       /\ Finish(s)
       /\ UNCHANGED <<kind, day, status, viewVars, cache, flight, stuck,
                      unsteady>>

\* It removes the member, whatever has been added to it meanwhile.
ZRem(s) ==
    /\ At(s, "score", "zrem")
    /\ Removed(call[s].day, call[s].item)
    /\ Finish(s)
    /\ UNCHANGED <<kind, day, status, viewVars, cache, flight, stuck, unsteady>>

\* TTL, and EXPIRE when there is none.
Expire(s) ==
    LET d == call[s].day
    IN /\ At(s, "score", "ttl")
       /\ expiring' = IF members[d] = {} THEN expiring ELSE expiring \union {d}
       /\ Finish(s)
       /\ UNCHANGED <<kind, day, status, members, score, viewVars, cache,
                      flight, stuck, unsteady>>

\* ZREM fails, or TTL; one that was done but not answered is ZRem, or Expire.
ScoreFails(s) ==
    /\ At(s, "score", "zrem") \/ At(s, "score", "ttl")
    /\ stuck' = stuck \union (IF call[s].stage = "zrem"
                              THEN {<<call[s].day, call[s].item>>} ELSE {})
    /\ Failing(s)

-----------------------------------------------------------------------------
(* Reading content: a view counts once a day for a member not its author.  *)

\* The detail of published content that is not hidden is there for everyone.
View(s, k) ==
    /\ kind = k
    /\ \E i \in Public, u \in Viewers :
          Start(s, [op |-> "view", stage |-> "setnx", item |-> i, by |-> u])
    /\ UNCHANGED <<kind, day, status, zsetVars, viewVars, cache, flight,
                   stuck, unsteady>>
ArticleDetail(s) == View(s, "article")
SkillDetail(s) == View(s, "skill")
McpServerDetail(s) == View(s, "mcp_server")

\* Mutant: the view is looked up, and the key set once it is scored.
RecordViewGet(s) ==
    LET c == call[s]
        key == <<day, c.by, c.item>>
    IN /\ At(s, "view", "setnx")
       /\ IF key \in counted THEN Finish(s)
                             ELSE Step(s, Scoring(c.item, 1, {key}))
       /\ UNCHANGED <<kind, day, status, zsetVars, viewVars, cache, flight,
                      stuck, unsteady>>

\* SETNX of the day's view key; AddScore works out the day again.
RecordView(s) ==
    LET c == call[s]
        key == <<day, c.by, c.item>>
    IN /\ At(s, "view", "setnx")
       /\ viewed' = viewed \union {key}
       /\ IF key \in viewed THEN Finish(s)
                            ELSE Step(s, Scoring(c.item, 1, {key}))
       /\ UNCHANGED <<kind, day, status, zsetVars, counted, doubled, resent,
                      cache, flight, stuck, unsteady>>

\* SETNX fails, or made the key, but nobody heard of it.
ViewFails(s) ==
    LET key == <<day, call[s].by, call[s].item>>
    IN /\ At(s, "view", "setnx")
       /\ viewed' = viewed \/ viewed' = viewed \union {key}
       /\ Finish(s)
       /\ UNCHANGED <<kind, day, status, zsetVars, counted, doubled, resent,
                      cache, flight, stuck, unsteady>>

-----------------------------------------------------------------------------
(* Content that may no longer be public is removed; what is shown again    *)
(* comes back with the next score only.                                    *)

Withhold(s) ==
    /\ \E i \in Items, st \in {"hidden", "private"} :
          /\ status[i] # "private"
          /\ Start(s, [op |-> "remove", stage |-> "zrem", item |-> i])
          /\ status' = [status EXCEPT ![i] = st]
          /\ unsteady' = unsteady \union {i}
    /\ UNCHANGED <<kind, day, zsetVars, viewVars, cache, flight, stuck>>

\* The day is the one it is by then.
Remove(s) ==
    /\ At(s, "remove", "zrem")
    /\ Removed(day, call[s].item)
    /\ Finish(s)
    /\ UNCHANGED <<kind, day, status, viewVars, cache, flight, stuck, unsteady>>

RemoveFails(s) == At(s, "remove", "zrem") /\ Failing(s) /\ stuck' = stuck

\* Requests that may remove what they saw withheld.
Removing == \E s \in Sessions : call[s].op \in {"remove", "list"}

Restore ==
    /\ calls < MaxCalls
    /\ calls' = calls + 1
    /\ \E i \in Items \ Public :
          /\ status' = [status EXCEPT ![i] = "public"]
          /\ unsteady' = IF Removing THEN unsteady ELSE unsteady \ {i}
    /\ UNCHANGED <<kind, day, zsetVars, viewVars, cache, flight, call, stuck>>

-----------------------------------------------------------------------------
(* Lists.                                                                  *)

listUnchanged == <<kind, day, status, viewVars, stuck, unsteady>>

Reading(top) == [op |-> "list", stage |-> "read", top |-> top, page |-> {},
                 hidden |-> {}]

\* Any page but the first is read at once; so is the first when its copy has
\* expired, of skills and MCP servers.
ListUnshared(s, k) ==
    /\ kind = k
    /\ call[s].op = "idle"
    /\ \E top \in BOOLEAN : /\ top => ~cache.fresh
                            /\ Step(s, Reading(top))
    /\ UNCHANGED <<listUnchanged, zsetVars, cache, flight>>
ListSkills(s) == ListUnshared(s, "skill")
ListMcpServers(s) == ListUnshared(s, "mcp_server")

\* The first page of articles: one refresh, the others wait for its result.
ListArticles(s) ==
    /\ kind = "article"
    /\ call[s].op = "idle"
    /\ \/ Step(s, Reading(FALSE)) /\ flight' = flight
       \/ /\ ~cache.fresh
          /\ Step(s, [Reading(TRUE) EXCEPT !.stage =
                         IF flight = NoOne THEN "again" ELSE "wait"])
          /\ flight' = IF flight = NoOne THEN s ELSE flight
    /\ UNCHANGED <<listUnchanged, zsetVars, cache>>

\* The end of a list request, and of the wait of those that share it.
Answer(s) ==
    /\ call' = [t \in Sessions |->
          IF t = s \/ (s = flight /\ At(t, "list", "wait")) THEN Idle
          ELSE call[t]]
    /\ flight' = IF s = flight THEN NoOne ELSE flight
    /\ calls' = calls

\* refresh looks at the cache again before it reads.
Refresh(s) ==
    /\ At(s, "list", "again")
    /\ IF cache.fresh
       THEN Answer(s)
       ELSE Step(s, [call[s] EXCEPT !.stage = "read"]) /\ flight' = flight
    /\ UNCHANGED <<listUnchanged, zsetVars, cache>>

ReadPage(s) ==
    /\ At(s, "list", "read")
    /\ \E page \in SUBSET members[day] :
          /\ call[s].top => page = members[day]
          /\ Step(s, [call[s] EXCEPT !.stage = "hydrate", !.page = page])
    /\ UNCHANGED <<listUnchanged, zsetVars, cache, flight>>

\* Redis or the database fails: the list is empty.  Of skills and MCP
\* servers, one that could not read the set is cached as well.
ListFails(s) ==
    /\ call[s].op = "list"
    /\ call[s].stage \in {"read", "hydrate"}
    /\ Answer(s)
    /\ cache' = IF kind # "article" /\ call[s].top /\ call[s].stage = "read"
                THEN [items |-> {}, fresh |-> TRUE] ELSE cache
    /\ UNCHANGED <<listUnchanged, zsetVars>>

\* Mutant: the rows are not asked whether they are hidden.
PublishedOnly(page) == {i \in page : status[i] # "private"}

\* The rows that may be shown, of those on the page.
ArticleRows(page) == page \intersect Public
SkillRows(page) == page \intersect Public
McpServerRows(page) == page \intersect Public
Rows(page) == CASE kind = "article" -> ArticleRows(page)
                [] kind = "skill" -> SkillRows(page)
                [] OTHER -> McpServerRows(page)

\* Mutant: a database that fails is a database that knows none of the rows.
HydrateNone(s) ==
    /\ At(s, "list", "hydrate")
    /\ \E rows \in {{}, Rows(call[s].page)} :
          Step(s, [call[s] EXCEPT !.stage = "prune", !.page = rows,
                                  !.hidden = call[s].page \ rows])
    /\ UNCHANGED <<listUnchanged, zsetVars, cache, flight>>

Hydrate(s) ==
    /\ At(s, "list", "hydrate")
    /\ Step(s, [call[s] EXCEPT !.stage = "prune",
                               !.page = Rows(@),
                               !.hidden = call[s].page \ Rows(call[s].page)])
    /\ UNCHANGED <<listUnchanged, zsetVars, cache, flight>>

\* What had no row is removed from the day's set, if that works ...
Prune(s) ==
    /\ At(s, "list", "prune")
    /\ \E i \in call[s].hidden :
          /\ Removed(day, i) \/ UNCHANGED zsetVars
          /\ Step(s, [call[s] EXCEPT !.hidden = @ \ {i}])
    /\ UNCHANGED <<listUnchanged, cache, flight>>

\* ... and the first page is kept for ten seconds.
StoreTop(s) ==
    /\ At(s, "list", "prune")
    /\ call[s].hidden = {}
    /\ Answer(s)
    /\ cache' = IF call[s].top THEN [items |-> call[s].page, fresh |-> TRUE]
                               ELSE cache
    /\ UNCHANGED <<listUnchanged, zsetVars>>

CacheExpires ==
    /\ cache.fresh
    /\ cache' = Stale
    /\ UNCHANGED <<listUnchanged, zsetVars, flight, call, calls>>

\* Midnight in UTC+8: other keys from now on.
NextDay ==
    /\ day < LastDay
    /\ day' = day + 1
    /\ UNCHANGED <<kind, status, zsetVars, viewVars, cache, flight, call,
                   calls, stuck, unsteady>>

-----------------------------------------------------------------------------
Score(s) == \/ AddLike(s) \/ AddComment(s)
            \/ ZIncrBy(s) \/ ZIncrByLost(s)
            \/ ZRem(s) \/ Expire(s) \/ ScoreFails(s)
Read(s) == \/ ArticleDetail(s) \/ SkillDetail(s) \/ McpServerDetail(s)
           \/ RecordView(s) \/ ViewFails(s)
Moderate(s) == Withhold(s) \/ Remove(s) \/ RemoveFails(s)
ListStep(s) == \/ Refresh(s) \/ ReadPage(s) \/ ListFails(s) \/ Hydrate(s)
               \/ Prune(s) \/ StoreTop(s)
List(s) == \/ ListSkills(s) \/ ListMcpServers(s) \/ ListArticles(s)
           \/ ListStep(s)
Next == \/ \E s \in Sessions : Score(s) \/ Read(s) \/ Moderate(s) \/ List(s)
        \/ Restore
        \/ CacheExpires
        \/ NextDay

\* A handler runs to its end, and ten seconds pass.
Fairness == /\ \A s \in Sessions : WF_vars(ListStep(s))
            /\ WF_vars(CacheExpires)

Spec == Init /\ [][Next]_vars /\ Fairness

-----------------------------------------------------------------------------
(* What the hot list promises.                                             *)

\* A member of a day's set has a positive score, unless the AddScore that
\* brought it to zero is about to remove it, or its ZREM failed, or it never
\* learnt the score, the answer to its increment lost; and the next increment
\* that is answered makes that good.  Whatever is added and taken back in
\* between, nothing else with nothing to show for it stays.
OnlyPositiveScores ==
    \A d \in Days : \A i \in members[d] :
        \/ score[d][i] > 0
        \/ <<d, i>> \in stuck
        \/ \E s \in Sessions : /\ At(s, "score", "zrem")
                               /\ call[s].day = d /\ call[s].item = i

\* A member's views of content add to the sets once for every day they are
\* made on, however many requests show it at once, unless the Redis client
\* sent an increment again by itself; one made just before midnight may land
\* in the next day's set, beside that day's own.
ViewScoredOnce == doubled \subseteq resent

\* Content that has been public all along loses a positive score only to the
\* ZREM of an AddScore that saw zero: no page read from a failing or an old
\* database prunes it, and no removal of something else.
ScoresStay ==
    [][\A d \in Days : \A i \in members[d] \ members'[d] :
          score[d][i] > 0 => \/ i \in unsteady
                             \/ \E s \in Sessions : /\ At(s, "score", "zrem")
                                                    /\ call'[s] = Idle]_vars

\* Content that stays hidden or withdrawn leaves the first page, even when a
\* refresh that read it before stores its page afterwards.
HiddenLeavesTheTop ==
    \A i \in Items : <>[](status[i] # "public") => <>[](i \notin cache.items)

-----------------------------------------------------------------------------
(* Why it holds.                                                           *)

\* A view on its way to a set: whoever carries it has made its key, and
\* nobody else carries it or has brought it there.
ViewsAreOwed ==
    /\ counted \subseteq viewed
    /\ \A s \in Sessions : Increments(s) =>
          /\ call[s].view \subseteq viewed
          /\ call[s].view \intersect counted \subseteq resent
          /\ \A t \in Sessions : t # s /\ Increments(t) =>
                call[s].view \intersect call[t].view = {}

\* What is to be removed, by a request that withheld it or by one that found
\* no row for it, has not been public all along.
OnlyUnsteadyRemoved ==
    /\ Items \ Public \subseteq unsteady
    /\ \A s \in Sessions :
          /\ call[s].op = "remove" => call[s].item \in unsteady
          /\ call[s].op = "list" => call[s].hidden \subseteq unsteady

\* The inductive invariant.
IInv == /\ TypeOK
        /\ OnlyPositiveScores
        /\ ViewsAreOwed
        /\ ViewScoredOnce
        /\ OnlyUnsteadyRemoved
=============================================================================
