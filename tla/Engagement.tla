----------------------------- MODULE Engagement -----------------------------
(***************************************************************************)
(* Likes, favourites and comments of one item, and the counters its row    *)
(* keeps of them: internal/service/{article,skill,mcp_server,comment,      *)
(* resource_comment,admin}.go and internal/repo/interaction.go.            *)
(*                                                                         *)
(* A reaction is a row with a unique key.  Toggling it is an INSERT and,   *)
(* on a duplicate, a DELETE, in a transaction that then adds to the        *)
(* counter.  What keeps two toggles of one user apart is InnoDB: an        *)
(* INSERT holds its key exclusively to the end of the transaction, and one *)
(* that meets a committed duplicate holds it shared.  Two holders of the   *)
(* shared lock that both want to delete are a deadlock, and one of them is *)
(* rolled back.                                                            *)
(*                                                                         *)
(* The item may be deleted under all of this: its row then stays, with     *)
(* deleted_at set, and no update of a counter finds it any more.  The      *)
(* author's and the administrators' full-row saves of it (Content) write   *)
(* back the counters they have read, and a row that was deleted.  The      *)
(* score that follows a transaction is in ContentRanking.                  *)
(***************************************************************************)
EXTENDS Integers, FiniteSets

CONSTANTS
    Sessions,  \* requests in progress
    Users,     \* members
    Owner,     \* the member who wrote the item
    Kinds,     \* which of "article", "skill", "mcp_server" the item may be
    NumComments, \* bound on comments
    Likeable,  \* the comments whose likes are followed
    MaxCalls   \* bound on requests

ASSUME EngagementAssumption ==
    /\ Owner \in Users
    /\ NumComments \in Nat
    /\ Likeable \subseteq 1..NumComments
    /\ MaxCalls \in Nat

Comments == 1..NumComments  \* their ids, in the order rows get them

\* What a user reacts to: <<"item", _>> or <<"comment", id>>.
Like == <<"like", 0>>
Favorite == <<"favorite", 0>>
CommentLike(c) == <<"comment", c>>
Marks == {Like, Favorite} \union {CommentLike(c) : c \in Likeable}

\* The columns that count rows, and the one that counts readings.
RowCounters == {"like", "favorite", "comments"}
Counters == RowCounters \union {"views"}

Nobody == "nobody"

\* The rows of a comment and of the item.
Comment == [state : {"unborn", "live", "deleted"}, author : Users,
            hidden : BOOLEAN, parent : Comments \union {0},
            replyTo : Comments \union {0}]
Item == [live : BOOLEAN, published : BOOLEAN, count : [Counters -> Int]]

\* What a request knows at each of its stages.
Idle == [op |-> "idle"]
Inserting == [op : {"toggle"}, stage : {"insert"}, user : Users, mark : Marks]
Inserted == [op : {"toggle"}, stage : {"duplicate", "flipped"}, user : Users,
             mark : Marks, on : BOOLEAN]
Writing == [op : {"post"}, stage : {"draft"}, row : Comment]
Posting == [op : {"post"}, stage : {"commit"}, row : Comment,
            notify : Users \union {Nobody}]
Aiming == [op : {"drop", "hide"}, id : Comments]
Saving == [op : {"save"}, copy : Item]
Viewing == [op : {"view"}]
Request == {Idle} \union Inserting \union Inserted \union Writing
           \union Posting \union Aiming \union Saving \union Viewing

VARIABLES
    kind,      \* what the item is
    item,      \* its row: not deleted, published, the value of each counter
    rows,      \* committed reactions: <<user, mark>>
    comment,   \* comment[i]: the comment row with id i
    likes,     \* likes[i]: its likes_count
    call,      \* call[s]: the request session s is serving
    calls,     \* requests so far
    told,      \* told[i]: who was notified of comment i; Nobody if none
    opened,    \* history: readings of the item that came to count themselves
    astray,    \* history: counters that a full-row save has set back, or an
               \*          update of which found the item deleted
    redeleted, \* history: how many deletions found their comment deleted
    spoken,    \* history: replies posted or shown after their root was hidden
    missed     \* history: replies whose hiding with their root failed

contentVars == <<kind, item, opened, astray>>
commentVars == <<comment, told, redeleted, spoken, missed>>
vars == <<contentVars, commentVars, rows, likes, call, calls>>

NoRow == [state |-> "unborn", author |-> Owner, parent |-> 0, replyTo |-> 0,
          hidden |-> FALSE]

Live(i) == i \in Comments /\ comment[i].state = "live"

TypeOK ==
    /\ kind \in Kinds
    /\ item \in Item
    /\ rows \subseteq Users \X Marks
    /\ comment \in [Comments -> Comment]
    /\ likes \in [Comments -> Int]
    /\ call \in [Sessions -> Request]
    /\ calls \in 0..MaxCalls
    /\ told \in [Comments -> Users \union {Nobody}]
    /\ opened \in Nat
    /\ astray \subseteq RowCounters
    /\ redeleted \in Nat
    /\ spoken \subseteq Comments
    /\ missed \subseteq Comments

Zero == [c \in Counters |-> 0]
Init ==
    /\ kind \in Kinds
    /\ item = [live |-> TRUE, published |-> TRUE, count |-> Zero]
    /\ rows = {}
    /\ comment = [i \in Comments |-> NoRow]
    /\ likes = [i \in Comments |-> 0]
    /\ call = [s \in Sessions |-> Idle]
    /\ calls = 0
    /\ told = [i \in Comments |-> Nobody]
    /\ opened = 0
    /\ astray = {}
    /\ redeleted = 0
    /\ spoken = {}
    /\ missed = {}

Start(s, c) ==
    /\ call[s].op = "idle"
    /\ calls < MaxCalls
    /\ calls' = calls + 1
    /\ call' = [call EXCEPT ![s] = c]

Finish(s) ==
    /\ call' = [call EXCEPT ![s] = Idle]
    /\ calls' = calls

Go(s, stage) ==
    /\ call' = [call EXCEPT ![s] = [call[s] EXCEPT !.stage = stage]]
    /\ calls' = calls

-----------------------------------------------------------------------------
(* Reactions.                                                              *)

\* What a request for the item finds: not deleted, and published.
Found == item.live /\ item.published

Toggle(s, u, m) ==
    /\ Start(s, [op |-> "toggle", stage |-> "insert", user |-> u, mark |-> m])
    /\ UNCHANGED <<contentVars, commentVars, rows, likes>>

\* The item must be published; it may be hidden.
ToggleItem(s, k, m) ==
    /\ kind = k
    /\ Found
    /\ \E u \in Users : Toggle(s, u, m)

ArticleToggleLike(s) == ToggleItem(s, "article", Like)
ArticleToggleFavorite(s) == ToggleItem(s, "article", Favorite)
SkillToggleLike(s) == ToggleItem(s, "skill", Like)
SkillToggleFavorite(s) == ToggleItem(s, "skill", Favorite)
McpToggleLike(s) == ToggleItem(s, "mcp_server", Like)
McpToggleFavorite(s) == ToggleItem(s, "mcp_server", Favorite)

\* A comment need only exist.
ToggleComment(s, i) == Live(i) /\ \E u \in Users : Toggle(s, u, CommentLike(i))
CommentToggleLike(s) ==
    kind = "article" /\ \E i \in Likeable : ToggleComment(s, i)
ResourceCommentToggleLike(s) ==
    kind # "article" /\ \E i \in Likeable : ToggleComment(s, i)

Key(s) == <<call[s].user, call[s].mark>>

\* The other transactions at stage st of a toggle of the same row.
Rivals(s, st) == {t \in Sessions \ {s} : /\ call[t].op = "toggle"
                                         /\ call[t].stage = st
                                         /\ Key(t) = Key(s)}

\* toggleLike's Create: it waits for the transaction that inserted or deleted
\* the row; it holds the key, or meets a duplicate and holds that shared.
InsertRow(s) ==
    /\ call[s].op = "toggle"
    /\ call[s].stage = "insert"
    /\ Rivals(s, "flipped") = {}
    /\ call' = [call EXCEPT ![s] =
          [op |-> "toggle", user |-> call[s].user, mark |-> call[s].mark,
           on |-> Key(s) \notin rows,
           stage |-> IF Key(s) \in rows THEN "duplicate" ELSE "flipped"]]
    /\ UNCHANGED <<contentVars, commentVars, rows, likes, calls>>

\* Mutant: the duplicate is found without a lock on it.
DeleteRowUnlocked(s) ==
    /\ call[s].op = "toggle"
    /\ call[s].stage = "duplicate"
    /\ Go(s, "flipped")
    /\ UNCHANGED <<contentVars, commentVars, rows, likes>>

\* Its Delete, of the duplicate.
DeleteRow(s) ==
    /\ call[s].op = "toggle"
    /\ call[s].stage = "duplicate"
    /\ Rivals(s, "duplicate") = {}
    /\ Go(s, "flipped")
    /\ UNCHANGED <<contentVars, commentVars, rows, likes>>

\* InnoDB breaks the deadlock: the victim's request fails.
Deadlock(s) ==
    /\ call[s].op = "toggle"
    /\ call[s].stage = "duplicate"
    /\ Rivals(s, "duplicate") # {}
    /\ Finish(s)
    /\ UNCHANGED <<contentVars, commentVars, rows, likes>>

\* A counter of the item's row, n more.
Bump(row, c, n) ==
    [row EXCEPT !.count = [row.count EXCEPT ![c] = row.count[c] + n]]

\* IncrCount, which is satisfied to update no row.
IncrCount(c, n) ==
    IF item.live THEN item' = Bump(item, c, n) /\ astray' = astray
                 ELSE item' = item /\ astray' = astray \union {c}

\* IncrCount or IncrLikes, and the commit.
CommitToggle(s) ==
    LET m == call[s].mark
        delta == IF call[s].on THEN 1 ELSE -1
    IN /\ call[s].op = "toggle"
       /\ call[s].stage = "flipped"
       /\ rows' = IF call[s].on THEN rows \union {Key(s)} ELSE rows \ {Key(s)}
       /\ IF m \in {Like, Favorite}
          THEN /\ IncrCount(m[1], delta)
               /\ likes' = likes
          ELSE /\ likes' = [likes EXCEPT ![m[2]] =
                              IF Live(m[2]) THEN @ + delta ELSE @]
               /\ UNCHANGED <<item, astray>>
       /\ Finish(s)
       /\ UNCHANGED <<kind, opened, commentVars>>

-----------------------------------------------------------------------------
(* Comments.                                                               *)

\* Mutant: the reply keeps the comment it answers as its parent.
RootItself(p) == p

\* A reply to a reply belongs to the reply's root.
RootOf(p) == IF p # 0 /\ comment[p].parent # 0 THEN comment[p].parent ELSE p

Post(s) ==
    /\ Found
    /\ \E u \in Users, p \in {0} \union {i \in Comments : Live(i)} :
          Start(s, [op |-> "post", stage |-> "draft",
                    row |-> [state |-> "live", author |-> u, hidden |-> FALSE,
                             parent |-> RootOf(p), replyTo |-> p]])
    /\ UNCHANGED <<contentVars, commentVars, rows, likes>>
CommentCreate(s) == kind = "article" /\ Post(s)
ResourceCommentCreate(s) == kind # "article" /\ Post(s)

\* Whom the draft is for: the author of the comment answered, read again, or
\* of the item; a reader who is the writer is dropped by Draft.
Recipient(c) == IF c.replyTo = 0 THEN Owner
                ELSE IF Live(c.replyTo) THEN comment[c.replyTo].author
                ELSE c.author

DraftTo(s, u) ==
    /\ call' = [call EXCEPT ![s] =
          [op |-> "post", stage |-> "commit", row |-> call[s].row,
           notify |-> IF u = call[s].row.author THEN Nobody ELSE u]]
    /\ UNCHANGED <<contentVars, commentVars, rows, likes, calls>>
Drafting(s) == call[s].op = "post" /\ call[s].stage = "draft"

CommentDraft(s) ==
    /\ kind = "article"
    /\ Drafting(s)
    /\ DraftTo(s, Recipient(call[s].row))
\* It reads the item again: for nobody if that is no longer to be found.
ResourceCommentDraft(s) ==
    /\ kind # "article"
    /\ Drafting(s)
    /\ DraftTo(s, IF call[s].row.replyTo = 0 /\ ~Found
                  THEN call[s].row.author ELSE Recipient(call[s].row))

\* The transaction: the comment, the counter, the event.
CommitPost(s) ==
    /\ call[s].op = "post"
    /\ call[s].stage = "commit"
    /\ \E i \in Comments :
          LET c == call[s].row IN
          /\ comment[i].state = "unborn"
          /\ \A j \in Comments : j < i => comment[j].state # "unborn"
          /\ comment' = [comment EXCEPT ![i] = c]
          /\ told' = [told EXCEPT ![i] = call[s].notify]
          /\ spoken' = IF c.parent # 0 /\ comment[c.parent].hidden
                       THEN spoken \union {i} ELSE spoken
    /\ IncrCount("comments", 1)
    /\ Finish(s)
    /\ UNCHANGED <<kind, opened, redeleted, missed, rows, likes>>

\* The comment's author or the item's, which must exist, may delete it ...
Drop(s, i) ==
    /\ Live(i)
    /\ Start(s, [op |-> "drop", id |-> i])
    /\ UNCHANGED <<contentVars, commentVars, rows, likes>>
CommentDelete(s) ==
    kind = "article" /\ item.live /\ \E i \in Comments : Drop(s, i)
\* ... and a resource must still be published.
ResourceCommentDelete(s) ==
    kind # "article" /\ Found /\ \E i \in Comments : Drop(s, i)

\* The row with its deleted_at set.
Deleted(i) == [comment[i] EXCEPT !.state = "deleted"]

\* The transaction: it does not ask whether a row was deleted.
CommitDrop(s) ==
    /\ call[s].op = "drop"
    /\ redeleted' = redeleted + (IF Live(call[s].id) THEN 0 ELSE 1)
    /\ comment' = [comment EXCEPT ![call[s].id] = Deleted(call[s].id)]
    /\ IncrCount("comments", -1)
    /\ Finish(s)
    /\ UNCHANGED <<kind, opened, told, spoken, missed, rows, likes>>

Replies(i) == {j \in Comments : Live(j) /\ comment[j].parent = i}
Shown(ids, h) ==
    [j \in Comments |-> IF j \in ids /\ Live(j)
                        THEN [comment[j] EXCEPT !.hidden = h] ELSE comment[j]]

\* An administrator hides a comment in one statement ...
Hide(s) ==
    /\ \E i \in Comments :
          /\ comment[i].state # "unborn"
          /\ Start(s, [op |-> "hide", id |-> i])
          /\ comment' = Shown({i}, TRUE)
    /\ UNCHANGED <<contentVars, told, redeleted, spoken, missed, rows, likes>>
HideComment(s) == kind = "article" /\ Hide(s)
HideResourceComment(s) == kind # "article" /\ Hide(s)

\* Mutant: the comments that answer it are hidden, not its thread.
HideAnswers(s) ==
    LET ids == {j \in Comments : Live(j) /\ comment[j].replyTo = call[s].id}
    IN /\ call[s].op = "hide"
       /\ comment' = Shown(ids, TRUE)
       /\ spoken' = spoken \ ids
       /\ missed' = missed \ ids
       /\ Finish(s)
       /\ UNCHANGED <<contentVars, told, redeleted, rows, likes>>

\* ... and its replies in a second, whose failure is ignored.
HideReplies(s) ==
    LET ids == Replies(call[s].id)
    IN /\ call[s].op = "hide"
       /\ \/ /\ comment' = Shown(ids, TRUE)
             /\ spoken' = spoken \ ids
             /\ missed' = missed \ ids
          \/ /\ missed' = missed \union ids
             /\ UNCHANGED <<comment, spoken>>
       /\ Finish(s)
       /\ UNCHANGED <<contentVars, told, redeleted, rows, likes>>

\* It shows one comment again, never its replies.
Unhide ==
    /\ calls < MaxCalls
    /\ calls' = calls + 1
    /\ \E i \in Comments :
          /\ comment[i].state # "unborn"
          /\ comment' = Shown({i}, FALSE)
          /\ spoken' = IF comment[i].parent # 0 /\ comment[comment[i].parent].hidden
                       THEN spoken \union {i} ELSE spoken
    /\ UNCHANGED <<contentVars, told, redeleted, missed, rows, likes, call>>
UnhideComment == kind = "article" /\ Unhide
UnhideResourceComment == kind # "article" /\ Unhide

-----------------------------------------------------------------------------
(* The rest of the item's life, as far as these handlers see it.           *)

ReadItem(s) ==
    /\ item.live
    /\ Start(s, [op |-> "save", copy |-> item])
    /\ UNCHANGED <<contentVars, commentVars, rows, likes>>

\* Save writes the row back as it was read: its counters, and that it lives.
SaveItem(s) ==
    /\ call[s].op = "save"
    /\ \E p \in BOOLEAN : item' = [call[s].copy EXCEPT !.published = p]
    /\ astray' = astray \union
          {c \in RowCounters : call[s].copy.count[c] # item.count[c]}
    /\ Finish(s)
    /\ UNCHANGED <<kind, opened, commentVars, rows, likes>>

\* Its author deletes the item, whatever is under way.
DeleteItem ==
    /\ item.live
    /\ calls < MaxCalls
    /\ calls' = calls + 1
    /\ item' = [item EXCEPT !.live = FALSE]
    /\ UNCHANGED <<kind, opened, astray, commentVars, rows, likes, call>>

\* Reading the page of the item counts when it is found published ...
Detail(s) ==
    /\ Found
    /\ Start(s, [op |-> "view"])
    /\ UNCHANGED <<contentVars, commentVars, rows, likes>>
ArticleDetail(s) == kind = "article" /\ Detail(s)
SkillDetail(s) == kind = "skill" /\ Detail(s)
McpServerDetail(s) == kind = "mcp_server" /\ Detail(s)

\* ... by an update of its own, which may fail or find the row deleted: the
\* reading goes on all the same.
IncrViews(s) ==
    /\ call[s].op = "view"
    /\ item' = item \/ (item.live /\ item' = Bump(item, "views", 1))
    /\ opened' = opened + 1
    /\ Finish(s)
    /\ UNCHANGED <<kind, astray, commentVars, rows, likes>>

\* A transaction or a read that fails changes nothing.
Fail(s) ==
    /\ call[s].op \notin {"idle", "hide", "view"}
    /\ Finish(s)
    /\ UNCHANGED <<contentVars, commentVars, rows, likes>>

Begin(s) == \/ ArticleToggleLike(s) \/ ArticleToggleFavorite(s)
            \/ SkillToggleLike(s) \/ SkillToggleFavorite(s)
            \/ McpToggleLike(s) \/ McpToggleFavorite(s)
            \/ CommentToggleLike(s) \/ ResourceCommentToggleLike(s)
            \/ CommentCreate(s) \/ ResourceCommentCreate(s)
            \/ CommentDelete(s) \/ ResourceCommentDelete(s)
            \/ HideComment(s) \/ HideResourceComment(s)
            \/ ArticleDetail(s) \/ SkillDetail(s) \/ McpServerDetail(s)
            \/ ReadItem(s)
React(s) == InsertRow(s) \/ DeleteRow(s) \/ Deadlock(s) \/ CommitToggle(s)
Discuss(s) == \/ CommentDraft(s) \/ ResourceCommentDraft(s) \/ CommitPost(s)
              \/ CommitDrop(s) \/ HideReplies(s)
Next == \/ \E s \in Sessions : \/ Begin(s) \/ React(s) \/ Discuss(s)
                               \/ IncrViews(s) \/ SaveItem(s) \/ Fail(s)
        \/ UnhideComment \/ UnhideResourceComment
        \/ DeleteItem

Spec == Init /\ [][Next]_vars

-----------------------------------------------------------------------------
(* Reading the comments: those that are not hidden, in threads.            *)

ListByArticle == {i \in Comments : Live(i) /\ ~comment[i].hidden}
ListByResource == {i \in Comments : Live(i) /\ ~comment[i].hidden}

\* The roots, each over its replies, then the replies of no root.
Threads(list) ==
    LET roots == {i \in list : comment[i].parent = 0}
    IN [roots |-> roots,
        under |-> [r \in roots |-> {i \in list : comment[i].parent = r}],
        orphans |-> {i \in list : comment[i].parent \notin roots \union {0}}]
assembleComments == Threads(ListByArticle)
assembleResComments == Threads(ListByResource)

\* The whole answer; the item must be found.
CommentList == [found |-> Found, list |-> assembleComments]
ResourceCommentList == [found |-> Found, list |-> assembleResComments]
Listing == IF kind = "article" THEN CommentList ELSE ResourceCommentList

-----------------------------------------------------------------------------
(* What the rows and the counters owe each other.                          *)

Reactors(m) == {u \in Users : <<u, m>> \in rows}

\* A counter of likes or favourites is the number of rows, whatever two
\* toggles of one user do to each other, unless a full-row save set it back
\* or a reaction was committed to an item deleted meanwhile.
ReactionsCounted ==
    /\ \A m \in {Like, Favorite} : m[1] \notin astray =>
          item.count[m[1]] = Cardinality(Reactors(m))
    /\ \A i \in Likeable : Live(i) =>
          likes[i] = Cardinality(Reactors(CommentLike(i)))

\* comments_count falls short of the comments not deleted, hidden ones and
\* replies to deleted ones included, by exactly the deletions that found
\* their comment deleted already; unless a save set it back or a comment was
\* posted to, or deleted from, an item deleted meanwhile.
CommentsCounted ==
    "comments" \notin astray =>
        item.count["comments"] + redeleted
            = Cardinality({i \in Comments : Live(i)})

\* Every counter of rows is what it counts.  The views are never more than
\* the readings that came to count themselves, whatever a save writes back;
\* they may be less, for an update of them that fails is ignored.
CountersMatchRows ==
    /\ ReactionsCounted
    /\ CommentsCounted
    /\ item.count["views"] <= opened

\* The comment that opened the conversation a comment belongs to.
Opener[i \in Comments] ==
    IF comment[i].replyTo = 0 THEN i ELSE Opener[comment[i].replyTo]

\* However deep the answers go, a reply's parent is the comment that opened
\* the conversation, and the one notified is the author of the very comment
\* answered, never the writer.  So a list of comments shows each visible one
\* in one place: under the opener, or by itself when that is not to be seen,
\* and nothing else.
RepliesStayInThread ==
    /\ \A i \in Comments : LET c == comment[i] IN c.state # "unborn" =>
        /\ c.parent = IF c.replyTo = 0 THEN 0 ELSE Opener[i]
        /\ told[i] \in {Nobody} \union
              ({IF c.replyTo = 0 THEN Owner ELSE comment[c.replyTo].author}
                  \ {c.author})
    /\ LET shown == Listing.list IN \A i \in Comments :
        IF ~Live(i) \/ comment[i].hidden
        THEN /\ i \notin shown.roots \union shown.orphans
             /\ \A r \in shown.roots : i \notin shown.under[r]
        ELSE IF Opener[i] \in shown.roots \ {i}
        THEN /\ {r \in shown.roots : i \in shown.under[r]} = {Opener[i]}
             /\ i \notin shown.orphans
        ELSE (i \in shown.roots) # (i \in shown.orphans)

\* A comment is hidden in one statement and its replies in a second, with no
\* transaction around them and the error of the second dropped.  A reply that
\* can be read under a hidden comment was therefore posted or shown after the
\* hiding, or is one of those the second statement failed to hide, or that
\* statement is still to come.
HiddenThreadsAreSilent ==
    \A i \in Comments : \A j \in Replies(i) :
        comment[i].hidden /\ ~comment[j].hidden =>
            \/ j \in spoken \union missed
            \/ \E s \in Sessions : call[s].op = "hide" /\ call[s].id = i

-----------------------------------------------------------------------------
(* Why it holds: what a request in progress may rely on.                   *)

Toggles(s, st) == call[s].op = "toggle" /\ call[s].stage = st
Born(i) == i \in Comments /\ comment[i].state # "unborn"

\* A toggle that has flipped its row has the key to itself, and the row is
\* still as it found it; one that met a duplicate may delete that duplicate.
TogglesHold ==
    /\ \A s \in Sessions : Toggles(s, "flipped") =>
          /\ call[s].on <=> Key(s) \notin rows
          /\ Rivals(s, "flipped") \union Rivals(s, "duplicate") = {}
    /\ \A s \in Sessions :
          Toggles(s, "duplicate") => ~call[s].on /\ Key(s) \in rows
    /\ \A m \in Marks : IsFiniteSet(Reactors(m))

\* Comments get their ids in order; nothing refers to one that has none yet.
UnbornIsUnknown ==
    /\ \A i \in Comments : comment[i].state = "unborn" =>
          /\ comment[i] = NoRow
          /\ likes[i] = 0
          /\ \A j \in Comments : i < j => comment[j].state = "unborn"
          /\ \A k \in rows : k[2] # CommentLike(i)
    /\ \A s \in Sessions :
          /\ call[s].op = "toggle" =>
                \A i \in Comments : call[s].mark = CommentLike(i) => Born(i)
          /\ call[s].op \in {"drop", "hide"} => Born(call[s].id)

\* A row, of a comment or of a draft, whose answered comment is there, whose
\* parent is that one's root, and whose notification, to, is for its author.
Fits(c, to) ==
    /\ c.replyTo = 0 \/ Born(c.replyTo)
    /\ c.parent = RootOf(c.replyTo)
    /\ to \in {Nobody} \union
          ({IF c.replyTo = 0 THEN Owner ELSE comment[c.replyTo].author}
              \ {c.author})

\* Threads are two levels deep, and answers are younger than the answered.
ThreadsAreFlat ==
    /\ \A i \in Comments : Born(i) =>
          /\ Fits(comment[i], told[i])
          /\ comment[i].replyTo < i
          /\ comment[i].parent # 0 => /\ Born(comment[i].parent)
                                      /\ comment[comment[i].parent].parent = 0
    /\ \A s \in Sessions : call[s].op = "post" =>
          /\ Fits(call[s].row, IF call[s].stage = "draft" THEN Nobody
                                                         ELSE call[s].notify)
          /\ call[s].row.state = "live"
          /\ ~call[s].row.hidden

\* A save can bring back no more views than there have been readings.
CopiesAreOld == \A s \in Sessions :
    call[s].op = "save" => call[s].copy.count["views"] <= opened

\* The inductive invariant.
IInv == /\ TypeOK
        /\ TogglesHold
        /\ UnbornIsUnknown
        /\ ThreadsAreFlat
        /\ CountersMatchRows
        /\ HiddenThreadsAreSilent
        /\ CopiesAreOld
=============================================================================
