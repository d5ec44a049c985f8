------------------------------- MODULE Content -------------------------------
(***************************************************************************)
(* One item a member writes - an article, a skill or an MCP server - from  *)
(* draft to deletion, with its tags: internal/service/{article,skill,      *)
(* mcp_server,tag,admin}.go and the repositories under them.               *)
(*                                                                         *)
(* Every handler reads the row, decides, and writes the WHOLE row back     *)
(* (gorm Save); hiding alone updates one column.  So what a handler writes *)
(* is its copy, and two handlers that overlap lose each other's change.    *)
(* A Save that meets a soft-deleted row turns into an upsert of every      *)
(* column and brings the row back.  A transaction holds the row's lock     *)
(* from its first write to its end.                                        *)
(*                                                                         *)
(* The counters of the row are in Engagement, its score in ContentRanking, *)
(* the index events an article's transactions write in DocumentIndex, and  *)
(* the author's notification in NotificationOutbox.                        *)
(***************************************************************************)
EXTENDS Integers, FiniteSets

CONSTANTS
    Sessions,  \* requests in progress, of the author or of administrators
    Kinds,     \* which of "article", "skill", "mcp_server" the item may be
    Texts,     \* the bodies an edit may give it
    Complete,  \* those with a repository URL and an installation
    Tags,      \* tag ids, in the order rows get them
    Names,     \* tag names
    NameOf,    \* NameOf[i]: the name the row with id i is created with
    MaxCalls   \* bound on the requests after the item's creation

ASSUME ContentAssumption ==
    /\ Kinds \subseteq {"article", "skill", "mcp_server"}
    /\ Texts # {}
    /\ Complete \subseteq Texts
    /\ NameOf \in [Tags -> Names]
    /\ MaxCalls \in Nat

Status == {"draft", "pending_review", "published", "rejected", "archived"}
Row == [status : Status, hidden : BOOLEAN, text : Texts,
        life : {"unborn", "live", "deleted"}]

\* What a change of status may start from, and what it writes.
SubmitFrom == {"draft", "rejected", "archived"}
Target == [submit |-> "pending_review", withdraw |-> "draft",
           archive |-> "archived", approve |-> "published",
           reject |-> "rejected"]
Changes == DOMAIN Target
Saving == Changes \union {"update"}

\* What a request holds: its copy of the row, the tags it has found and those
\* it will set.
Request == [op : Saving \union {"idle", "create", "delete", "drop_tag"},
            stage : {"read", "tags", "written"},
            copy : Row, old : SUBSET Tags, new : SUBSET Tags]

VARIABLES
    kind,      \* what the item is
    row,       \* its row
    links,     \* its rows in the link table: a set of tag ids
    tag,       \* tag[i]: the tag row with id i
    usage,     \* usage[i]: its usage_count
    call,      \* call[s]: the request session s is serving
    calls,     \* requests after the creation
    vetted,    \* history: texts approved, or written over a published copy
    standing,  \* history: the last hide or unhide; firm: no request held a
               \*          copy of the row at that moment
    buried,    \* history: deleted while no request held a copy of the row
    drifted,   \* history: tags counted from links that had changed meanwhile
    raced      \* history: tags linked between the count and their deletion

rowVars == <<kind, row, vetted, standing, buried>>
tagVars == <<links, tag, usage, drifted, raced>>
vars == <<rowVars, tagVars, call, calls>>

Blank == [status |-> "draft", hidden |-> FALSE, life |-> "unborn",
          text |-> CHOOSE x \in Texts : TRUE]
Idle == [op |-> "idle", stage |-> "read", copy |-> Blank,
         old |-> {}, new |-> {}]

LiveTags == {i \in Tags : tag[i] \in {"enabled", "disabled"}}
Enabled == {i \in Tags : tag[i] = "enabled"}
Named(n) == {i \in LiveTags : NameOf[i] = n}
Unborn(n) == {i \in Tags : NameOf[i] = n /\ tag[i] = "unborn"}

\* Some transaction has written the item's row and not ended.
Locked == \E s \in Sessions : call[s].stage = "written"

\* No other request will write back a copy of the row it has read.
NoCopies(s) == \A t \in Sessions \ {s} : call[t].op \notin Saving

TypeOK ==
    /\ kind \in Kinds
    /\ row \in Row
    /\ links \subseteq Tags
    /\ tag \in [Tags -> {"unborn", "enabled", "disabled", "gone"}]
    /\ usage \in [Tags -> Int]
    /\ call \in [Sessions -> Request]
    /\ calls \in 0..MaxCalls
    /\ vetted \subseteq Texts
    /\ standing \in [hidden : BOOLEAN, firm : BOOLEAN]
    /\ buried \in BOOLEAN
    /\ drifted \subseteq Tags
    /\ raced \subseteq Tags

Init ==
    /\ kind \in Kinds
    /\ row = Blank
    /\ links = {}
    /\ tag = [i \in Tags |-> "unborn"]
    /\ usage = [i \in Tags |-> 0]
    /\ call = [s \in Sessions |-> Idle]
    /\ calls = 0
    /\ vetted = {}
    /\ standing = [hidden |-> FALSE, firm |-> TRUE]
    /\ buried = FALSE
    /\ drifted = {}
    /\ raced = {}

-----------------------------------------------------------------------------
(* Requests: they start by reading the row, and end by becoming idle.      *)

Counted == calls < MaxCalls /\ calls' = calls + 1

Start(s, c) ==
    /\ call[s].op = "idle"
    /\ Counted
    /\ call' = [call EXCEPT ![s] = c]

Finish(s) ==
    /\ call' = [call EXCEPT ![s] = Idle]
    /\ calls' = calls

\* Mutant: the row is read Unscoped, deleted or not.
ReadUnscoped(s, op, k, from) ==
    /\ kind = k
    /\ row.life # "unborn"
    /\ row.status \in from
    /\ Start(s, [Idle EXCEPT !.op = op, !.copy = row])
    /\ UNCHANGED <<rowVars, tagVars>>

\* FindByID, the handler's check of the status, and the copy it will save.
ReadFor(s, op, k, from) ==
    /\ kind = k
    /\ row.life = "live"
    /\ row.status \in from
    /\ Start(s, [Idle EXCEPT !.op = op, !.copy = row])
    /\ UNCHANGED <<rowVars, tagVars>>

\* Mutant: the saved row is built from the request, so it is never hidden.
SavedAnew(r) == [r EXCEPT !.life = "live", !.hidden = FALSE]

\* Save: every column of the copy, and of a deleted row too.
Saved(r) == [r EXCEPT !.life = "live"]

-----------------------------------------------------------------------------
(* Tags.                                                                   *)

\* The ids a request's tag list stands for: every id must name an enabled
\* tag; a name finds its tag, or makes one; a disabled one is skipped.
TagSet(ids, found, made) ==
    ids \union (UNION {Named(n) \intersect Enabled : n \in found})
        \union {CHOOSE i \in Unborn(n) : TRUE : n \in made}
TagSets ==
    {new \in SUBSET Tags : \E ids \in SUBSET Enabled,
        found \in SUBSET {n \in Names : Named(n) # {}},
        made \in SUBSET {n \in Names : Named(n) = {} /\ Unborn(n) # {}} :
            new = TagSet(ids, found, made)}

\* A skill's and an MCP server's new tags are committed at once, on another
\* connection; an article's belong to the article's transaction.
CreateTags(new) == [i \in Tags |-> IF i \in new /\ tag[i] = "unborn"
                                   THEN "enabled" ELSE tag[i]]
ArticleResolveTagSet(new) == kind = "article" /\ new \in TagSets /\ tag' = tag
SkillResolveTagSet(new) ==
    kind = "skill" /\ new \in TagSets /\ tag' = CreateTags(new)
McpResolveTagSet(new) ==
    kind = "mcp_server" /\ new \in TagSets /\ tag' = CreateTags(new)
ResolveTagSet(new) == \/ ArticleResolveTagSet(new)
                      \/ SkillResolveTagSet(new)
                      \/ McpResolveTagSet(new)

\* Mutant: the tags dropped are not counted down.
SetTagsUpOnly(old, new) ==
    /\ tag' = CreateTags(new)
    /\ usage' = [i \in Tags |-> usage[i] + (IF i \in new \ old THEN 1 ELSE 0)]
    /\ links' = new
    /\ drifted' = drifted \union (old \ links) \union (links \ old)
    /\ raced' = raced

\* IncrUsage for the tags taken and dropped, then the link table rewritten.
SetTags(old, new) ==
    /\ tag' = CreateTags(new)
    /\ usage' = [i \in Tags |->
          IF tag'[i] = "gone" THEN usage[i]
          ELSE usage[i] + (IF i \in new \ old THEN 1 ELSE 0)
                        - (IF i \in old \ new THEN 1 ELSE 0)]
    /\ links' = new
    /\ drifted' = drifted \union (old \ links) \union (links \ old)
    /\ raced' = raced \union
          {i \in new : \E t \in Sessions : /\ call[t].op = "drop_tag"
                                           /\ i \in call[t].old}

\* TagService.AdminCreate: a name already taken is refused.
AdminCreateTag(n) ==
    /\ Named(n) = {}
    /\ \E i \in Unborn(n) :
          /\ \A s \in Sessions : i \notin call[s].new
          /\ tag' = [tag EXCEPT ![i] = "enabled"]
    /\ Counted
    /\ UNCHANGED <<rowVars, links, usage, drifted, raced, call>>

\* TagService.AdminUpdate, of the enabled column.
AdminUpdateTag(i) ==
    /\ i \in LiveTags
    /\ tag' = [tag EXCEPT ![i] = IF @ = "enabled" THEN "disabled"
                                                  ELSE "enabled"]
    /\ Counted
    /\ UNCHANGED <<rowVars, links, usage, drifted, raced, call>>

\* TagService.AdminDelete first counts the links ...
CountTagUsage(s, i) ==
    /\ i \in LiveTags \ links
    /\ Start(s, [Idle EXCEPT !.op = "drop_tag", !.old = {i}])
    /\ UNCHANGED <<rowVars, tagVars>>

\* ... and then deletes the row, on whatever has happened since.
AdminDeleteTag(s) ==
    /\ call[s].op = "drop_tag"
    /\ tag' = [i \in Tags |-> IF i \in call[s].old THEN "gone" ELSE tag[i]]
    /\ raced' = raced \union
          {i \in call[s].old : \E t \in Sessions : i \in call[t].new}
    /\ Finish(s)
    /\ UNCHANGED <<rowVars, links, usage, drifted>>

-----------------------------------------------------------------------------
(* Writing the item.                                                       *)

\* What an author's request makes of the row.
Edited(r, x, status) == [r EXCEPT !.text = x, !.status = status]

\* It has written its copy, thus edited, in a transaction, and has its tags.
Opened(c, x, status, new) ==
    [c EXCEPT !.stage = "written", !.copy = Edited(c.copy, x, status),
              !.new = new]

\* A new row, in the transaction that will link its tags.
CreateAs(s, k, status) ==
    /\ kind = k
    /\ row.life = "unborn"
    /\ call[s].op = "idle"
    /\ \A t \in Sessions : call[t].op # "create"
    /\ \E x \in Texts, new \in SUBSET Tags :
          /\ ResolveTagSet(new)
          /\ call' = [call EXCEPT ![s] =
                Opened([Idle EXCEPT !.op = "create"], x, status, new)]
    /\ UNCHANGED <<rowVars, links, usage, drifted, raced, calls>>

ArticleStatus == {"draft", "published"}
ArticleCreate(s) == \E status \in ArticleStatus : CreateAs(s, "article", status)
SkillCreate(s) == CreateAs(s, "skill", "draft")
McpCreate(s) == CreateAs(s, "mcp_server", "draft")

\* Update reads the row, then the links ...
ArticleUpdate(s) == ReadFor(s, "update", "article", Status)
SkillUpdate(s) == ReadFor(s, "update", "skill", Status \ {"pending_review"})
McpUpdate(s) == ReadFor(s, "update", "mcp_server", Status \ {"pending_review"})

FindTags(s) ==
    /\ call[s].op \in {"update", "delete"}
    /\ call[s].stage = "read"
    /\ call' = [call EXCEPT ![s] = [@ EXCEPT !.stage = "tags", !.old = links]]
    /\ UNCHANGED <<rowVars, tagVars, calls>>

\* ... opens its transaction with the Save, and resolves the tags ...
OpenUpdate(s) ==
    /\ call[s].op = "update"
    /\ call[s].stage = "tags"
    /\ ~Locked
    /\ \E x \in Texts, new \in SUBSET Tags,
          st \in IF kind = "article" THEN ArticleStatus
                                     ELSE {call[s].copy.status} :
          /\ ResolveTagSet(new)
          /\ call' = [call EXCEPT ![s] = Opened(call[s], x, st, new)]
    /\ UNCHANGED <<rowVars, links, usage, drifted, raced, calls>>

\* ... and commits the row and the tags together.
Commit(s) ==
    /\ call[s].stage = "written"
    /\ row' = Saved(call[s].copy)
    /\ SetTags(call[s].old, call[s].new)
    /\ vetted' = IF call[s].copy.status = "published"
                 THEN vetted \union {call[s].copy.text} ELSE vetted
    /\ Finish(s)
    /\ UNCHANGED <<kind, standing, buried>>

\* Delete reads the row, then in a transaction the links; the row goes
\* softly and the links for good.
DeleteAs(s, k) ==
    /\ kind = k
    /\ row.life = "live"
    /\ Start(s, [Idle EXCEPT !.op = "delete"])
    /\ UNCHANGED <<rowVars, tagVars>>
ArticleDelete(s) == DeleteAs(s, "article")
SkillDelete(s) == DeleteAs(s, "skill")
McpDelete(s) == DeleteAs(s, "mcp_server")

CommitDelete(s) ==
    /\ call[s].op = "delete"
    /\ call[s].stage = "tags"
    /\ ~Locked
    /\ row' = [row EXCEPT !.life = "deleted"]
    /\ buried' = (buried \/ (row.life = "live" /\ NoCopies(s)))
    /\ SetTags(call[s].old, {})
    /\ Finish(s)
    /\ UNCHANGED <<kind, vetted, standing>>

\* A transaction that fails part of the way is rolled back.
Fail(s) ==
    /\ call[s].op # "idle"
    /\ Finish(s)
    /\ UNCHANGED <<rowVars, tagVars>>

-----------------------------------------------------------------------------
(* Changing its status: one read, one Save, no transaction around them.    *)

SkillSubmit(s) == ReadFor(s, "submit", "skill", SubmitFrom)
SkillWithdraw(s) == ReadFor(s, "withdraw", "skill", {"pending_review"})
SkillArchive(s) == ReadFor(s, "archive", "skill", {"published"})
ReviewSkill(s) == \E op \in {"approve", "reject"} :
    ReadFor(s, op, "skill", {"pending_review"})

McpSubmit(s) == /\ row.text \in Complete
                /\ ReadFor(s, "submit", "mcp_server", SubmitFrom)
McpWithdraw(s) == ReadFor(s, "withdraw", "mcp_server", {"pending_review"})
McpArchive(s) == ReadFor(s, "archive", "mcp_server", {"published"})
ReviewMcpServer(s) == \E op \in {"approve", "reject"} :
    ReadFor(s, op, "mcp_server", {"pending_review"})

\* Mutant: only the status column is written.
RewrittenStatus(s) == [row EXCEPT !.status = Target[call[s].op]]

\* What the second half of the handler writes.
Rewritten(s) == Saved([call[s].copy EXCEPT !.status = Target[call[s].op]])

SaveStatus(s) ==
    /\ call[s].op \in Changes
    /\ ~Locked
    /\ row' = Rewritten(s)
    /\ vetted' = IF call[s].op = "approve"
                 THEN vetted \union {call[s].copy.text} ELSE vetted
    /\ Finish(s)
    /\ UNCHANGED <<kind, standing, buried, tagVars>>

\* One column, of a row that is not deleted.
WriteHidden(h) ==
    /\ row.life = "live"
    /\ ~Locked
    /\ row' = [row EXCEPT !.hidden = h]
    /\ standing' = [hidden |-> h,
                    firm |-> \A s \in Sessions : call[s].op \notin Saving]
    /\ UNCHANGED <<kind, vetted, buried, tagVars, call>>

SetHidden(h) == WriteHidden(h) /\ Counted

HideArticle == kind = "article" /\ SetHidden(TRUE)
UnhideArticle == kind = "article" /\ SetHidden(FALSE)
HideSkill == kind = "skill" /\ SetHidden(TRUE)
UnhideSkill == kind = "skill" /\ SetHidden(FALSE)
HideMcpServer == kind = "mcp_server" /\ SetHidden(TRUE)
UnhideMcpServer == kind = "mcp_server" /\ SetHidden(FALSE)

-----------------------------------------------------------------------------
Moderate == \/ HideArticle \/ UnhideArticle
            \/ HideSkill \/ UnhideSkill
            \/ HideMcpServer \/ UnhideMcpServer
ManageTags == \/ \E n \in Names : AdminCreateTag(n)
              \/ \E i \in Tags : AdminUpdateTag(i)
Write(s) == \/ ArticleCreate(s) \/ SkillCreate(s) \/ McpCreate(s)
            \/ ArticleUpdate(s) \/ SkillUpdate(s) \/ McpUpdate(s)
            \/ ArticleDelete(s) \/ SkillDelete(s) \/ McpDelete(s)
            \/ FindTags(s) \/ OpenUpdate(s) \/ Commit(s) \/ CommitDelete(s)
            \/ Fail(s)
ChangeStatus(s) == \/ SkillSubmit(s) \/ SkillWithdraw(s) \/ SkillArchive(s)
                   \/ McpSubmit(s) \/ McpWithdraw(s) \/ McpArchive(s)
                   \/ ReviewSkill(s) \/ ReviewMcpServer(s)
                   \/ SaveStatus(s)
DropTag(s) == (\E i \in Tags : CountTagUsage(s, i)) \/ AdminDeleteTag(s)

Next == \/ \E s \in Sessions : Write(s) \/ ChangeStatus(s) \/ DropTag(s)
        \/ Moderate
        \/ ManageTags

Spec == Init /\ [][Next]_vars

-----------------------------------------------------------------------------
(* What an item is owed.                                                   *)

\* Nothing of a skill or an MCP server is public that no administrator
\* approved and its author did not write over a published copy: an approval
\* that overlaps a withdrawal and an edit publishes the text the
\* administrator's handler read (ReviewSkill, ReviewMcpServer).
PublicWasVetted ==
    kind # "article" /\ row.status = "published" => row.text \in vetted

\* A hide or unhide made while no handler held a copy of the row stays until
\* the next one, whatever is saved, deleted and saved again after it.
ModerationStands == standing.firm => row.hidden = standing.hidden

\* An item deleted while no handler held a copy of its row stays deleted:
\* only a Save that had read it before brings it back.
DeletedForGood == buried => row.life = "deleted"

\* usage_count is the number of links, through failed transactions, deletions
\* and tags made on the way, but for tags some edit counted from links that
\* another request had rewritten.
UsageCountsLinks ==
    \A i \in LiveTags \ drifted : usage[i] = IF i \in links THEN 1 ELSE 0

\* A link names a tag that exists, unless it was committed between the count
\* and the deletion of TagService.AdminDelete.
LinksNameTags == links \subseteq LiveTags \union raced

-----------------------------------------------------------------------------
(* Why it holds: what every request in progress knows.                     *)

Holding == Saving \union {"create"}

\* No request but the creation precedes the row, and there is one creation.
BeforeTheRow ==
    /\ row.life = "unborn" =>
          /\ row = Blank /\ ~buried
          /\ standing = [hidden |-> FALSE, firm |-> TRUE]
          /\ \A s \in Sessions : call[s].op \in {"idle", "create", "drop_tag"}
    /\ \A s \in Sessions : call[s].op = "create" =>
          /\ row.life = "unborn"
          /\ \A t \in Sessions \ {s} : call[t].op # "create"
    /\ \A s \in Sessions :
          call[s].stage = "written" => call[s].op \in {"create", "update"}

\* Articles know neither a review nor an archive.
ArticlesAreNotReviewed ==
    kind = "article" =>
        /\ row.status \in ArticleStatus
        /\ \A s \in Sessions :
              /\ call[s].op \notin Changes
              /\ call[s].op \in Holding => call[s].copy.status \in ArticleStatus

\* Whoever will write the row back holds the moderation that stands, and no
\* copy survives the deletion that is for good.
CopiesAgree ==
    \A s \in Sessions : call[s].op \in Holding =>
        /\ standing.firm => call[s].copy.hidden = standing.hidden
        /\ ~buried

\* A tag without a row is neither counted nor known as an old tag; a tag gone
\* is in hand only if a race was noted, and so is a link to one being dropped.
TagsInHand ==
    /\ \A i \in Tags : tag[i] = "unborn" =>
          /\ usage[i] = 0 /\ i \notin links
          /\ \A s \in Sessions : i \notin call[s].old
    /\ \A s \in Sessions :
          /\ \A i \in call[s].new : tag[i] = "gone" => i \in raced
          /\ call[s].op = "drop_tag" => call[s].old \intersect links \subseteq raced

\* The inductive invariant.
IInv ==
    /\ TypeOK
    /\ PublicWasVetted /\ ModerationStands /\ DeletedForGood
    /\ UsageCountsLinks /\ LinksNameTags
    /\ BeforeTheRow /\ ArticlesAreNotReviewed /\ CopiesAgree /\ TagsInHand
=============================================================================
