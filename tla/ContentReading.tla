---------------------------- MODULE ContentReading ----------------------------
(***************************************************************************)
(* Reading the item of Content: the public lists, the search, the item's   *)
(* own page, the author's list, the administrators' lists, and the MCP     *)
(* tools that answer from them: internal/service/{article,skill,           *)
(* mcp_server,search,admin}.go, internal/repo, internal/mcpserver.         *)
(*                                                                         *)
(* No answer is one query.  A list asks for ids, then for the rows with    *)
(* those ids, then for a total; a search counts and then finds; then the   *)
(* links are read, and then the tags they name.  There is no transaction   *)
(* around the queries, so every writer of Content may come in between, and *)
(* each query repeats the filter by hand, or does not.                     *)
(*                                                                         *)
(* The item is on the page asked for and matches its keyword, tag and      *)
(* author; pages, sorting and wording are left out.  Showing an item's     *)
(* page also counts its views (Engagement) and scores it (ContentRanking). *)
(***************************************************************************)
EXTENDS Content

VARIABLE view  \* the read request in progress, or its answer

readVars == <<vars, view>>

Readers == {"list", "search", "page", "author", "admin"}

\* hit, text: the item is in the answer, and what the answer says; counted:
\* it is in the total; links, blank: its links, and those that name no tag.
\* seen, calm: history - the texts that were public since the request began,
\* and whether the row has stayed as it was.
NoView == [by |-> "nobody", stage |-> "idle", hit |-> FALSE,
           text |-> Blank.text, counted |-> FALSE, links |-> {}, blank |-> {},
           seen |-> {}, calm |-> TRUE]

Reading == [by : Readers \union {"nobody"},
            stage : {"idle", "rows", "count", "find", "links", "names",
                     "shown"},
            hit : BOOLEAN, text : Texts, counted : BOOLEAN,
            links : SUBSET Tags, blank : SUBSET Tags,
            seen : SUBSET Texts, calm : BOOLEAN]

ViewOK == view \in Reading

ReadInit == Init /\ view = NoView

\* Every query but an Unscoped one leaves deleted rows out.
Live == row.life = "live"
Published == Live /\ row.status = "published"
\* Mutant: the filter without the hidden column.
PublishedRow == row.life = "live" /\ row.status = "published"
\* The filter of baseQuery, of the lists' first query and of the searches, and
\* what canView lets a stranger see.
PublicRow == row.life = "live" /\ row.status = "published" /\ ~row.hidden

Same == UNCHANGED <<rowVars, tagVars, call>>

\* The first query of a request.
Ask(k, v) ==
    /\ kind = k
    /\ view.stage = "idle"
    /\ row.life # "unborn"
    /\ Counted
    /\ view' = [v EXCEPT !.seen = IF PublicRow THEN {row.text} ELSE {}]
    /\ Same

\* A later one.
Step(k, stage, v) ==
    /\ kind = k
    /\ view.stage = stage
    /\ view' = v
    /\ UNCHANGED calls
    /\ Same

\* An answer with the item in it goes on to the item's tags.
Tagged(v) == [v EXCEPT !.stage = IF v.hit THEN "links" ELSE "shown"]
Hit(v, found) == [v EXCEPT !.hit = found,
                           !.text = IF found THEN row.text ELSE @]

-----------------------------------------------------------------------------
(* The repositories.                                                       *)

\* List: the ids of the public rows ...
SelectIds(k) ==
    Ask(k, [NoView EXCEPT !.by = "list", !.hit = PublicRow,
                          !.stage = IF PublicRow THEN "rows" ELSE "count"])
\* ... the rows with these ids, public or not ...
SelectRows(k) == Step(k, "rows", [Hit(view, Live) EXCEPT !.stage = "count"])
\* ... and how many rows are public.
CountPublic(k, test) ==
    Step(k, "count", Tagged([view EXCEPT !.counted = test]))

ArticleCount == CountPublic("article", PublicRow)
SkillCount == CountPublic("skill", PublicRow)
McpServerCount == CountPublic("mcp_server", PublicRow)

ArticleSelect == SelectIds("article") \/ SelectRows("article") \/ ArticleCount
SkillSelect == SelectIds("skill") \/ SelectRows("skill") \/ SkillCount
McpServerSelect ==
    SelectIds("mcp_server") \/ SelectRows("mcp_server") \/ McpServerCount

\* The others count the rows of their filter, then find them.
CountThenFind(k, by, test) ==
    \/ Ask(k, [NoView EXCEPT !.by = by, !.stage = "find", !.counted = test])
    \/ /\ view.by = by
       /\ Step(k, "find", IF by = "admin"
                          THEN [Hit(view, test) EXCEPT !.stage = "shown"]
                          ELSE Tagged(Hit(view, test)))

\* Mutant: a search finds hidden skills too.
SearchAllSkills == CountThenFind("skill", "search", PublishedRow)

SearchArticles == CountThenFind("article", "search", PublicRow)
SearchSkills == CountThenFind("skill", "search", PublicRow)
SearchMcpServers == CountThenFind("mcp_server", "search", PublicRow)

ArticleSelectOwned == CountThenFind("article", "author", Live)
SkillSelectOwned == CountThenFind("skill", "author", Live)
McpServerSelectOwned == CountThenFind("mcp_server", "author", Live)

\* Administrators see what is hidden, and of articles only what is published.
ArticleAdminList == CountThenFind("article", "admin", Published)
SkillAdminList == CountThenFind("skill", "admin", Live)
McpServerAdminList == CountThenFind("mcp_server", "admin", Live)

\* The links, and then the tags with their ids, enabled or not; a link to no
\* tag is shown as a tag without a name.
Links(k) == Step(k, "links", [view EXCEPT !.links = links, !.stage = "names"])
TagNames(k) == Step(k, "names", [view EXCEPT !.blank = view.links \ LiveTags,
                                             !.stage = "shown"])
TagsForArticles == Links("article") \/ TagNames("article")
TagsForSkills == Links("skill") \/ TagNames("skill")
TagsForMcpServers == Links("mcp_server") \/ TagNames("mcp_server")

-----------------------------------------------------------------------------
(* The services.                                                           *)

ArticleList == ArticleSelect \/ TagsForArticles
SkillList == SkillSelect \/ TagsForSkills
McpServerList == McpServerSelect \/ TagsForMcpServers

ArticleListOwned == ArticleSelectOwned \/ TagsForArticles
SkillListOwned == SkillSelectOwned \/ TagsForSkills
McpServerListOwned == McpServerSelectOwned \/ TagsForMcpServers

ArticleSearchResults == SearchArticles \/ TagsForArticles
SkillSearchResults == SearchSkills \/ TagsForSkills
McpServerSearchResults == SearchMcpServers \/ TagsForMcpServers
Search == \/ ArticleSearchResults
          \/ SkillSearchResults
          \/ McpServerSearchResults

\* One row, read by its id and then judged.
Fetch(k, by, test) ==
    Ask(k, IF by = "admin"
           THEN [Hit(NoView, test) EXCEPT !.by = by, !.counted = test,
                                          !.stage = "shown"]
           ELSE Tagged([Hit(NoView, test) EXCEPT !.by = by, !.counted = test]))

\* canView: the author sees the item in any state.
Detail(k) == Fetch(k, "page", PublicRow) \/ Fetch(k, "author", Live)
ArticleDetail == Detail("article") \/ TagsForArticles
SkillDetail == Detail("skill") \/ TagsForSkills
McpServerDetail == Detail("mcp_server") \/ TagsForMcpServers

AdminGetArticle == Fetch("article", "admin", Published)
AdminGetSkill == Fetch("skill", "admin", Live)
AdminGetMcpServer == Fetch("mcp_server", "admin", Live)

AdminRead == \/ ArticleAdminList \/ SkillAdminList \/ McpServerAdminList
             \/ AdminGetArticle \/ AdminGetSkill \/ AdminGetMcpServer

-----------------------------------------------------------------------------
(* The MCP tools, which answer from the services and read as strangers.    *)

Lists == ArticleList \/ SkillList \/ McpServerList
searchLatest == Lists
searchContent == Search \/ searchLatest
browseListed == Lists
listMyContent == ArticleListOwned \/ SkillListOwned \/ McpServerListOwned
getArticle == Fetch("article", "page", PublicRow) \/ TagsForArticles
getSkill == Fetch("skill", "page", PublicRow) \/ TagsForSkills
getMCPServer == Fetch("mcp_server", "page", PublicRow) \/ TagsForMcpServers
Tools == \/ searchContent \/ browseListed \/ listMyContent
         \/ getArticle \/ getSkill \/ getMCPServer

-----------------------------------------------------------------------------
\* The answer leaves, or a query fails and the request with it.
Answer ==
    /\ view.stage # "idle"
    /\ view' = NoView
    /\ UNCHANGED <<vars>>

Read == \/ ArticleDetail \/ SkillDetail \/ McpServerDetail
        \/ AdminRead
        \/ Tools
        \/ Answer

\* A writer's step, seen by the history of the read in progress.
Written ==
    /\ Next
    /\ view' = IF view.stage = "idle" THEN view
               ELSE [view EXCEPT !.seen = @ \union
                                    (IF PublicRow' THEN {row'.text} ELSE {}),
                                 !.calm = @ /\ row' = row]

ReadNext == Read \/ Written
ReadSpec == ReadInit /\ [][ReadNext]_readVars

-----------------------------------------------------------------------------
\* A stranger is told of an item only if it was public at some moment of the
\* request, and is told a text that was public then, except that a list's
\* second query does not repeat the filter and tells what the row has become.
\* And if the row stayed as it was, every reader agrees: lists, searches,
\* pages and totals have it exactly when it is published and not hidden, its
\* author as long as it is there, an administrator whenever there is a
\* verdict to give on it.
ReadersAgree ==
    view.stage = "shown" =>
        /\ view.hit /\ view.by \in {"list", "search", "page"} =>
              /\ view.seen # {}
              /\ view.by # "list" => view.text \in view.seen
        /\ view.calm =>
              /\ view.hit = view.counted
              /\ view.by \in {"list", "search", "page"} =>
                    view.hit = PublicRow
              /\ view.by = "author" => view.hit = Live
              /\ view.by = "admin" /\ Live
                    /\ row.status \in {"published", "pending_review"} =>
                    view.hit

\* usage_count is the number of links but for the drift of overlapping edits;
\* a link names a tag that exists, and a reader is shown its name, but for the
\* race of TagService.AdminDelete and for tags dropped and deleted between the
\* reader's two queries.
TagsMatchLinks ==
    /\ UsageCountsLinks
    /\ LinksNameTags
    /\ view.blank \subseteq raced \union (Tags \ links)

-----------------------------------------------------------------------------
(* Why it holds: what a read in progress may rely on.                      *)

\* What an answer to the reader should say if nothing changes meanwhile.
Expected(by) == CASE by = "author" -> Live
                  [] by = "admin" -> IF kind = "article" THEN Published ELSE Live
                  [] OTHER -> PublicRow

\* The stages are those of the reader's queries; what it has found is public
\* or was; and while the row stays as it is, it is what is expected.
ViewFits ==
    /\ view.stage \in {"rows", "count"} => view.by = "list"
    /\ view.stage = "find" =>
          view.by \in {"search", "author", "admin"} /\ ~view.hit
    /\ view.stage # "idle" /\ PublicRow => row.text \in view.seen
    /\ view.by = "list" /\ (view.stage = "rows" \/ view.hit) =>
          view.seen # {}
    /\ view.by \in {"search", "page"} /\ view.hit => view.text \in view.seen
    /\ view.calm =>
          /\ view.stage = "rows" => PublicRow
          /\ view.stage = "count" => view.hit = PublicRow
          /\ view.stage = "find" => view.counted = Expected(view.by)
          /\ view.stage \in {"links", "names", "shown"} =>
                view.hit = Expected(view.by) /\ view.counted = Expected(view.by)

\* The links it has read once named tags; the nameless ones are gone.
LinksWereTags == /\ \A i \in view.links : tag[i] # "unborn"
                 /\ \A i \in view.blank : tag[i] = "gone"

\* The inductive invariant of the item and its reader.
ReadIInv == /\ IInv
            /\ ViewOK /\ ViewFits /\ LinksWereTags
            /\ TagsMatchLinks /\ ReadersAgree
=============================================================================
