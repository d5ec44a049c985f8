---------------------------- MODULE Content_proofs ----------------------------
(***************************************************************************)
(* Machine-checked proofs about Content, for any number of requests, any   *)
(* texts, and any tags and names.                                          *)
(***************************************************************************)
EXTENDS ContentReading, Reports, TLAPS

USE ContentAssumption

-----------------------------------------------------------------------------
(* Types.                                                                  *)

LEMMA BlankIsARow == /\ Blank \in Row
                     /\ Blank.life = "unborn" /\ Blank.status = "draft"
                     /\ Blank.hidden = FALSE
  <1>1. (CHOOSE x \in Texts : TRUE) \in Texts
    OBVIOUS
  <1> QED
    BY <1>1 DEF Blank, Row, Status

\* A tag list stands for enabled tags and for tags still to be made.
LEMMA TagSetsAreTags ==
  ASSUME NEW new \in TagSets
  PROVE  new \subseteq {i \in Tags : tag[i] \in {"enabled", "unborn"}}
  <1>1. PICK ids \in SUBSET Enabled,
             found \in SUBSET {n \in Names : Named(n) # {}},
             made \in SUBSET {n \in Names : Named(n) = {} /\ Unborn(n) # {}} :
          new = TagSet(ids, found, made)
    BY DEF TagSets
  <1> DEFINE old == UNION {Named(n) \intersect Enabled : n \in found}
             fresh == {CHOOSE i \in Unborn(n) : TRUE : n \in made}
  <1>2. \A n \in made : (CHOOSE i \in Unborn(n) : TRUE) \in Unborn(n)
    OBVIOUS
  <1>3. ids \subseteq Enabled /\ old \subseteq Enabled
    OBVIOUS
  <1>4. fresh \subseteq {i \in Tags : tag[i] = "unborn"}
    BY <1>2 DEF Unborn
  <1>5. new = ids \union old \union fresh
    BY <1>1 DEF TagSet
  <1> HIDE DEF old, fresh
  <1> QED
    BY <1>3, <1>4, <1>5 DEF Enabled

\* Resolving a request's tags makes some of them, at once or at the commit.
LEMMA ResolvingMakesTags ==
  ASSUME NEW new \in SUBSET Tags, ResolveTagSet(new)
  PROVE  /\ tag' = tag \/ tag' = CreateTags(new)
         /\ \A i \in new : tag[i] \in {"enabled", "unborn"}
  BY TagSetsAreTags DEF ResolveTagSet, ArticleResolveTagSet,
     SkillResolveTagSet, McpResolveTagSet

LEMMA InitIInv == Init => IInv
  <1> SUFFICES ASSUME Init
               PROVE  IInv
    OBVIOUS
  <1> USE BlankIsARow DEF Init
  <1>1. TypeOK
    <2>1. row \in Row /\ \A s \in Sessions : call[s].copy \in Row
      BY DEF Idle
    <2>2. call \in [Sessions -> Request]
      BY DEF Idle, Request
    <2>3. calls \in 0..MaxCalls /\ usage \in [Tags -> Int]
      OBVIOUS
    <2>4. standing \in [hidden : BOOLEAN, firm : BOOLEAN] /\ buried \in BOOLEAN
      OBVIOUS
    <2>5. tag \in [Tags -> {"unborn", "enabled", "disabled", "gone"}]
      OBVIOUS
    <2>6. kind \in Kinds /\ links \subseteq Tags /\ vetted \subseteq Texts
      OBVIOUS
    <2>7. drifted \subseteq Tags /\ raced \subseteq Tags
      OBVIOUS
    <2> QED
      BY ONLY <2>1, <2>2, <2>3, <2>4, <2>5, <2>6, <2>7 DEF TypeOK
  <1>2. PublicWasVetted /\ ModerationStands /\ DeletedForGood
    BY DEF PublicWasVetted, ModerationStands, DeletedForGood
  <1>3. UsageCountsLinks /\ LinksNameTags /\ TagsInHand
    BY DEF UsageCountsLinks, LinksNameTags, TagsInHand, LiveTags, Idle
  <1>4. BeforeTheRow /\ ArticlesAreNotReviewed /\ CopiesAgree
    BY DEF BeforeTheRow, ArticlesAreNotReviewed, CopiesAgree, Idle,
           ArticleStatus, Holding, Saving, Changes, Target
  <1> QED
    BY <1>1, <1>2, <1>3, <1>4 DEF IInv

LEMMA OperationNames ==
  /\ Changes = {"submit", "withdraw", "archive", "approve", "reject"}
  /\ Saving = {"submit", "withdraw", "archive", "approve", "reject", "update"}
  /\ Holding = {"submit", "withdraw", "archive", "approve", "reject",
                "update", "create"}
  BY DEF Holding, Saving, Changes, Target

LEMMA ChangesWriteAStatus ==
  ASSUME NEW op \in Changes
  PROVE  /\ Target[op] \in Status
         /\ Target[op] = "published" => op = "approve"
  BY DEF Changes, Target, Status

-----------------------------------------------------------------------------
(* One lemma for each way a step can go.                                   *)

LEMMA IdleIsARequest == Idle \in Request
  BY BlankIsARow DEF Idle, Request

\* What the handlers change of their requests.
LEMMA RequestFindsTags ==
  ASSUME NEW c \in Request, NEW old \in SUBSET Tags
  PROVE  [c EXCEPT !.stage = "tags", !.old = old] \in Request
  BY DEF Request

LEMMA RequestOpens ==
  ASSUME NEW c \in Request, NEW x \in Texts, NEW st \in Status,
         NEW new \in SUBSET Tags
  PROVE  /\ Opened(c, x, st, new) \in Request
         /\ Opened(c, x, st, new).op = c.op
         /\ Opened(c, x, st, new).stage = "written"
         /\ Opened(c, x, st, new).old = c.old
         /\ Opened(c, x, st, new).new = new
         /\ Opened(c, x, st, new).copy.status = st
         /\ Opened(c, x, st, new).copy.hidden = c.copy.hidden
  <1>1. c.copy \in Row
    BY DEF Request
  <1>2. /\ Edited(c.copy, x, st) \in Row
        /\ Edited(c.copy, x, st).status = st
        /\ Edited(c.copy, x, st).hidden = c.copy.hidden
    BY <1>1 DEF Row, Edited
  <1> QED
    BY <1>2 DEF Request, Opened

LEMMA CommitKeeps ==
  ASSUME IInv, NEW s \in Sessions, Commit(s)
  PROVE  IInv'
  <1> USE BlankIsARow, IdleIsARequest, OperationNames DEF IInv, TypeOK, Request
  <1>1. TypeOK'
    BY DEF Commit, Finish, Saved, SetTags, CreateTags, Idle, Row
  <1>2. call[s].op \in {"create", "update"} /\ row'.life = "live" /\ ~buried
    BY DEF BeforeTheRow, CopiesAgree, Commit, Saved, Row
  <1>3. PublicWasVetted' /\ ModerationStands' /\ DeletedForGood'
    BY <1>2 DEF PublicWasVetted, ModerationStands, DeletedForGood, CopiesAgree,
                Commit, Saved, Row
  <1>4. BeforeTheRow' /\ CopiesAgree'
    BY <1>2 DEF BeforeTheRow, CopiesAgree, Commit, Finish, Idle, Row
  <1>5. ArticlesAreNotReviewed'
    BY <1>2 DEF ArticlesAreNotReviewed, Commit, Finish, Saved, Idle, Row
  <1>6. UsageCountsLinks'
    BY DEF UsageCountsLinks, TagsInHand, LiveTags, Commit, SetTags, CreateTags
  <1>7. LinksNameTags' /\ TagsInHand'
    BY DEF LinksNameTags, TagsInHand, LiveTags, Commit, SetTags, CreateTags,
           Finish, Idle
  <1> QED
    BY <1>1, <1>3, <1>4, <1>5, <1>6, <1>7

\* A transaction that resolves its tags does not disturb those of others.
LEMMA ResolvingKeepsTags ==
  ASSUME IInv, NEW s \in Sessions, NEW new \in SUBSET Tags,
         tag' = tag \/ tag' = CreateTags(new),
         \A i \in new : tag[i] \in {"enabled", "unborn"},
         UNCHANGED <<links, usage, drifted, raced>>,
         call'[s].op # "drop_tag", call'[s].new = new,
         call'[s].old \in {{}, call[s].old},
         \A t \in Sessions \ {s} : call'[t] = call[t]
  PROVE  UsageCountsLinks' /\ LinksNameTags' /\ TagsInHand'
  <1> USE DEF IInv, TypeOK, Request
  <1>1. /\ \A i \in Tags : tag'[i] = "unborn" => tag[i] = "unborn"
        /\ \A i \in Tags : tag'[i] = "gone" => tag[i] = "gone"
        /\ \A i \in Tags : tag'[i] \in {"enabled", "disabled"} =>
                            tag[i] \in {"unborn", "enabled", "disabled"}
        /\ \A i \in Tags : tag[i] \in {"enabled", "disabled"} =>
                            tag'[i] \in {"enabled", "disabled"}
    BY DEF CreateTags
  <1>2. UsageCountsLinks'
    BY <1>1 DEF UsageCountsLinks, TagsInHand, LiveTags
  <1>3. LinksNameTags'
    BY <1>1 DEF LinksNameTags, LiveTags
  <1>4. \A t \in Sessions : \A i \in call'[t].new :
          tag'[i] = "gone" => i \in raced
    BY <1>1 DEF TagsInHand
  <1>5. \A t \in Sessions : /\ call'[t].op = "drop_tag" => call'[t] = call[t]
                            /\ call'[t].old \subseteq call[t].old
    OBVIOUS
  <1>6. TagsInHand'
    BY <1>1, <1>4, <1>5 DEF TagsInHand
  <1> QED
    BY <1>2, <1>3, <1>6

LEMMA CreateKeeps ==
  ASSUME IInv, NEW s \in Sessions, NEW k, NEW st \in ArticleStatus,
         CreateAs(s, k, st)
  PROVE  IInv'
  <1> USE BlankIsARow, IdleIsARequest, OperationNames DEF IInv, TypeOK
  <1>1. PICK x \in Texts, new \in SUBSET Tags :
          /\ ResolveTagSet(new)
          /\ call' = [call EXCEPT ![s] =
                Opened([Idle EXCEPT !.op = "create"], x, st, new)]
    BY DEF CreateAs
  <1>2. /\ tag' = tag \/ tag' = CreateTags(new)
        /\ \A i \in new : tag[i] \in {"enabled", "unborn"}
    BY <1>1, ResolvingMakesTags
  <1>3. /\ call'[s].op = "create" /\ call'[s].stage = "written"
        /\ call'[s] \in Request /\ call' = [call EXCEPT ![s] = call'[s]]
        /\ call'[s].copy.status = st
        /\ call'[s].copy.hidden = FALSE
        /\ call'[s].old = {} /\ call'[s].new = new
        /\ \A t \in Sessions \ {s} : call'[t] = call[t]
    <2> DEFINE c == [Idle EXCEPT !.op = "create"]
    <2>1. /\ c \in Request
          /\ c.op = "create" /\ c.old = {} /\ c.copy = Blank
      BY BlankIsARow DEF Idle, Request
    <2>2. st \in Status
      BY DEF ArticleStatus, Status
    <2> HIDE DEF c
    <2>3. call' = [call EXCEPT ![s] = Opened(c, x, st, new)]
      BY <1>1 DEF c
    <2> QED
      BY <2>1, <2>2, <2>3, RequestOpens
  <1>4. /\ row.life = "unborn" /\ \A t \in Sessions : call[t].op # "create"
        /\ UNCHANGED <<rowVars, links, usage, drifted, raced, calls>>
    BY DEF CreateAs
  <1>5. TypeOK'
    <2>1. call' \in [Sessions -> Request]
      BY <1>3
    <2> QED
      BY <1>2, <1>4, <2>1 DEF CreateTags, rowVars
  <1>6. PublicWasVetted' /\ ModerationStands' /\ DeletedForGood'
    BY <1>4 DEF PublicWasVetted, ModerationStands, DeletedForGood, rowVars
  <1>7. BeforeTheRow'
    BY <1>3, <1>4 DEF BeforeTheRow, rowVars
  <1>8. CopiesAgree'
    <2>1. /\ ~buried /\ ~standing.hidden
          /\ \A t \in Sessions : call[t].op \notin Holding
      BY <1>4 DEF BeforeTheRow
    <2> QED
      BY <1>3, <1>4, <2>1 DEF CopiesAgree, rowVars
  <1>9. ArticlesAreNotReviewed'
    BY <1>3, <1>4 DEF ArticlesAreNotReviewed, rowVars
  <1>10. UsageCountsLinks' /\ LinksNameTags' /\ TagsInHand'
    BY <1>2, <1>3, <1>4, ResolvingKeepsTags
  <1> QED
    BY <1>5, <1>6, <1>7, <1>8, <1>9, <1>10

LEMMA ReadForKeeps ==
  ASSUME IInv, NEW s \in Sessions, NEW op \in Saving, NEW k, NEW from,
         ReadFor(s, op, k, from), k = "article" => op = "update"
  PROVE  IInv'
  <1> USE BlankIsARow, IdleIsARequest, OperationNames
          DEF IInv, TypeOK, ReadFor, Start, Counted, rowVars, tagVars
  <1>1. TypeOK'
    <2>1. [Idle EXCEPT !.op = op, !.copy = row] \in Request
      BY DEF Idle, Request
    <2> QED
      BY <2>1
  <1>2. PublicWasVetted' /\ ModerationStands' /\ DeletedForGood'
    BY DEF PublicWasVetted, ModerationStands, DeletedForGood
  <1>3. BeforeTheRow' /\ CopiesAgree' /\ ArticlesAreNotReviewed'
    BY DEF BeforeTheRow, CopiesAgree, ArticlesAreNotReviewed, Idle,
           ModerationStands, DeletedForGood
  <1>4. UsageCountsLinks' /\ LinksNameTags' /\ TagsInHand'
    BY DEF UsageCountsLinks, LinksNameTags, TagsInHand, LiveTags, Idle
  <1> QED
    BY <1>1, <1>2, <1>3, <1>4

LEMMA FindTagsKeeps ==
  ASSUME IInv, NEW s \in Sessions, FindTags(s)
  PROVE  IInv'
  <1> USE OperationNames DEF IInv, TypeOK, FindTags, rowVars, tagVars
  <1>1. TypeOK'
    <2>1. [call[s] EXCEPT !.stage = "tags", !.old = links] \in Request
      BY RequestFindsTags
    <2>2. call' = [call EXCEPT ![s] =
                      [call[s] EXCEPT !.stage = "tags", !.old = links]]
      OBVIOUS
    <2> QED
      BY <2>1, <2>2
  <1>2. PublicWasVetted' /\ ModerationStands' /\ DeletedForGood'
    BY DEF PublicWasVetted, ModerationStands, DeletedForGood
  <1>3. BeforeTheRow' /\ CopiesAgree' /\ ArticlesAreNotReviewed'
    BY DEF BeforeTheRow, CopiesAgree, ArticlesAreNotReviewed
  <1>4. UsageCountsLinks' /\ LinksNameTags' /\ TagsInHand'
    BY DEF UsageCountsLinks, LinksNameTags, TagsInHand, LiveTags
  <1> QED
    BY <1>1, <1>2, <1>3, <1>4

LEMMA OpenUpdateKeeps ==
  ASSUME IInv, NEW s \in Sessions, OpenUpdate(s)
  PROVE  IInv'
  <1> USE OperationNames DEF IInv, TypeOK
  <1>1. PICK x \in Texts, new \in SUBSET Tags,
             st \in IF kind = "article" THEN ArticleStatus
                                        ELSE {call[s].copy.status} :
          /\ ResolveTagSet(new)
          /\ call' = [call EXCEPT ![s] = Opened(call[s], x, st, new)]
    BY DEF OpenUpdate
  <1>2. /\ tag' = tag \/ tag' = CreateTags(new)
        /\ \A i \in new : tag[i] \in {"enabled", "unborn"}
    BY <1>1, ResolvingMakesTags
  <1>3. st \in Status /\ (kind = "article" => st \in ArticleStatus)
    BY <1>1 DEF Request, Row, ArticleStatus, Status
  <1>4. /\ call'[s].op = "update" /\ call'[s].stage = "written"
        /\ call'[s] \in Request /\ call' = [call EXCEPT ![s] = call'[s]]
        /\ call'[s].copy.status = st
        /\ call'[s].copy.hidden = call[s].copy.hidden
        /\ call'[s].old = call[s].old /\ call'[s].new = new
        /\ \A t \in Sessions \ {s} : call'[t] = call[t]
    BY <1>1, <1>3, RequestOpens DEF OpenUpdate
  <1>5. /\ call[s].op = "update"
        /\ UNCHANGED <<rowVars, links, usage, drifted, raced, calls>>
    BY DEF OpenUpdate
  <1>6. TypeOK'
    <2>1. call' \in [Sessions -> Request]
      BY <1>4
    <2> QED
      BY <1>2, <1>5, <2>1 DEF CreateTags, rowVars
  <1>7. PublicWasVetted' /\ ModerationStands' /\ DeletedForGood'
    BY <1>5 DEF PublicWasVetted, ModerationStands, DeletedForGood, rowVars
  <1>8. BeforeTheRow' /\ CopiesAgree' /\ ArticlesAreNotReviewed'
    BY <1>3, <1>4, <1>5 DEF BeforeTheRow, CopiesAgree, ArticlesAreNotReviewed,
       rowVars
  <1>9. UsageCountsLinks' /\ LinksNameTags' /\ TagsInHand'
    BY <1>2, <1>4, <1>5, ResolvingKeepsTags
  <1> QED
    BY <1>6, <1>7, <1>8, <1>9

LEMMA DeleteKeeps ==
  ASSUME IInv, NEW s \in Sessions, NEW k, DeleteAs(s, k)
  PROVE  IInv'
  <1> USE BlankIsARow, IdleIsARequest, OperationNames
          DEF IInv, TypeOK, DeleteAs, Start, Counted, rowVars, tagVars
  <1>1. TypeOK'
    <2>1. [Idle EXCEPT !.op = "delete"] \in Request
      BY DEF Idle, Request
    <2> QED
      BY <2>1
  <1>2. PublicWasVetted' /\ ModerationStands' /\ DeletedForGood'
    BY DEF PublicWasVetted, ModerationStands, DeletedForGood
  <1>3. BeforeTheRow' /\ CopiesAgree' /\ ArticlesAreNotReviewed'
    BY DEF BeforeTheRow, CopiesAgree, ArticlesAreNotReviewed, Idle
  <1>4. UsageCountsLinks' /\ LinksNameTags' /\ TagsInHand'
    BY DEF UsageCountsLinks, LinksNameTags, TagsInHand, LiveTags, Idle
  <1> QED
    BY <1>1, <1>2, <1>3, <1>4

LEMMA CommitDeleteKeeps ==
  ASSUME IInv, NEW s \in Sessions, CommitDelete(s)
  PROVE  IInv'
  <1> USE BlankIsARow, IdleIsARequest, OperationNames DEF IInv, TypeOK, Request
  <1>1. TypeOK'
    BY DEF CommitDelete, Finish, SetTags, CreateTags, Idle, Row
  <1>2. row.life # "unborn" /\ row'.life = "deleted"
    BY DEF BeforeTheRow, CommitDelete, Row
  <1>3. PublicWasVetted' /\ ModerationStands' /\ DeletedForGood'
    BY <1>2 DEF PublicWasVetted, ModerationStands, DeletedForGood,
                CommitDelete, Row
  <1>4. BeforeTheRow' /\ ArticlesAreNotReviewed'
    BY <1>2 DEF BeforeTheRow, ArticlesAreNotReviewed, CommitDelete, Finish,
                Idle, Row
  <1>5. CopiesAgree'
    BY <1>2 DEF CopiesAgree, BeforeTheRow, CommitDelete, NoCopies, Finish, Idle
  <1>6. UsageCountsLinks'
    BY DEF UsageCountsLinks, TagsInHand, LiveTags, CommitDelete, SetTags,
           CreateTags
  <1>7. LinksNameTags' /\ TagsInHand'
    BY DEF LinksNameTags, TagsInHand, LiveTags, CommitDelete, SetTags,
           CreateTags, Finish, Idle
  <1> QED
    BY <1>1, <1>3, <1>4, <1>5, <1>6, <1>7

LEMMA FailKeeps ==
  ASSUME IInv, NEW s \in Sessions, Fail(s)
  PROVE  IInv'
  <1> USE BlankIsARow, IdleIsARequest, OperationNames
          DEF IInv, TypeOK, Fail, Finish, rowVars, tagVars
  <1>1. TypeOK'
    BY DEF Idle
  <1>2. PublicWasVetted' /\ ModerationStands' /\ DeletedForGood'
    BY DEF PublicWasVetted, ModerationStands, DeletedForGood
  <1>3. BeforeTheRow' /\ CopiesAgree' /\ ArticlesAreNotReviewed'
    BY DEF BeforeTheRow, CopiesAgree, ArticlesAreNotReviewed, Idle
  <1>4. UsageCountsLinks' /\ LinksNameTags' /\ TagsInHand'
    BY DEF UsageCountsLinks, LinksNameTags, TagsInHand, LiveTags, Idle
  <1> QED
    BY <1>1, <1>2, <1>3, <1>4

LEMMA SaveStatusKeeps ==
  ASSUME IInv, NEW s \in Sessions, SaveStatus(s)
  PROVE  IInv'
  <1> USE BlankIsARow, IdleIsARequest, OperationNames DEF IInv, TypeOK
  <1>1. /\ call[s].op \in Changes /\ call[s].op \in Holding
        /\ kind # "article" /\ row.life # "unborn"
        /\ call[s].copy \in Row
    BY DEF SaveStatus, ArticlesAreNotReviewed, BeforeTheRow, Request
  <1>2. /\ row' \in Row /\ row'.life = "live"
        /\ row'.status = Target[call[s].op]
        /\ row'.hidden = call[s].copy.hidden
        /\ row'.text = call[s].copy.text
    <2> DEFINE r == [call[s].copy EXCEPT !.status = Target[call[s].op]]
    <2>1. Target[call[s].op] \in Status
      BY <1>1, ChangesWriteAStatus
    <2>2. /\ r \in Row /\ r.status = Target[call[s].op]
          /\ r.hidden = call[s].copy.hidden /\ r.text = call[s].copy.text
      BY <1>1, <2>1 DEF Row
    <2>3. row' = Saved(r)
      BY DEF SaveStatus, Rewritten
    <2> HIDE DEF r
    <2> QED
      BY <2>2, <2>3 DEF Saved, Row
  <1>3. /\ call' = [call EXCEPT ![s] = Idle] /\ calls' = calls
        /\ UNCHANGED <<kind, standing, buried, links, tag, usage, drifted, raced>>
        /\ vetted \subseteq vetted' /\ vetted' \subseteq Texts
        /\ call[s].op = "approve" => call[s].copy.text \in vetted'
    BY <1>1 DEF SaveStatus, Finish, tagVars, Row
  <1>4. TypeOK'
    BY <1>2, <1>3
  <1>5. PublicWasVetted'
    <2>1. row'.status = "published" => call[s].op = "approve"
      BY <1>1, <1>2, ChangesWriteAStatus
    <2> QED
      BY <1>2, <1>3, <2>1 DEF PublicWasVetted
  <1>5a. ModerationStands' /\ DeletedForGood'
    BY <1>1, <1>2, <1>3 DEF ModerationStands, DeletedForGood, CopiesAgree
  <1>6. BeforeTheRow' /\ CopiesAgree' /\ ArticlesAreNotReviewed'
    BY <1>1, <1>2, <1>3 DEF BeforeTheRow, CopiesAgree, ArticlesAreNotReviewed,
       Idle
  <1>7. UsageCountsLinks' /\ LinksNameTags' /\ TagsInHand'
    BY <1>3 DEF UsageCountsLinks, LinksNameTags, TagsInHand, LiveTags, Idle
  <1> QED
    BY <1>4, <1>5, <1>5a, <1>6, <1>7

\* Hiding, whoever does it: an administrator here, a report in Reports.
LEMMA WriteHiddenKeeps ==
  ASSUME IInv, NEW h \in BOOLEAN, WriteHidden(h), calls' \in 0..MaxCalls
  PROVE  IInv'
  <1> USE BlankIsARow, OperationNames DEF IInv, TypeOK
  <1>1. /\ row' \in Row /\ row.life = "live" /\ row'.life = "live"
        /\ row'.status = row.status /\ row'.text = row.text /\ row'.hidden = h
    BY DEF WriteHidden, Row
  <1>2. /\ UNCHANGED <<kind, vetted, buried, call, links, tag, usage, drifted,
                       raced>>
        /\ standing' = [hidden |-> h,
                        firm |-> \A s \in Sessions : call[s].op \notin Saving]
    BY DEF WriteHidden, tagVars
  <1>3. TypeOK'
    BY <1>1, <1>2
  <1>4. PublicWasVetted' /\ ModerationStands' /\ DeletedForGood'
    BY <1>1, <1>2 DEF PublicWasVetted, ModerationStands, DeletedForGood
  <1>5. BeforeTheRow' /\ ArticlesAreNotReviewed'
    BY <1>1, <1>2 DEF BeforeTheRow, ArticlesAreNotReviewed
  <1>6. CopiesAgree'
    BY <1>1, <1>2 DEF CopiesAgree, BeforeTheRow
  <1>7. UsageCountsLinks' /\ LinksNameTags' /\ TagsInHand'
    BY <1>2 DEF UsageCountsLinks, LinksNameTags, TagsInHand, LiveTags
  <1> QED
    BY <1>3, <1>4, <1>5, <1>6, <1>7

LEMMA AdminCreateTagKeeps ==
  ASSUME IInv, NEW n \in Names, AdminCreateTag(n)
  PROVE  IInv'
  <1> USE DEF IInv, TypeOK, rowVars
  <1>1. PICK i \in Unborn(n) : /\ \A s \in Sessions : i \notin call[s].new
                               /\ tag' = [tag EXCEPT ![i] = "enabled"]
    BY DEF AdminCreateTag
  <1>2. i \in Tags /\ tag[i] = "unborn"
    BY DEF Unborn
  <1>3. /\ UNCHANGED <<rowVars, links, usage, drifted, raced, call>>
        /\ calls' \in 0..MaxCalls
    BY DEF AdminCreateTag, Counted
  <1>4. TypeOK'
    BY <1>1, <1>2, <1>3
  <1>5. PublicWasVetted' /\ ModerationStands' /\ DeletedForGood'
    BY <1>3 DEF PublicWasVetted, ModerationStands, DeletedForGood
  <1>6. BeforeTheRow' /\ CopiesAgree' /\ ArticlesAreNotReviewed'
    BY <1>3 DEF BeforeTheRow, CopiesAgree, ArticlesAreNotReviewed
  <1>7. UsageCountsLinks' /\ LinksNameTags' /\ TagsInHand'
    BY <1>1, <1>2, <1>3 DEF UsageCountsLinks, LinksNameTags, TagsInHand, LiveTags
  <1> QED
    BY <1>4, <1>5, <1>6, <1>7

LEMMA AdminUpdateTagKeeps ==
  ASSUME IInv, NEW i \in Tags, AdminUpdateTag(i)
  PROVE  IInv'
  <1> USE DEF IInv, TypeOK, rowVars
  <1>1. /\ tag' \in [Tags -> {"unborn", "enabled", "disabled", "gone"}]
        /\ LiveTags' = LiveTags
        /\ \A j \in Tags : /\ tag'[j] = "unborn" <=> tag[j] = "unborn"
                           /\ tag'[j] = "gone" <=> tag[j] = "gone"
    BY DEF AdminUpdateTag, LiveTags
  <1>2. /\ UNCHANGED <<rowVars, links, usage, drifted, raced, call>>
        /\ calls' \in 0..MaxCalls
    BY DEF AdminUpdateTag, Counted
  <1>3. TypeOK'
    BY <1>1, <1>2
  <1>4. PublicWasVetted' /\ ModerationStands' /\ DeletedForGood'
    BY <1>2 DEF PublicWasVetted, ModerationStands, DeletedForGood
  <1>5. BeforeTheRow' /\ CopiesAgree' /\ ArticlesAreNotReviewed'
    BY <1>2 DEF BeforeTheRow, CopiesAgree, ArticlesAreNotReviewed
  <1>6. UsageCountsLinks' /\ LinksNameTags'
    BY <1>1, <1>2 DEF UsageCountsLinks, LinksNameTags
  <1>7. TagsInHand'
    <2>1. \A t \in Sessions : call[t].new \subseteq Tags
      BY DEF Request
    <2> QED
      BY <1>1, <1>2, <2>1 DEF TagsInHand
  <1> QED
    BY <1>3, <1>4, <1>5, <1>6, <1>7

LEMMA CountTagUsageKeeps ==
  ASSUME IInv, NEW s \in Sessions, NEW i \in Tags, CountTagUsage(s, i)
  PROVE  IInv'
  <1> USE BlankIsARow, IdleIsARequest, OperationNames
          DEF IInv, TypeOK, rowVars, tagVars
  <1> DEFINE c == [Idle EXCEPT !.op = "drop_tag", !.old = {i}]
  <1>1. /\ c \in Request /\ c.op = "drop_tag" /\ c.old = {i} /\ c.new = {}
        /\ c.stage = "read"
    BY DEF Idle, Request
  <1>2. /\ call' = [call EXCEPT ![s] = c] /\ calls' \in 0..MaxCalls
        /\ i \in LiveTags \ links
        /\ UNCHANGED <<rowVars, tagVars>>
    BY DEF CountTagUsage, Start, Counted
  <1> HIDE DEF c
  <1>3. TypeOK'
    BY <1>1, <1>2
  <1>4. PublicWasVetted' /\ ModerationStands' /\ DeletedForGood'
    BY <1>2 DEF PublicWasVetted, ModerationStands, DeletedForGood
  <1>5. BeforeTheRow' /\ CopiesAgree' /\ ArticlesAreNotReviewed'
    BY <1>1, <1>2 DEF BeforeTheRow, CopiesAgree, ArticlesAreNotReviewed
  <1>6. UsageCountsLinks' /\ LinksNameTags'
    BY <1>2 DEF UsageCountsLinks, LinksNameTags, LiveTags
  <1>7. TagsInHand'
    BY <1>1, <1>2 DEF TagsInHand, LiveTags
  <1> QED
    BY <1>3, <1>4, <1>5, <1>6, <1>7

LEMMA AdminDeleteTagKeeps ==
  ASSUME IInv, NEW s \in Sessions, AdminDeleteTag(s)
  PROVE  IInv'
  <1> USE BlankIsARow, IdleIsARequest, OperationNames DEF IInv, TypeOK, rowVars
  <1> DEFINE gone == call[s].old
  <1>1. /\ call[s].op = "drop_tag" /\ gone \subseteq Tags
        /\ tag' = [i \in Tags |-> IF i \in gone THEN "gone" ELSE tag[i]]
        /\ raced' = raced \union
              {i \in gone : \E t \in Sessions : i \in call[t].new}
        /\ call' = [call EXCEPT ![s] = Idle] /\ calls' = calls
        /\ UNCHANGED <<rowVars, links, usage, drifted>>
    BY DEF AdminDeleteTag, Finish, Request
  <1>2. gone \intersect links \subseteq raced
    BY <1>1 DEF TagsInHand
  <1> HIDE DEF gone
  <1>3. TypeOK'
    BY <1>1
  <1>4. PublicWasVetted' /\ ModerationStands' /\ DeletedForGood'
    BY <1>1 DEF PublicWasVetted, ModerationStands, DeletedForGood
  <1>5. BeforeTheRow' /\ CopiesAgree' /\ ArticlesAreNotReviewed'
    BY <1>1 DEF BeforeTheRow, CopiesAgree, ArticlesAreNotReviewed, Idle
  <1>6. UsageCountsLinks' /\ LinksNameTags'
    BY <1>1, <1>2 DEF UsageCountsLinks, LinksNameTags, LiveTags
  <1>7. TagsInHand'
    <2>1. \A t \in Sessions : call[t].new \subseteq Tags
      BY DEF Request
    <2>2. \A t \in Sessions : \/ call'[t] = call[t]
                             \/ /\ call'[t].op = "idle"
                                /\ call'[t].new = {} /\ call'[t].old = {}
      BY <1>1 DEF Idle
    <2>3. \A i \in Tags : tag'[i] = "unborn" =>
            /\ usage'[i] = 0 /\ i \notin links'
            /\ \A t \in Sessions : i \notin call'[t].old
      BY <1>1, <2>2 DEF TagsInHand
    <2>4. \A t \in Sessions : \A i \in call'[t].new :
            tag'[i] = "gone" => i \in raced'
      BY <1>1, <2>1, <2>2 DEF TagsInHand
    <2>5. \A t \in Sessions : call'[t].op = "drop_tag" =>
            call'[t].old \intersect links' \subseteq raced'
      BY <1>1, <2>2 DEF TagsInHand
    <2> QED
      BY <2>3, <2>4, <2>5 DEF TagsInHand
  <1> QED
    BY <1>3, <1>4, <1>5, <1>6, <1>7

\* A step of somebody else.
LEMMA ElsewhereKeeps ==
  ASSUME IInv, UNCHANGED <<rowVars, tagVars, call>>, calls' \in 0..MaxCalls
  PROVE  IInv'
  BY DEF IInv, TypeOK, rowVars, tagVars, PublicWasVetted, ModerationStands,
     DeletedForGood, UsageCountsLinks, LinksNameTags, LiveTags, BeforeTheRow,
     ArticlesAreNotReviewed, CopiesAgree, TagsInHand

-----------------------------------------------------------------------------
(* Every step.                                                             *)

LEMMA WriteKeeps ==
  ASSUME IInv, NEW s \in Sessions, Write(s)
  PROVE  IInv'
  <1> USE OperationNames
  <1>1. CASE ArticleCreate(s)
    BY <1>1, CreateKeeps DEF ArticleCreate
  <1>2. CASE SkillCreate(s) \/ McpCreate(s)
    <2>1. "draft" \in ArticleStatus
      BY DEF ArticleStatus
    <2> QED
      BY <1>2, <2>1, CreateKeeps DEF SkillCreate, McpCreate
  <1>3. CASE ArticleUpdate(s) \/ SkillUpdate(s) \/ McpUpdate(s)
    BY <1>3, ReadForKeeps DEF ArticleUpdate, SkillUpdate, McpUpdate
  <1>4. CASE ArticleDelete(s) \/ SkillDelete(s) \/ McpDelete(s)
    BY <1>4, DeleteKeeps DEF ArticleDelete, SkillDelete, McpDelete
  <1>5. CASE FindTags(s) \/ OpenUpdate(s) \/ Commit(s) \/ CommitDelete(s)
             \/ Fail(s)
    BY <1>5, FindTagsKeeps, OpenUpdateKeeps, CommitKeeps, CommitDeleteKeeps,
       FailKeeps
  <1> QED
    BY <1>1, <1>2, <1>3, <1>4, <1>5 DEF Write

LEMMA ChangeStatusKeeps ==
  ASSUME IInv, NEW s \in Sessions, ChangeStatus(s)
  PROVE  IInv'
  <1> USE OperationNames
  <1>1. CASE SkillSubmit(s) \/ SkillWithdraw(s) \/ SkillArchive(s)
    BY <1>1, ReadForKeeps DEF SkillSubmit, SkillWithdraw, SkillArchive
  <1>2. CASE McpSubmit(s) \/ McpWithdraw(s) \/ McpArchive(s)
    BY <1>2, ReadForKeeps DEF McpSubmit, McpWithdraw, McpArchive
  <1>3. CASE ReviewSkill(s) \/ ReviewMcpServer(s)
    BY <1>3, ReadForKeeps DEF ReviewSkill, ReviewMcpServer
  <1>4. CASE SaveStatus(s)
    BY <1>4, SaveStatusKeeps
  <1> QED
    BY <1>1, <1>2, <1>3, <1>4 DEF ChangeStatus

LEMMA NextKeeps ==
  ASSUME IInv, [Next]_vars
  PROVE  IInv'
  <1>1. CASE \E s \in Sessions : Write(s) \/ ChangeStatus(s)
    BY <1>1, WriteKeeps, ChangeStatusKeeps
  <1>2. CASE \E s \in Sessions : DropTag(s)
    BY <1>2, CountTagUsageKeeps, AdminDeleteTagKeeps DEF DropTag
  <1>3. CASE Moderate
    <2>1. PICK h \in BOOLEAN : SetHidden(h)
      BY <1>3 DEF Moderate, HideArticle, UnhideArticle, HideSkill,
         UnhideSkill, HideMcpServer, UnhideMcpServer
    <2>2. calls' \in 0..MaxCalls
      BY <2>1 DEF SetHidden, Counted, IInv, TypeOK
    <2> QED
      BY <2>1, <2>2, WriteHiddenKeeps DEF SetHidden
  <1>4. CASE ManageTags
    BY <1>4, AdminCreateTagKeeps, AdminUpdateTagKeeps DEF ManageTags
  <1>5. CASE UNCHANGED vars
    BY <1>5, ElsewhereKeeps DEF vars, IInv, TypeOK
  <1> QED
    BY <1>1, <1>2, <1>3, <1>4, <1>5 DEF Next

\* Whatever requests overlap, each holds a copy and tags that fit the row.
THEOREM ContentInvariant == Spec => []IInv
  BY InitIInv, NextKeeps, PTL DEF Spec

-----------------------------------------------------------------------------
(* The reader.                                                             *)

LEMMA NoViewIsAReading ==
  /\ NoView \in Reading
  /\ NoView.by = "nobody" /\ NoView.stage = "idle" /\ ~NoView.hit
  /\ ~NoView.counted /\ NoView.links = {} /\ NoView.blank = {}
  /\ NoView.seen = {} /\ NoView.calm
  <1>1. Blank.text \in Texts
    BY BlankIsARow DEF Row
  <1> QED
    BY <1>1 DEF NoView, Reading, Readers

\* What the queries change of the answer.
LEMMA HitIs ==
  ASSUME IInv, NEW v \in Reading, NEW found \in BOOLEAN
  PROVE  /\ Hit(v, found) \in Reading
         /\ Hit(v, found).hit = found
         /\ Hit(v, found).text = IF found THEN row.text ELSE v.text
         /\ Hit(v, found).by = v.by /\ Hit(v, found).stage = v.stage
         /\ Hit(v, found).counted = v.counted
         /\ Hit(v, found).links = v.links /\ Hit(v, found).blank = v.blank
         /\ Hit(v, found).seen = v.seen /\ Hit(v, found).calm = v.calm
  <1>1. row.text \in Texts
    BY DEF IInv, TypeOK, Row
  <1> QED
    BY <1>1 DEF Hit, Reading

LEMMA TaggedIs ==
  ASSUME NEW v \in Reading
  PROVE  /\ Tagged(v) \in Reading
         /\ Tagged(v).stage = IF v.hit THEN "links" ELSE "shown"
         /\ Tagged(v).hit = v.hit /\ Tagged(v).text = v.text
         /\ Tagged(v).by = v.by /\ Tagged(v).counted = v.counted
         /\ Tagged(v).links = v.links /\ Tagged(v).blank = v.blank
         /\ Tagged(v).seen = v.seen /\ Tagged(v).calm = v.calm
  BY DEF Tagged, Reading

\* The first query finds out whether the item is public now.
LEMMA AskIs ==
  ASSUME IInv, NEW k, NEW v \in Reading, Ask(k, v)
  PROVE  /\ view' \in Reading
         /\ view'.seen = IF PublicRow THEN {row.text} ELSE {}
         /\ view'.by = v.by /\ view'.stage = v.stage
         /\ view'.hit = v.hit /\ view'.text = v.text
         /\ view'.counted = v.counted
         /\ view'.links = v.links /\ view'.blank = v.blank
         /\ view'.calm = v.calm
         /\ kind = k /\ calls' \in 0..MaxCalls /\ Same
  <1>1. row.text \in Texts
    BY DEF IInv, TypeOK, Row
  <1>2. calls' \in 0..MaxCalls
    BY DEF Ask, Counted, IInv, TypeOK
  <1> QED
    BY <1>1, <1>2 DEF Ask, Reading

\* What is to be shown of a reading follows from what it has found.
LEMMA FitsAgree == IInv /\ ViewOK /\ ViewFits /\ LinksWereTags => ReadIInv
  <1> SUFFICES ASSUME IInv, ViewOK, ViewFits, LinksWereTags
               PROVE  ReadIInv
    OBVIOUS
  <1>1. TagsMatchLinks
    BY DEF IInv, TypeOK, LinksNameTags, LinksWereTags, LiveTags,
           TagsMatchLinks, ViewOK, Reading
  <1>2. ReadersAgree
    <2> SUFFICES ASSUME view.stage = "shown"
                 PROVE  ReadersAgree
      BY DEF ReadersAgree
    <2>1. view.hit /\ view.by \in {"list", "search", "page"} =>
             /\ view.seen # {}
             /\ view.by # "list" => view.text \in view.seen
      BY DEF ViewFits
    <2>2. view.calm => view.hit = Expected(view.by) /\ view.counted = view.hit
      BY DEF ViewFits, ViewOK, Reading
    <2>3. kind = "article" => row.status \in ArticleStatus
      BY DEF IInv, ArticlesAreNotReviewed
    <2> QED
      BY <2>1, <2>2, <2>3 DEF ReadersAgree, Expected, ArticleStatus, Published
  <1> QED
    BY <1>1, <1>2 DEF ReadIInv

\* A query leaves the item alone.
LEMMA QueryKeeps ==
  ASSUME ReadIInv, Same, calls' \in 0..MaxCalls
  PROVE  /\ IInv'
         /\ PublicRow' = PublicRow /\ row' = row /\ tag' = tag
         /\ \A by : Expected(by)' = Expected(by)
  <1>1. IInv'
    BY ElsewhereKeeps DEF ReadIInv, Same
  <1>2. kind' = kind /\ row' = row /\ tag' = tag
    BY DEF Same, rowVars, tagVars
  <1> QED
    BY <1>1, <1>2 DEF PublicRow, Published, Live, Expected

LEMMA AnswerKeeps ==
  ASSUME ReadIInv, Answer
  PROVE  ReadIInv'
  <1>1. Same /\ calls' \in 0..MaxCalls
    BY DEF Answer, Same, vars, ReadIInv, IInv, TypeOK
  <1>2. ViewOK' /\ ViewFits' /\ LinksWereTags'
    BY NoViewIsAReading DEF Answer, ViewOK, ViewFits, LinksWereTags
  <1>3. IInv'
    BY <1>1, QueryKeeps
  <1> QED
    BY <1>2, <1>3, FitsAgree, PTL

LEMMA SelectIdsKeeps ==
  ASSUME ReadIInv, NEW k, SelectIds(k)
  PROVE  ReadIInv'
  <1> DEFINE v == [NoView EXCEPT !.by = "list", !.hit = PublicRow,
                                 !.stage = IF PublicRow THEN "rows" ELSE "count"]
  <1>1. /\ v \in Reading /\ v.by = "list" /\ v.hit = PublicRow
        /\ v.stage = IF PublicRow THEN "rows" ELSE "count"
        /\ v.links = {} /\ v.blank = {} /\ v.calm
    BY NoViewIsAReading DEF Reading, Readers, PublicRow
  <1>2. Ask(k, v)
    BY DEF SelectIds
  <1> HIDE DEF v
  <1>3. /\ IInv' /\ PublicRow' = PublicRow
        /\ view' \in Reading
        /\ view'.seen = IF PublicRow THEN {row.text} ELSE {}
        /\ view'.by = "list" /\ view'.hit = PublicRow
        /\ view'.stage = IF PublicRow THEN "rows" ELSE "count"
        /\ view'.links = {} /\ view'.blank = {} /\ row' = row
    BY <1>1, <1>2, AskIs, QueryKeeps DEF ReadIInv
  <1>4. ViewOK' /\ ViewFits' /\ LinksWereTags'
    BY <1>3 DEF ViewOK, ViewFits, LinksWereTags
  <1> QED
    BY <1>3, <1>4, FitsAgree, PTL

LEMMA SelectRowsKeeps ==
  ASSUME ReadIInv, NEW k, SelectRows(k)
  PROVE  ReadIInv'
  <1> DEFINE h == Hit(view, Live)
             v == [h EXCEPT !.stage = "count"]
  <1>1. Live \in BOOLEAN /\ view \in Reading
    BY DEF Live, ReadIInv, ViewOK
  <1>2. /\ h \in Reading /\ h.hit = Live /\ h.by = view.by
        /\ h.seen = view.seen /\ h.calm = view.calm
        /\ h.links = view.links /\ h.blank = view.blank
    BY <1>1, HitIs DEF ReadIInv
  <1>3. /\ view' = v /\ view.stage = "rows" /\ Same /\ calls' \in 0..MaxCalls
    BY DEF SelectRows, Step, ReadIInv, IInv, TypeOK
  <1> HIDE DEF h
  <1>4. /\ view' \in Reading /\ view'.hit = Live /\ view'.by = view.by
        /\ view'.seen = view.seen /\ view'.calm = view.calm
        /\ view'.links = view.links /\ view'.blank = view.blank
        /\ view'.stage = "count"
    BY <1>2, <1>3 DEF Reading
  <1>5. /\ IInv' /\ PublicRow' = PublicRow /\ row' = row /\ tag' = tag
    BY <1>3, QueryKeeps
  <1>6. ViewOK' /\ LinksWereTags'
    BY <1>4, <1>5 DEF ViewOK, LinksWereTags, ReadIInv
  <1>7. ViewFits'
    BY <1>3, <1>4, <1>5 DEF ViewFits, ReadIInv, PublicRow, Live
  <1> QED
    BY <1>5, <1>6, <1>7, FitsAgree, PTL

LEMMA CountPublicKeeps ==
  ASSUME ReadIInv, NEW k, CountPublic(k, PublicRow)
  PROVE  ReadIInv'
  <1> DEFINE v == [view EXCEPT !.counted = PublicRow]
  <1>1. view \in Reading
    BY DEF ReadIInv, ViewOK
  <1>2. /\ v \in Reading /\ v.hit = view.hit /\ v.by = view.by
        /\ v.seen = view.seen /\ v.calm = view.calm /\ v.text = view.text
        /\ v.links = view.links /\ v.blank = view.blank
        /\ v.counted = PublicRow
    BY <1>1 DEF Reading, PublicRow
  <1>3. /\ view' = Tagged(v) /\ view.stage = "count"
        /\ Same /\ calls' \in 0..MaxCalls
    BY DEF CountPublic, Step, ReadIInv, IInv, TypeOK
  <1> HIDE DEF v
  <1>4. /\ view' \in Reading /\ view'.hit = view.hit /\ view'.by = view.by
        /\ view'.seen = view.seen /\ view'.calm = view.calm
        /\ view'.links = view.links /\ view'.blank = view.blank
        /\ view'.stage = IF view.hit THEN "links" ELSE "shown"
        /\ view'.counted = PublicRow /\ view'.text = view.text
    BY <1>2, <1>3, TaggedIs
  <1>5. /\ IInv' /\ PublicRow' = PublicRow /\ row' = row /\ tag' = tag
        /\ Expected("list")' = PublicRow
    BY <1>3, QueryKeeps DEF Expected
  <1>6. ViewOK' /\ LinksWereTags'
    BY <1>4, <1>5 DEF ViewOK, LinksWereTags, ReadIInv
  <1>7. ViewFits'
    BY <1>3, <1>4, <1>5 DEF ViewFits, ReadIInv
  <1> QED
    BY <1>5, <1>6, <1>7, FitsAgree, PTL

LEMMA CountThenFindKeeps ==
  ASSUME ReadIInv, NEW k, NEW by \in {"search", "author", "admin"},
         NEW test \in BOOLEAN, kind = k => test = Expected(by),
         by = "search" /\ test => PublicRow,
         CountThenFind(k, by, test)
  PROVE  ReadIInv'
  <1> DEFINE v == [NoView EXCEPT !.by = by, !.stage = "find", !.counted = test]
  <1>1. /\ v \in Reading /\ v.by = by /\ v.stage = "find" /\ v.counted = test
        /\ ~v.hit /\ v.links = {} /\ v.blank = {} /\ v.calm
    BY NoViewIsAReading DEF Reading, Readers
  <1>2. CASE Ask(k, v)
    <2> HIDE DEF v
    <2>1. /\ IInv' /\ PublicRow' = PublicRow /\ row' = row
          /\ view' \in Reading
          /\ view'.seen = IF PublicRow THEN {row.text} ELSE {}
          /\ view'.by = by /\ ~view'.hit /\ view'.stage = "find"
          /\ view'.links = {} /\ view'.blank = {}
          /\ view'.counted = Expected(by) /\ Expected(by)' = Expected(by)
      BY <1>1, <1>2, AskIs, QueryKeeps DEF ReadIInv
    <2>2. ViewOK' /\ ViewFits' /\ LinksWereTags'
      BY <2>1 DEF ViewOK, ViewFits, LinksWereTags
    <2> QED
      BY <2>1, <2>2, FitsAgree, PTL
  <1>3. CASE /\ view.by = by
             /\ Step(k, "find", IF by = "admin"
                                THEN [Hit(view, test) EXCEPT !.stage = "shown"]
                                ELSE Tagged(Hit(view, test)))
    <2> DEFINE h == Hit(view, test)
    <2>1. view \in Reading
      BY DEF ReadIInv, ViewOK
    <2>2. /\ h \in Reading /\ h.hit = test /\ h.by = view.by
          /\ h.seen = view.seen /\ h.calm = view.calm
          /\ h.links = view.links /\ h.blank = view.blank
          /\ h.counted = view.counted
          /\ h.text = IF test THEN row.text ELSE view.text
      BY <2>1, HitIs DEF ReadIInv
    <2>3. /\ view' = IF by = "admin" THEN [h EXCEPT !.stage = "shown"]
                                     ELSE Tagged(h)
          /\ view.stage = "find" /\ kind = k /\ Same /\ calls' \in 0..MaxCalls
      BY <1>3 DEF Step, ReadIInv, IInv, TypeOK
    <2> HIDE DEF h
    <2>4. /\ view' \in Reading /\ view'.hit = test /\ view'.by = by
          /\ view'.seen = view.seen /\ view'.calm = view.calm
          /\ view'.links = view.links /\ view'.blank = view.blank
          /\ view'.stage \in {"links", "shown"}
          /\ view'.counted = view.counted
          /\ view'.text = IF test THEN row.text ELSE view.text
      <3>1. CASE by = "admin"
        BY <1>3, <2>2, <2>3, <3>1 DEF Reading
      <3>2. CASE by # "admin"
        BY <1>3, <2>2, <2>3, <3>2, TaggedIs
      <3> QED
        BY <3>1, <3>2
    <2>5. /\ IInv' /\ PublicRow' = PublicRow /\ row' = row /\ tag' = tag
          /\ Expected(by)' = Expected(by)
      BY <2>3, QueryKeeps
    <2>6. ViewOK' /\ LinksWereTags'
      BY <2>4, <2>5 DEF ViewOK, LinksWereTags, ReadIInv
    <2>7. ViewFits'
      BY <1>3, <2>3, <2>4, <2>5 DEF ViewFits, ReadIInv
    <2> QED
      BY <2>5, <2>6, <2>7, FitsAgree, PTL
  <1> QED
    BY <1>2, <1>3 DEF CountThenFind

LEMMA FetchKeeps ==
  ASSUME ReadIInv, NEW k, NEW by \in {"page", "author", "admin"},
         NEW test \in BOOLEAN, kind = k => test = Expected(by),
         by = "page" /\ test => PublicRow,
         Fetch(k, by, test)
  PROVE  ReadIInv'
  <1> DEFINE h == Hit(NoView, test)
             c == [h EXCEPT !.by = by, !.counted = test]
             d == [h EXCEPT !.by = by, !.counted = test, !.stage = "shown"]
             v == IF by = "admin" THEN d ELSE Tagged(c)
  <1>1. /\ h \in Reading /\ h.hit = test /\ h.links = {} /\ h.blank = {}
        /\ h.calm /\ h.text = IF test THEN row.text ELSE NoView.text
    BY NoViewIsAReading, HitIs DEF ReadIInv
  <1>2. Ask(k, v)
    BY DEF Fetch
  <1> HIDE DEF h
  <1>3. /\ c \in Reading /\ c.by = by /\ c.hit = test /\ c.counted = test
        /\ c.links = {} /\ c.blank = {} /\ c.text = h.text
    BY <1>1 DEF Reading, Readers
  <1>4. /\ d \in Reading /\ d.by = by /\ d.hit = test /\ d.counted = test
        /\ d.links = {} /\ d.blank = {} /\ d.text = h.text
        /\ d.stage = "shown"
    BY <1>1 DEF Reading, Readers
  <1> HIDE DEF c, d
  <1>5. /\ v \in Reading /\ v.by = by /\ v.hit = test /\ v.counted = test
        /\ v.links = {} /\ v.blank = {} /\ v.text = h.text
        /\ v.stage \in {"links", "shown"}
    BY <1>3, <1>4, TaggedIs
  <1> HIDE DEF v
  <1>6. /\ IInv' /\ PublicRow' = PublicRow /\ row' = row
        /\ view' \in Reading
        /\ view'.seen = IF PublicRow THEN {row.text} ELSE {}
        /\ view'.by = by /\ view'.hit = test
        /\ view'.stage \in {"links", "shown"}
        /\ view'.links = {} /\ view'.blank = {}
        /\ test => view'.text = row.text
        /\ test = Expected(by) /\ view'.counted = test
        /\ Expected(by)' = Expected(by)
    BY <1>1, <1>2, <1>5, AskIs, QueryKeeps DEF ReadIInv
  <1>7. ViewOK' /\ LinksWereTags'
    BY <1>6 DEF ViewOK, LinksWereTags
  <1>8. ViewFits'
    BY <1>6 DEF ViewFits
  <1> QED
    BY <1>6, <1>7, <1>8, FitsAgree, PTL

LEMMA LinksKeeps ==
  ASSUME ReadIInv, NEW k, Links(k)
  PROVE  ReadIInv'
  <1>1. /\ view' = [view EXCEPT !.links = links, !.stage = "names"]
        /\ view.stage = "links" /\ view \in Reading
        /\ Same /\ calls' \in 0..MaxCalls
        /\ links \subseteq Tags /\ \A i \in links : tag[i] # "unborn"
    BY DEF Links, Step, ReadIInv, ViewOK, IInv, TypeOK, TagsInHand
  <1>2. /\ view' \in Reading /\ view'.stage = "names" /\ view'.links = links
        /\ view'.by = view.by /\ view'.hit = view.hit /\ view'.text = view.text
        /\ view'.counted = view.counted /\ view'.blank = view.blank
        /\ view'.seen = view.seen /\ view'.calm = view.calm
    BY <1>1 DEF Reading
  <1>3. /\ IInv' /\ PublicRow' = PublicRow /\ row' = row /\ tag' = tag
        /\ Expected(view.by)' = Expected(view'.by)
    BY <1>1, <1>2, QueryKeeps DEF Same, rowVars, Expected, PublicRow,
       Published, Live
  <1>4. ViewOK' /\ LinksWereTags'
    BY <1>1, <1>2, <1>3 DEF ViewOK, LinksWereTags, ReadIInv
  <1>5. ViewFits'
    BY <1>1, <1>2, <1>3, QueryKeeps DEF ViewFits, ReadIInv
  <1> QED
    BY <1>3, <1>4, <1>5, FitsAgree, PTL

LEMMA TagNamesKeeps ==
  ASSUME ReadIInv, NEW k, TagNames(k)
  PROVE  ReadIInv'
  <1>1. /\ view' = [view EXCEPT !.blank = view.links \ LiveTags,
                                !.stage = "shown"]
        /\ view.stage = "names" /\ view \in Reading
        /\ Same /\ calls' \in 0..MaxCalls
    BY DEF TagNames, Step, ReadIInv, ViewOK, IInv, TypeOK
  <1>2. /\ view.links \subseteq Tags
        /\ \A i \in view.links \ LiveTags : tag[i] = "gone"
    BY <1>1 DEF LiveTags, Reading, ReadIInv, IInv, TypeOK, LinksWereTags
  <1>3. /\ view' \in Reading /\ view'.stage = "shown"
        /\ view'.links = view.links /\ view'.blank = view.links \ LiveTags
        /\ view'.by = view.by /\ view'.hit = view.hit /\ view'.text = view.text
        /\ view'.counted = view.counted
        /\ view'.seen = view.seen /\ view'.calm = view.calm
    BY <1>1, <1>2 DEF Reading
  <1>4. /\ IInv' /\ PublicRow' = PublicRow /\ row' = row /\ tag' = tag
        /\ Expected(view.by)' = Expected(view'.by)
    BY <1>1, <1>3, QueryKeeps DEF Same, rowVars, Expected, PublicRow,
       Published, Live
  <1>5. ViewOK' /\ LinksWereTags'
    BY <1>2, <1>3, <1>4 DEF ViewOK, LinksWereTags, ReadIInv
  <1>6. ViewFits'
    BY <1>1, <1>3, <1>4, QueryKeeps DEF ViewFits, ReadIInv
  <1> QED
    BY <1>4, <1>5, <1>6, FitsAgree, PTL

LEMMA TestsAreBoolean == PublicRow \in BOOLEAN /\ Published \in BOOLEAN
                         /\ Live \in BOOLEAN
  BY DEF PublicRow, Published, Live

LEMMA TagsForKeeps ==
  ASSUME ReadIInv, TagsForArticles \/ TagsForSkills \/ TagsForMcpServers
  PROVE  ReadIInv'
  BY LinksKeeps, TagNamesKeeps
     DEF TagsForArticles, TagsForSkills, TagsForMcpServers

LEMMA ListsKeep ==
  ASSUME ReadIInv, Lists
  PROVE  ReadIInv'
  BY TagsForKeeps, SelectIdsKeeps, SelectRowsKeeps, CountPublicKeeps
     DEF Lists, ArticleList, SkillList, McpServerList, ArticleSelect,
         SkillSelect, McpServerSelect, ArticleCount, SkillCount, McpServerCount

LEMMA SearchKeeps ==
  ASSUME ReadIInv, Search
  PROVE  ReadIInv'
  <1>1. Expected("search") = PublicRow
    BY DEF Expected
  <1> QED
    BY <1>1, TestsAreBoolean, TagsForKeeps, CountThenFindKeeps
       DEF Search, ArticleSearchResults, SkillSearchResults,
           McpServerSearchResults, SearchArticles, SearchSkills,
           SearchMcpServers

LEMMA ListsOwnedKeep ==
  ASSUME ReadIInv, listMyContent
  PROVE  ReadIInv'
  <1>1. Expected("author") = Live
    BY DEF Expected
  <1> QED
    BY <1>1, TestsAreBoolean, TagsForKeeps, CountThenFindKeeps
       DEF listMyContent, ArticleListOwned, SkillListOwned, McpServerListOwned,
           ArticleSelectOwned, SkillSelectOwned, McpServerSelectOwned

LEMMA PagesKeep ==
  ASSUME ReadIInv,
         \/ ArticleDetail \/ SkillDetail \/ McpServerDetail
         \/ getArticle \/ getSkill \/ getMCPServer
  PROVE  ReadIInv'
  <1>1. Expected("page") = PublicRow /\ Expected("author") = Live
    BY DEF Expected
  <1> QED
    BY <1>1, TestsAreBoolean, TagsForKeeps, FetchKeeps
       DEF ArticleDetail, SkillDetail, McpServerDetail, Detail, getArticle,
           getSkill, getMCPServer

LEMMA AdminReadKeeps ==
  ASSUME ReadIInv, AdminRead
  PROVE  ReadIInv'
  <1>1. Expected("admin") = IF kind = "article" THEN Published ELSE Live
    BY DEF Expected
  <1>2. CASE ArticleAdminList \/ SkillAdminList \/ McpServerAdminList
    BY <1>1, <1>2, TestsAreBoolean, CountThenFindKeeps
       DEF ArticleAdminList, SkillAdminList, McpServerAdminList
  <1>3. CASE AdminGetArticle \/ AdminGetSkill \/ AdminGetMcpServer
    BY <1>1, <1>3, TestsAreBoolean, FetchKeeps
       DEF AdminGetArticle, AdminGetSkill, AdminGetMcpServer
  <1> QED
    BY <1>2, <1>3 DEF AdminRead

LEMMA ReadKeeps ==
  ASSUME ReadIInv, Read
  PROVE  ReadIInv'
  BY PagesKeep, AdminReadKeeps, SearchKeeps, ListsKeep, ListsOwnedKeep,
     AnswerKeeps DEF Read, Tools, searchContent, searchLatest, browseListed

\* A tag row, once made, is there or gone; and the item is of one kind.
LEMMA TagsAge ==
  ASSUME IInv, Next
  PROVE  /\ \A i \in Tags : /\ tag[i] # "unborn" => tag'[i] # "unborn"
                            /\ tag[i] = "gone" => tag'[i] = "gone"
         /\ kind' = kind
  <1> USE DEF IInv, TypeOK, rowVars, tagVars
  <1>1. \A new \in SUBSET Tags : ResolveTagSet(new) =>
           tag' = tag \/ tag' = CreateTags(new)
    BY ResolvingMakesTags
  <1>2. ASSUME NEW s \in Sessions, Write(s)
        PROVE  /\ kind' = kind
               /\ \/ tag' = tag
                  \/ \E new \in SUBSET Tags : tag' = CreateTags(new)
    <2>1. CASE ArticleCreate(s) \/ SkillCreate(s) \/ McpCreate(s)
      BY <1>1, <2>1 DEF ArticleCreate, SkillCreate, McpCreate, CreateAs
    <2>2. CASE OpenUpdate(s)
      BY <1>1, <2>2 DEF OpenUpdate
    <2>3. CASE Commit(s) \/ CommitDelete(s)
      BY <2>3 DEF Commit, CommitDelete, SetTags, Request
    <2>4. CASE ArticleUpdate(s) \/ SkillUpdate(s) \/ McpUpdate(s)
      BY <2>4 DEF ArticleUpdate, SkillUpdate, McpUpdate, ReadFor
    <2>5. CASE \/ ArticleDelete(s) \/ SkillDelete(s) \/ McpDelete(s)
               \/ FindTags(s) \/ Fail(s)
      BY <2>5 DEF ArticleDelete, SkillDelete, McpDelete, DeleteAs, FindTags, Fail
    <2> QED
      BY <1>2, <2>1, <2>2, <2>3, <2>4, <2>5 DEF Write
  <1>3. ASSUME NEW s \in Sessions, ChangeStatus(s)
        PROVE  kind' = kind /\ tag' = tag
    BY <1>3 DEF ChangeStatus, SkillSubmit, SkillWithdraw, SkillArchive,
       ReviewSkill, McpSubmit, McpWithdraw, McpArchive, ReviewMcpServer,
       ReadFor, SaveStatus
  <1>4. ASSUME NEW s \in Sessions, DropTag(s)
        PROVE  /\ kind' = kind
               /\ \/ tag' = tag
                  \/ tag' = [i \in Tags |-> IF i \in call[s].old THEN "gone"
                                                                 ELSE tag[i]]
    BY <1>4 DEF DropTag, CountTagUsage, AdminDeleteTag
  <1>5. Moderate => kind' = kind /\ tag' = tag
    BY DEF Moderate, HideArticle, UnhideArticle, HideSkill, UnhideSkill,
       HideMcpServer, UnhideMcpServer, SetHidden, WriteHidden
  <1>6. ASSUME ManageTags
        PROVE  /\ kind' = kind
               /\ \E i \in Tags : /\ tag[i] # "gone"
                                  /\ \E x \in {"enabled", "disabled"} :
                                        tag' = [tag EXCEPT ![i] = x]
    <2>1. CASE \E n \in Names : AdminCreateTag(n)
      BY <2>1 DEF AdminCreateTag, Unborn
    <2>2. CASE \E i \in Tags : AdminUpdateTag(i)
      <3>1. PICK i \in Tags : AdminUpdateTag(i)
        BY <2>2
      <3>2. tag[i] # "gone" /\ kind' = kind
        BY <3>1 DEF AdminUpdateTag, LiveTags
      <3>3. \/ tag' = [tag EXCEPT ![i] = "enabled"]
            \/ tag' = [tag EXCEPT ![i] = "disabled"]
        BY <3>1 DEF AdminUpdateTag
      <3> QED
        BY <3>2, <3>3
    <2> QED
      BY <1>6, <2>1, <2>2 DEF ManageTags
  <1>7. kind' = kind
    BY <1>2, <1>3, <1>4, <1>5, <1>6 DEF Next
  <1>8. \/ tag' = tag
        \/ \E new \in SUBSET Tags : tag' = CreateTags(new)
        \/ \E s \in Sessions :
              tag' = [i \in Tags |-> IF i \in call[s].old THEN "gone"
                                                          ELSE tag[i]]
        \/ \E i \in Tags : /\ tag[i] # "gone"
                           /\ \E x \in {"enabled", "disabled"} :
                                 tag' = [tag EXCEPT ![i] = x]
    BY <1>2, <1>3, <1>4, <1>5, <1>6 DEF Next
  <1> QED
    BY <1>7, <1>8 DEF CreateTags

LEMMA WrittenKeeps ==
  ASSUME ReadIInv, Written
  PROVE  ReadIInv'
  <1>1. IInv'
    BY NextKeeps DEF Written, ReadIInv
  <1>2. /\ \A i \in Tags : /\ tag[i] # "unborn" => tag'[i] # "unborn"
                           /\ tag[i] = "gone" => tag'[i] = "gone"
        /\ kind' = kind /\ view \in Reading
    BY TagsAge DEF Written, ReadIInv, ViewOK
  <1>3. row'.text \in Texts
    BY <1>1 DEF IInv, TypeOK, Row
  <1>4. CASE view.stage = "idle"
    <2>1. view' = view
      BY <1>4 DEF Written
    <2>2. ViewOK' /\ ViewFits' /\ LinksWereTags'
      BY <1>2, <1>4, <2>1 DEF ViewOK, ViewFits, LinksWereTags, ReadIInv, Reading
    <2> QED
      BY <1>1, <2>2, FitsAgree, PTL
  <1>5. CASE view.stage # "idle"
    <2> DEFINE now == IF PublicRow' THEN {row'.text} ELSE {}
               still == view.calm /\ row' = row
    <2>1. view' = [view EXCEPT !.seen = view.seen \union now, !.calm = still]
      BY <1>5 DEF Written
    <2>2. now \subseteq Texts /\ still \in BOOLEAN
      BY <1>3
    <2>3. (PublicRow' => row'.text \in now) /\ (still => view.calm /\ row' = row)
      OBVIOUS
    <2> HIDE DEF now, still
    <2>4. /\ view' \in Reading
          /\ view'.by = view.by /\ view'.stage = view.stage
          /\ view'.hit = view.hit /\ view'.text = view.text
          /\ view'.counted = view.counted
          /\ view'.links = view.links /\ view'.blank = view.blank
          /\ view'.seen = view.seen \union now /\ view'.calm = still
      BY <1>2, <2>1, <2>2 DEF Reading
    <2>5. still => /\ PublicRow' = PublicRow
                   /\ Expected(view.by)' = Expected(view.by)
      BY <1>2, <2>3, <2>4 DEF PublicRow, Published, Live, Expected
    <2>6. ViewOK' /\ LinksWereTags'
      BY <1>2, <2>4 DEF ViewOK, LinksWereTags, ReadIInv, Reading
    <2>7. ViewFits'
      <3>1. /\ view'.stage \in {"rows", "count"} => view'.by = "list"
            /\ view'.stage = "find" =>
                  view'.by \in {"search", "author", "admin"} /\ ~view'.hit
            /\ PublicRow' => row'.text \in view'.seen
            /\ view'.by = "list" /\ (view'.stage = "rows" \/ view'.hit) =>
                  view'.seen # {}
            /\ view'.by \in {"search", "page"} /\ view'.hit =>
                  view'.text \in view'.seen
        BY <2>3, <2>4 DEF ViewFits, ReadIInv
      <3>2. view'.calm =>
               /\ view'.stage = "rows" => PublicRow'
               /\ view'.stage = "count" => view'.hit = PublicRow'
               /\ view'.stage = "find" => view'.counted = Expected(view.by)'
               /\ view'.stage \in {"links", "names", "shown"} =>
                     /\ view'.hit = Expected(view.by)'
                     /\ view'.counted = Expected(view.by)'
        BY <2>3, <2>4, <2>5 DEF ViewFits, ReadIInv
      <3> QED
        BY <2>4, <3>1, <3>2 DEF ViewFits
    <2> QED
      BY <1>1, <2>6, <2>7, FitsAgree, PTL
  <1> QED
    BY <1>4, <1>5

LEMMA InitReadIInv == ReadInit => ReadIInv
  <1> SUFFICES ASSUME ReadInit
               PROVE  ReadIInv
    OBVIOUS
  <1>1. IInv
    BY InitIInv DEF ReadInit
  <1>2. ViewOK /\ ViewFits /\ LinksWereTags
    BY NoViewIsAReading DEF ReadInit, ViewOK, ViewFits, LinksWereTags
  <1> QED
    BY <1>1, <1>2, FitsAgree

LEMMA ReadNextKeeps ==
  ASSUME ReadIInv, [ReadNext]_readVars
  PROVE  ReadIInv'
  <1>1. CASE Read
    BY <1>1, ReadKeeps
  <1>2. CASE Written
    BY <1>2, WrittenKeeps
  <1>3. CASE UNCHANGED readVars
    <2>1. /\ Same /\ calls' \in 0..MaxCalls /\ view' = view /\ UNCHANGED vars
      BY <1>3 DEF readVars, vars, Same, ReadIInv, IInv, TypeOK
    <2>2. ViewOK' /\ ViewFits' /\ LinksWereTags'
      BY <2>1 DEF ReadIInv, ViewOK, ViewFits, LinksWereTags, Expected, PublicRow,
         Published, Live, vars, rowVars, tagVars
    <2>3. IInv'
      BY <2>1, QueryKeeps
    <2> QED
      BY <2>2, <2>3, FitsAgree, PTL
  <1> QED
    BY <1>1, <1>2, <1>3 DEF ReadNext

-----------------------------------------------------------------------------
(* What the runs check, for every value of the constants.                  *)

\* Whatever writers come between a reader's queries, what it has found so far
\* was public, and is what is expected unless the row has changed.
THEOREM ReadInvariant == ReadSpec => []ReadIInv
  BY InitReadIInv, ReadNextKeeps, PTL DEF ReadSpec

\* Nothing of a skill or an MCP server is public that no administrator
\* approved, or its author wrote over a published copy, whatever requests of
\* ReviewSkill, SkillWithdraw and SkillUpdate overlap.
THEOREM PublishedTextWasVetted == ReadSpec => []PublicWasVetted
  <1>1. ReadIInv => PublicWasVetted
    BY DEF ReadIInv, IInv
  <1> QED
    BY <1>1, ReadInvariant, PTL

\* A hide or unhide no copy of the row overlapped stays until the next one:
\* no Save of the whole row undoes it.
THEOREM ModerationIsKept == ReadSpec => []ModerationStands
  <1>1. ReadIInv => ModerationStands
    BY DEF ReadIInv, IInv
  <1> QED
    BY <1>1, ReadInvariant, PTL

\* An item deleted while no handler held a copy is never saved back.
THEOREM DeletionIsFinal == ReadSpec => []DeletedForGood
  <1>1. ReadIInv => DeletedForGood
    BY DEF ReadIInv, IInv
  <1> QED
    BY <1>1, ReadInvariant, PTL

\* usage_count is the number of links and every link names a tag, in the rows
\* and in what a reader is shown, but for the noted drift and races.
THEOREM TagsFollowLinks == ReadSpec => []TagsMatchLinks
  <1>1. ReadIInv => TagsMatchLinks
    BY DEF ReadIInv
  <1> QED
    BY <1>1, ReadInvariant, PTL

\* No list, search or page tells a stranger of what was not public during the
\* request, and all readers agree on a row that stays as it was.
THEOREM ReadersTellTheSame == ReadSpec => []ReadersAgree
  <1>1. ReadIInv => ReadersAgree
    BY DEF ReadIInv
  <1> QED
    BY <1>1, ReadInvariant, PTL

-----------------------------------------------------------------------------
(* Reports.                                                                *)

USE ReportsAssumption

LEMMA HandlingIs ==
  ASSUME NEW r, NEW o
  PROVE  /\ Handling(r, o).report = r /\ Handling(r, o).outcome = o
         /\ Handling(r, o).stage = "read"
  BY DEF Handling

LEMMA InitReportsIInv == ReportsInit => ReportsIInv
  <1> SUFFICES ASSUME ReportsInit
               PROVE  ReportsIInv
    OBVIOUS
  <1> USE DEF ReportsInit
  <1>1. IInv
    BY InitIInv
  <1>2. ReportsTypeOK
    BY DEF ReportsTypeOK, Resting, Handling, Targets, Outcomes
  <1>3. HandlingFits /\ OpenIsUntouched
    BY DEF HandlingFits, OpenIsUntouched, Resting, Handling
  <1>4. VerdictIsDone /\ OneOutcome
    BY DEF VerdictIsDone, OneOutcome
  <1> QED
    BY <1>1, <1>2, <1>3, <1>4 DEF ReportsIInv

LEMMA CreateReportKeeps ==
  ASSUME ReportsIInv, NEW r \in ReportIds, CreateReport(r)
  PROVE  ReportsIInv'
  <1> USE DEF ReportsIInv, ReportsTypeOK
  <1>1. /\ status[r] = "none" /\ status' = [status EXCEPT ![r] = "pending"]
        /\ UNCHANGED <<vars, verdict, handling, shown, alive, told, last,
                       contested>>
    BY DEF CreateReport
  <1>2. IInv'
    BY <1>1, ElsewhereKeeps DEF vars, IInv, TypeOK
  <1>3. ReportsTypeOK'
    BY <1>1
  <1>4. HandlingFits'
    BY <1>1 DEF HandlingFits
  <1>5. OpenIsUntouched'
    BY <1>1 DEF OpenIsUntouched
  <1>6. OneOutcome'
    BY <1>1 DEF OneOutcome
  <1>7. VerdictIsDone'
    BY <1>1 DEF VerdictIsDone, vars, rowVars, OpenIsUntouched
  <1> QED
    BY <1>2, <1>3, <1>4, <1>5, <1>6, <1>7

LEMMA ReadReportKeeps ==
  ASSUME ReportsIInv, NEW a \in Admins, NEW r \in ReportIds, ReadReport(a, r)
  PROVE  ReportsIInv'
  <1> USE DEF ReportsIInv, ReportsTypeOK
  <1>1. PICK o \in Outcomes : handling' = [handling EXCEPT ![a] = Handling(r, o)]
    BY DEF ReadReport
  <1>2. /\ status[r] = "pending"
        /\ UNCHANGED <<vars, status, verdict, shown, alive, told, last,
                       contested>>
    BY DEF ReadReport
  <1>3. IInv'
    BY <1>2, ElsewhereKeeps DEF vars, IInv, TypeOK
  <1>4. ReportsTypeOK'
    BY <1>1, <1>2 DEF Handling
  <1>5. HandlingFits'
    BY <1>1, <1>2, HandlingIs DEF HandlingFits
  <1>6. OpenIsUntouched' /\ OneOutcome'
    BY <1>2 DEF OpenIsUntouched, OneOutcome
  <1>7. VerdictIsDone'
    BY <1>2 DEF VerdictIsDone, vars, rowVars
  <1> QED
    BY <1>3, <1>4, <1>5, <1>6, <1>7

LEMMA ResolveFailsKeeps ==
  ASSUME ReportsIInv, NEW a \in Admins, ResolveFails(a)
  PROVE  ReportsIInv'
  <1> USE DEF ReportsIInv, ReportsTypeOK
  <1>1. /\ handling' = [handling EXCEPT ![a] = Resting]
        /\ UNCHANGED <<vars, status, verdict, shown, alive, told, last,
                       contested>>
    BY DEF ResolveFails
  <1>2. IInv'
    BY <1>1, ElsewhereKeeps DEF vars, IInv, TypeOK
  <1>3. ReportsTypeOK'
    BY <1>1 DEF Resting, Handling
  <1>4. HandlingFits'
    BY <1>1, HandlingIs DEF HandlingFits, Resting
  <1>5. OpenIsUntouched' /\ OneOutcome'
    BY <1>1 DEF OpenIsUntouched, OneOutcome
  <1>6. VerdictIsDone'
    BY <1>1 DEF VerdictIsDone, vars, rowVars
  <1> QED
    BY <1>2, <1>3, <1>4, <1>5, <1>6

LEMMA SendKeeps ==
  ASSUME ReportsIInv, NEW a \in Admins, SendResolveNotifications(a)
  PROVE  ReportsIInv'
  <1> USE DEF ReportsIInv, ReportsTypeOK
  <1> DEFINE r == handling[a].report
             o == handling[a].outcome
  <1>1. /\ handling[a].stage = "notify"
        /\ handling' = [handling EXCEPT ![a] = Resting]
        /\ told' \in {told, [told EXCEPT ![r] = told[r] \union ({o} \ {"unhide"})]}
        /\ UNCHANGED <<vars, status, verdict, shown, alive, last, contested>>
    BY DEF SendResolveNotifications
  <1>2. /\ r \in ReportIds /\ o \in Outcomes
        /\ status[r] \notin {"none", "pending"}
        /\ r \notin contested => verdict[r] = o
    BY <1>1, HandlingIs DEF HandlingFits, Resting
  <1> HIDE DEF r, o
  <1>3. /\ told' \in [ReportIds -> SUBSET Outcomes]
        /\ \A x \in ReportIds \ {r} : told'[x] = told[x]
        /\ told'[r] \subseteq told[r] \union {o}
    BY <1>1, <1>2
  <1>4. IInv'
    BY <1>1, ElsewhereKeeps DEF vars, IInv, TypeOK
  <1>5. ReportsTypeOK'
    BY <1>1, <1>3 DEF Resting, Handling
  <1>6. HandlingFits'
    BY <1>1, HandlingIs DEF HandlingFits, Resting
  <1>7. OneOutcome'
    BY <1>1, <1>2, <1>3 DEF OneOutcome
  <1>8. VerdictIsDone'
    BY <1>1 DEF VerdictIsDone, vars, rowVars
  <1>9. OpenIsUntouched'
    BY <1>1, <1>2, <1>3 DEF OpenIsUntouched
  <1> QED
    BY <1>4, <1>5, <1>6, <1>7, <1>8, <1>9

\* What the transaction does to the target, whatever the target is.
LEMMA ModerateTargetKeeps ==
  ASSUME ReportsIInv, NEW t \in Targets, NEW o \in Outcomes,
         ModerateTarget(t, o)
  PROVE  /\ IInv'
         /\ shown' \subseteq Targets \ {"item"}
         /\ \A x \in Moderated(t, o) :
               /\ o \in {"hide", "unhide"}
               /\ IF x = "item" THEN standing'.hidden = (o = "hide")
                                ELSE x \in shown' <=> o = "unhide"
         /\ \A x \in Targets \ Moderated(t, o) :
               IF x = "item" THEN standing' = standing
                             ELSE x \in shown' <=> x \in shown
  <1> USE DEF Targets, Outcomes
  <1>1. calls' \in 0..MaxCalls
    BY DEF ModerateTarget, ReportsIInv, IInv, TypeOK
  <1>2. CASE o = "dismiss"
    <2>1. UNCHANGED <<rowVars, tagVars, call, shown>>
      BY <1>2 DEF ModerateTarget
    <2>2. IInv'
      BY <1>1, <2>1, ElsewhereKeeps DEF ReportsIInv
    <2> QED
      BY <1>2, <2>1, <2>2 DEF Moderated, rowVars, ReportsIInv, ReportsTypeOK
  <1>3. CASE t = "item" /\ o \in {"hide", "unhide"}
    <2>1. CASE row.life = "live"
      <3>1. WriteHidden(o = "hide") /\ shown' = shown
        BY <1>3, <2>1 DEF ModerateTarget, HideContentTx, UnhideContentTx
      <3>2. IInv'
        BY <1>1, <3>1, WriteHiddenKeeps DEF ReportsIInv
      <3>3. Moderated(t, o) = {"item"}
        BY <1>3, <2>1 DEF Moderated
      <3>4. standing'.hidden = (o = "hide")
        BY <3>1 DEF WriteHidden
      <3> QED
        BY <1>3, <3>1, <3>2, <3>3, <3>4 DEF ReportsIInv, ReportsTypeOK
    <2>2. CASE row.life # "live"
      <3>1. UNCHANGED <<rowVars, tagVars, call, shown>>
        BY <1>3, <2>2 DEF ModerateTarget, HideContentTx, UnhideContentTx
      <3>2. IInv'
        BY <1>1, <3>1, ElsewhereKeeps DEF ReportsIInv
      <3> QED
        BY <1>3, <2>2, <3>1, <3>2 DEF Moderated, rowVars, ReportsIInv,
           ReportsTypeOK
    <2> QED
      BY <2>1, <2>2
  <1>4. CASE t # "item" /\ o \in {"hide", "unhide"}
    <2>1. /\ UNCHANGED <<rowVars, tagVars, call>>
          /\ shown' = IF o = "hide" THEN shown \ (Thread(t) \intersect alive)
                                    ELSE shown \union ({t} \intersect alive)
      BY <1>4 DEF ModerateTarget, HideContentTx, UnhideContentTx
    <2>2. IInv'
      BY <1>1, <2>1, ElsewhereKeeps DEF ReportsIInv
    <2>3. /\ Moderated(t, o) = IF o = "hide" THEN Thread(t) \intersect alive
                                             ELSE {t} \intersect alive
          /\ "item" \notin Moderated(t, o)
      BY <1>4 DEF Moderated, ReportsIInv, ReportsTypeOK
    <2> QED
      BY <1>4, <2>1, <2>2, <2>3 DEF rowVars, ReportsIInv, ReportsTypeOK
  <1> QED
    BY <1>2, <1>3, <1>4

LEMMA ResolveTxKeeps ==
  ASSUME ReportsIInv, NEW a \in Admins, ResolveTx(a)
  PROVE  ReportsIInv'
  <1> USE DEF ReportsIInv, ReportsTypeOK
  <1> DEFINE r == handling[a].report
             o == handling[a].outcome
             t == TargetOf[r]
             done == IF o = "dismiss" THEN "dismissed" ELSE "resolved"
             moved == Moderated(t, o)
             after == [handling[a] EXCEPT !.stage = "notify"]
             held == {b \in Admins \ {a} : /\ handling[b].report = r
                                           /\ handling[b].stage = "read"}
  <1>1. /\ r # None /\ handling[a].stage = "read"
        /\ ModerateTarget(t, o)
        /\ status' = [status EXCEPT ![r] = done]
        /\ verdict' = [verdict EXCEPT ![r] = o]
        /\ last' = [x \in Targets |-> IF x \in moved THEN r ELSE last[x]]
        /\ handling' = [handling EXCEPT ![a] = after]
        /\ UNCHANGED <<alive, told>>
    BY DEF ResolveTx
  <1>2. contested' = contested \union (IF held = {} THEN {} ELSE {r})
    BY DEF ResolveTx
  <1>3. /\ r \in ReportIds /\ o \in Outcomes /\ t \in Targets
        /\ r \notin contested => status[r] = "pending"
        /\ handling[a] = Handling(r, o)
    <2>1. r \in ReportIds /\ o \in Outcomes
      BY <1>1 DEF HandlingFits
    <2>2. r \notin contested => status[r] = "pending"
      BY <1>1 DEF HandlingFits
    <2>3. handling[a] = Handling(r, o)
      BY <1>1 DEF Handling
    <2> QED
      BY <2>1, <2>2, <2>3
  <1>4. /\ after.report = r /\ after.outcome = o /\ after.stage = "notify"
        /\ after \in [report : ReportIds \union {None},
                      outcome : Outcomes \union {"none"},
                      stage : {"read", "notify"}]
    BY <1>3
  <1>5. /\ IInv' /\ shown' \subseteq Targets \ {"item"}
        /\ \A x \in moved : /\ o \in {"hide", "unhide"}
                            /\ IF x = "item" THEN standing'.hidden = (o = "hide")
                               ELSE x \in shown' <=> o = "unhide"
        /\ \A x \in Targets \ moved : IF x = "item" THEN standing' = standing
                                      ELSE x \in shown' <=> x \in shown
    BY <1>1, <1>3, ModerateTargetKeeps
  <1>6. /\ done \in {"resolved", "dismissed"}
        /\ o \in {"hide", "unhide"} => done = "resolved"
    OBVIOUS
  <1>7. r \notin contested' =>
          /\ r \notin contested
          /\ \A b \in Admins \ {a} : handling[b].report = r =>
                                       handling[b].stage # "read"
    BY <1>2
  <1>8. contested \subseteq contested' /\ contested' \subseteq contested \union {r}
    BY <1>2
  <1> HIDE DEF r, o, t, done, moved, after, held
  <1>9. ReportsTypeOK'
    BY <1>1, <1>3, <1>4, <1>5, <1>6, <1>8
  <1>10. HandlingFits'
    <2> SUFFICES ASSUME NEW b \in Admins
                 PROVE  LET h == handling'[b] IN
                          /\ h.report = None => h = Resting
                          /\ h.report # None =>
                                /\ h.outcome \in Outcomes
                                /\ status'[h.report] # "none"
                                /\ h.stage = "notify" =>
                                     status'[h.report] # "pending"
                                /\ h.report \notin contested' =>
                                     IF h.stage = "read"
                                     THEN status'[h.report] = "pending"
                                     ELSE verdict'[h.report] = h.outcome
      BY DEF HandlingFits
    <2>1. CASE b = a
      BY <1>1, <1>3, <1>4, <1>6, <2>1
    <2>2. CASE b # a
      <3>1. handling'[b] = handling[b]
        BY <1>1, <2>2
      <3>2. CASE handling[b].report # r
        BY <1>1, <1>3, <1>8, <3>1, <3>2 DEF HandlingFits
      <3>3. CASE handling[b].report = r
        <4>1. r \in contested'
          <5> SUFFICES ASSUME r \notin contested'
                       PROVE  FALSE
            OBVIOUS
          <5>1. handling[b].stage = "notify" /\ status[r] = "pending"
            BY <1>3, <1>7, <2>2, <3>3
          <5> QED
            BY <1>3, <3>3, <5>1 DEF HandlingFits
        <4> QED
          BY <1>1, <1>3, <1>6, <3>1, <3>3, <4>1 DEF HandlingFits
      <3> QED
        BY <3>2, <3>3
    <2> QED
      BY <2>1, <2>2
  <1>11. OpenIsUntouched'
    BY <1>1, <1>3, <1>6 DEF OpenIsUntouched
  <1>12. OneOutcome'
    BY <1>1, <1>3, <1>7, <1>8 DEF OneOutcome, OpenIsUntouched
  <1>13. /\ ModerationStands'
         /\ row'.hidden \in BOOLEAN /\ standing'.hidden \in BOOLEAN
    BY <1>5 DEF IInv, TypeOK, Row
  <1>14. VerdictIsDone'
    <2> SUFFICES ASSUME NEW x \in Targets,
                        last'[x] # None, last'[x] \notin contested'
                 PROVE  /\ status'[last'[x]] = "resolved"
                        /\ verdict'[last'[x]] = "hide" <=>
                              IF x = "item" THEN standing'.hidden
                                            ELSE x \notin shown'
      BY <1>13 DEF VerdictIsDone, ModerationStands
    <2>1. CASE x \in moved
      BY <1>1, <1>3, <1>5, <1>6, <2>1
    <2>2. CASE x \notin moved
      <3>1. last'[x] = last[x] /\ last[x] \in ReportIds
        BY <1>1, <2>2
      <3>2. last[x] # r
        BY <1>3, <1>7, <3>1 DEF OpenIsUntouched
      <3>3. /\ status'[last[x]] = status[last[x]]
            /\ verdict'[last[x]] = verdict[last[x]]
            /\ last[x] \notin contested
        BY <1>1, <1>3, <1>8, <3>1, <3>2
      <3> QED
        BY <1>5, <2>2, <3>1, <3>3 DEF VerdictIsDone
    <2> QED
      BY <2>1, <2>2
  <1> QED
    BY <1>5, <1>9, <1>10, <1>11, <1>12, <1>14

LEMMA CommentChangesKeeps ==
  ASSUME ReportsIInv, NEW c \in Targets \ {"item"}, CommentChanges(c)
  PROVE  ReportsIInv'
  <1> USE DEF ReportsIInv, ReportsTypeOK
  <1>1. /\ UNCHANGED <<rowVars, tagVars, call, status, verdict, handling, told,
                       contested>>
        /\ calls' \in 0..MaxCalls
    BY DEF CommentChanges, Counted, IInv, TypeOK
  <1>2. /\ shown' \subseteq Targets \ {"item"}
        /\ alive' \subseteq Targets \ {"item"}
        /\ last' \in [Targets -> ReportIds \union {None}]
        /\ \A t \in Targets : \/ last'[t] = None
                              \/ /\ last'[t] = last[t]
                                 /\ t \in shown' <=> t \in shown
    <2>1. CASE /\ shown' \in {shown \ Thread(c), shown \union {c}}
               /\ last' = [t \in Targets |->
                     IF (t \in shown) # (t \in shown') THEN None ELSE last[t]]
               /\ alive' = alive
      <3>1. shown' \subseteq Targets \ {"item"}
        BY <2>1
      <3> QED
        BY <2>1, <3>1
    <2>2. CASE alive' = alive \ {c} /\ UNCHANGED <<shown, last>>
      BY <2>2
    <2> QED
      BY <2>1, <2>2 DEF CommentChanges
  <1>3. IInv'
    BY <1>1, ElsewhereKeeps
  <1>4. ReportsTypeOK'
    BY <1>1, <1>2
  <1>5. HandlingFits' /\ OneOutcome'
    BY <1>1 DEF HandlingFits, OneOutcome
  <1>6. OpenIsUntouched'
    BY <1>1, <1>2 DEF OpenIsUntouched
  <1>7. VerdictIsDone'
    BY <1>1, <1>2 DEF VerdictIsDone, rowVars
  <1> QED
    BY <1>3, <1>4, <1>5, <1>6, <1>7

LEMMA ContentStepKeeps ==
  ASSUME ReportsIInv, ContentStep
  PROVE  ReportsIInv'
  <1> USE DEF ReportsIInv, ReportsTypeOK
  <1>1. IInv'
    BY NextKeeps DEF ContentStep
  <1>2. /\ UNCHANGED <<status, verdict, handling, shown, alive, told, contested>>
        /\ last' \in [Targets -> ReportIds \union {None}]
        /\ \A t \in Targets : \/ last'[t] = None
                              \/ /\ last'[t] = last[t]
                                 /\ t = "item" => standing' = standing
    BY DEF ContentStep
  <1>3. ReportsTypeOK'
    BY <1>2
  <1>4. HandlingFits' /\ OneOutcome'
    BY <1>2 DEF HandlingFits, OneOutcome
  <1>5. OpenIsUntouched'
    BY <1>2 DEF OpenIsUntouched
  <1>6. VerdictIsDone'
    <2>1. /\ ModerationStands'
          /\ row'.hidden \in BOOLEAN /\ standing'.hidden \in BOOLEAN
      BY <1>1 DEF IInv, TypeOK, Row
    <2>2. SUFFICES ASSUME NEW t \in Targets,
                          last'[t] # None, last'[t] \notin contested
                   PROVE  /\ status[last[t]] = "resolved"
                          /\ last'[t] = last[t]
                          /\ verdict[last[t]] = "hide" <=>
                                IF t = "item" THEN standing'.hidden
                                              ELSE t \notin shown
      BY <1>2, <2>1, <2>2 DEF VerdictIsDone, ModerationStands
    <2>3. last'[t] = last[t] /\ (t = "item" => standing' = standing)
      BY <1>2, <2>2
    <2> QED
      BY <2>2, <2>3 DEF VerdictIsDone
  <1> QED
    BY <1>1, <1>3, <1>4, <1>5, <1>6

LEMMA ReportsNextKeeps ==
  ASSUME ReportsIInv, [ReportsNext]_<<vars, reportVars>>
  PROVE  ReportsIInv'
  <1>1. CASE ContentStep
    BY <1>1, ContentStepKeeps
  <1>2. CASE \E r \in ReportIds : CreateReport(r)
    BY <1>2, CreateReportKeeps
  <1>3. CASE \E a \in Admins :
               \/ \E r \in ReportIds : ReadReport(a, r)
               \/ ResolveTx(a)
               \/ ResolveFails(a)
               \/ SendResolveNotifications(a)
    BY <1>3, ReadReportKeeps, ResolveTxKeeps, ResolveFailsKeeps, SendKeeps
  <1>4. CASE \E c \in Targets \ {"item"} : CommentChanges(c)
    BY <1>4, CommentChangesKeeps
  <1>5. CASE UNCHANGED <<vars, reportVars>>
    <2>1. IInv'
      BY <1>5, ElsewhereKeeps DEF vars, ReportsIInv, IInv, TypeOK
    <2> QED
      BY <1>5, <2>1 DEF reportVars, vars, rowVars, ReportsIInv, ReportsTypeOK,
         HandlingFits, OpenIsUntouched, VerdictIsDone, OneOutcome
  <1> QED
    BY <1>1, <1>2, <1>3, <1>4, <1>5 DEF ReportsNext

\* What an administrator at work knows of a report still holds, or the report
\* is contested.
THEOREM ReportsInvariant == ReportsSpec => []ReportsIInv
  BY InitReportsIInv, ReportsNextKeeps, PTL DEF ReportsSpec

\* The verdict a closed report shows is what was last done to its target.
THEOREM VerdictsAreDone == ReportsSpec => []VerdictIsDone
  <1>1. ReportsIInv => VerdictIsDone
    BY DEF ReportsIInv
  <1> QED
    BY <1>1, ReportsInvariant, PTL

\* A reporter hears of the recorded outcome and of no other.
THEOREM ReportersHearOnce == ReportsSpec => []OneOutcome
  <1>1. ReportsIInv => OneOutcome
    BY DEF ReportsIInv
  <1> QED
    BY <1>1, ReportsInvariant, PTL
=============================================================================
