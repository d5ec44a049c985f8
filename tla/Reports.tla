------------------------------- MODULE Reports -------------------------------
(***************************************************************************)
(* Reports on an item, a comment of it or a reply to that comment, and the *)
(* administrators who resolve them (internal/service/report.go), beside    *)
(* everything that can happen to the item in Content.                      *)
(*                                                                         *)
(* Resolve reads the report and checks that it is pending; one transaction *)
(* then moderates the target and saves the report, without looking at it   *)
(* again.  What follows - the removal from the day's ranking, see          *)
(* ContentRanking, and the notifications - may fail unnoticed.             *)
(***************************************************************************)
EXTENDS Content

CONSTANTS
    Admins,      \* administrators resolving reports
    ReportIds,   \* ids of reports
    TargetOf,    \* TargetOf[r]: what report r is about
    None         \* no report

Targets == {"item", "comment", "reply"}

ASSUME ReportsAssumption == /\ TargetOf \in [ReportIds -> Targets]
                            /\ None \notin ReportIds

Outcomes == {"hide", "unhide", "dismiss"}

VARIABLES
    status,     \* status[r]: "none", "pending", "resolved" or "dismissed"
    verdict,    \* verdict[r]: the handle result saved last, or "none"
    handling,   \* handling[a]: the report a has read and what a will do
    shown,      \* the comments that are not hidden
    alive,      \* the comments that are not deleted
    told,       \* told[r]: outcomes the reporter was notified of
    last,       \* history: last[t]: the report that moderated target t last
    contested   \* history: reports saved while another handling held them

reportVars == <<status, verdict, handling, shown, alive, told, last, contested>>

Handling(r, o) == [report |-> r, outcome |-> o, stage |-> "read"]
Resting == Handling(None, "none")

ReportsTypeOK ==
    /\ status \in [ReportIds -> {"none", "pending", "resolved", "dismissed"}]
    /\ verdict \in [ReportIds -> Outcomes \union {"none"}]
    /\ handling \in [Admins -> [report : ReportIds \union {None},
                                outcome : Outcomes \union {"none"},
                                stage : {"read", "notify"}]]
    /\ shown \subseteq Targets \ {"item"}
    /\ alive \subseteq Targets \ {"item"}
    /\ told \in [ReportIds -> SUBSET Outcomes]
    /\ last \in [Targets -> ReportIds \union {None}]
    /\ contested \subseteq ReportIds

ReportsInit ==
    /\ Init
    /\ status = [r \in ReportIds |-> "none"]
    /\ verdict = [r \in ReportIds |-> "none"]
    /\ handling = [a \in Admins |-> Resting]
    /\ shown = Targets \ {"item"}
    /\ alive = Targets \ {"item"}
    /\ told = [r \in ReportIds |-> {}]
    /\ last = [t \in Targets |-> None]
    /\ contested = {}

-----------------------------------------------------------------------------
\* The target must exist; it may be hidden, and it may be reported twice.
ValidTarget(t) == IF t = "item" THEN row.life = "live" ELSE t \in alive

CreateReport(r) ==
    /\ status[r] = "none"
    /\ ValidTarget(TargetOf[r])
    /\ status' = [status EXCEPT ![r] = "pending"]
    /\ UNCHANGED <<vars, verdict, handling, shown, alive, told, last, contested>>

\* Mutant: a closed report may be taken up again.
ReadAnyReport(a, r) ==
    /\ handling[a] = Resting
    /\ status[r] # "none"
    /\ \E o \in Outcomes :
          handling' = [handling EXCEPT ![a] = Handling(r, o)]
    /\ UNCHANGED <<vars, status, verdict, shown, alive, told, last, contested>>

\* The first half of Resolve.
ReadReport(a, r) ==
    /\ handling[a] = Resting
    /\ status[r] = "pending"
    /\ \E o \in Outcomes :
          handling' = [handling EXCEPT ![a] = Handling(r, o)]
    /\ UNCHANGED <<vars, status, verdict, shown, alive, told, last, contested>>

\* A comment is hidden with its replies, and shown again alone.
Thread(t) == IF t = "comment" THEN {"comment", "reply"} ELSE {t}

\* Mutant: the replies stay.
HideAloneTx(t) ==
    IF t = "item"
    THEN /\ IF row.life = "live" THEN WriteHidden(TRUE)
                                 ELSE UNCHANGED <<rowVars, tagVars, call>>
         /\ shown' = shown
    ELSE /\ shown' = shown \ ({t} \intersect alive)
         /\ UNCHANGED <<rowVars, tagVars, call>>

HideContentTx(t) ==
    IF t = "item"
    THEN /\ IF row.life = "live" THEN WriteHidden(TRUE)
                                 ELSE UNCHANGED <<rowVars, tagVars, call>>
         /\ shown' = shown
    ELSE /\ shown' = shown \ (Thread(t) \intersect alive)
         /\ UNCHANGED <<rowVars, tagVars, call>>

UnhideContentTx(t) ==
    IF t = "item"
    THEN /\ IF row.life = "live" THEN WriteHidden(FALSE)
                                 ELSE UNCHANGED <<rowVars, tagVars, call>>
         /\ shown' = shown
    ELSE /\ shown' = shown \union ({t} \intersect alive)
         /\ UNCHANGED <<rowVars, tagVars, call>>

\* The rows an outcome changes: none when the target is gone by then.
Moderated(t, o) ==
    CASE o = "hide" /\ t # "item" -> Thread(t) \intersect alive
      [] o = "unhide" /\ t # "item" -> {t} \intersect alive
      [] o # "dismiss" /\ t = "item" /\ row.life = "live" -> {t}
      [] OTHER -> {}

ModerateTarget(t, o) ==
    /\ \/ o = "hide" /\ HideContentTx(t)
       \/ o = "unhide" /\ UnhideContentTx(t)
       \/ o = "dismiss" /\ UNCHANGED <<rowVars, tagVars, call, shown>>
    /\ calls' = calls

\* The transaction: the content and the report, together.
ResolveTx(a) ==
    LET r == handling[a].report
        o == handling[a].outcome
        t == TargetOf[r]
    IN /\ r # None
       /\ handling[a].stage = "read"
       /\ ModerateTarget(t, o)
       /\ status' = [status EXCEPT ![r] = IF o = "dismiss" THEN "dismissed"
                                                           ELSE "resolved"]
       /\ verdict' = [verdict EXCEPT ![r] = o]
       /\ last' = [x \in Targets |-> IF x \in Moderated(t, o) THEN r
                                                              ELSE last[x]]
       /\ contested' = contested \union
             {x \in {r} : \E b \in Admins \ {a} : /\ handling[b].report = r
                                                  /\ handling[b].stage = "read"}
       /\ handling' = [handling EXCEPT ![a].stage = "notify"]
       /\ UNCHANGED <<alive, told>>

\* It fails: the handler returns the error and nothing has changed.
ResolveFails(a) ==
    /\ handling[a].report # None
    /\ handling[a].stage = "read"
    /\ handling' = [handling EXCEPT ![a] = Resting]
    /\ UNCHANGED <<vars, status, verdict, shown, alive, told, last, contested>>

\* The reporter's notification, if it can be written; of a hiding and of a
\* dismissal alone.
SendResolveNotifications(a) ==
    LET r == handling[a].report
        o == handling[a].outcome
    IN /\ handling[a].stage = "notify"
       /\ told' \in {told, [told EXCEPT ![r] = @ \union ({o} \ {"unhide"})]}
       /\ handling' = [handling EXCEPT ![a] = Resting]
       /\ UNCHANGED <<vars, status, verdict, shown, alive, last, contested>>

\* An administrator moderates a comment without a report (HideComment and
\* UnhideComment, see Engagement), or its author deletes it.
CommentChanges(c) ==
    /\ c \in alive
    /\ \/ /\ shown' \in {shown \ Thread(c), shown \union {c}}
          /\ last' = [t \in Targets |->
                IF (t \in shown) # (t \in shown') THEN None ELSE last[t]]
          /\ alive' = alive
       \/ alive' = alive \ {c} /\ UNCHANGED <<shown, last>>
    /\ Counted
    /\ UNCHANGED <<rowVars, tagVars, call, status, verdict, handling, told,
                   contested>>

\* Anything else that happens to the item.
ContentStep ==
    /\ Next
    /\ last' = IF standing' = standing THEN last
                                       ELSE [last EXCEPT !["item"] = None]
    /\ UNCHANGED <<status, verdict, handling, shown, alive, told, contested>>

ReportsNext ==
    \/ ContentStep
    \/ \E r \in ReportIds : CreateReport(r)
    \/ \E a \in Admins :
          \/ \E r \in ReportIds : ReadReport(a, r)
          \/ ResolveTx(a)
          \/ ResolveFails(a)
          \/ SendResolveNotifications(a)
    \/ \E c \in Targets \ {"item"} : CommentChanges(c)

ReportsSpec == ReportsInit /\ [][ReportsNext]_<<vars, reportVars>>

-----------------------------------------------------------------------------
\* The verdict a closed report shows is what was done to its target: if the
\* report was the last to moderate a row, that row is as the verdict says,
\* unless two administrators held the report at once or a Save overlapped
\* the hiding of an item.
VerdictIsDone ==
    \A t \in Targets : LET r == last[t] IN
        r # None /\ r \notin contested =>
            /\ status[r] = "resolved"
            /\ verdict[r] = "hide" <=>
                  IF t = "item" THEN standing.hidden ELSE t \notin shown
            /\ t = "item" /\ standing.firm => row.hidden = (verdict[r] = "hide")

\* A reporter hears of one outcome only, the one recorded, unless two
\* administrators held the report at once.
OneOutcome ==
    \A r \in ReportIds \ contested : told[r] \subseteq {verdict[r]}

-----------------------------------------------------------------------------
(* Why it holds: what an administrator at work may rely on.                *)

\* A report read is still pending, and a verdict saved is the administrator's,
\* unless two held the report at once.
HandlingFits ==
    \A a \in Admins : LET h == handling[a] IN
        /\ h.report = None => h = Resting
        /\ h.report # None =>
              /\ h.outcome \in Outcomes
              /\ status[h.report] # "none"
              /\ h.stage = "notify" => status[h.report] # "pending"
              /\ h.report \notin contested =>
                    IF h.stage = "read" THEN status[h.report] = "pending"
                    ELSE verdict[h.report] = h.outcome

\* Nothing is done or told of a report before its verdict is saved.
OpenIsUntouched ==
    \A r \in ReportIds : status[r] \in {"none", "pending"} =>
        told[r] = {} /\ \A t \in Targets : last[t] # r

\* The inductive invariant of the item and its reports.
ReportsIInv == /\ IInv
               /\ ReportsTypeOK /\ HandlingFits /\ OpenIsUntouched
               /\ VerdictIsDone /\ OneOutcome
=============================================================================
