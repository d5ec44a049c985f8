------------------------- MODULE NotificationOutbox -------------------------
(***************************************************************************)
(* The transactional outbox of internal/service/notification_outbox.go and *)
(* internal/repo/notification_outbox.go, with one publisher loop per       *)
(* running server process (internal/service/notification_mq.go).           *)
(*                                                                         *)
(* An interaction (like, favourite, comment) and its outbox row commit in  *)
(* one MySQL transaction.  Publisher loops claim rows under a time-bounded *)
(* lease, hand each one to RabbitMQ, and record the outcome on the row.    *)
(*                                                                         *)
(* Time is abstract: a row's timer (next_retry_at of a pending row,        *)
(* locked_until of a publishing one) has fired or has not, and it may fire *)
(* at any moment relative to the loops' steps, which also covers the clock *)
(* skew between the processes whose time.Now() is compared with it.        *)
(***************************************************************************)
EXTENDS Naturals

CONSTANTS
    Events,     \* outbox rows, named by their auto-increment id
    Workers,    \* publisher loops, one per running process
    Tokens,     \* lease tokens that newEventID can return
    NoEvent,    \* "no row" in a loop's memory
    NoToken     \* the empty lease_token

ASSUME EventsAssumption == Events \subseteq Nat /\ NoEvent \notin Events
ASSUME TokensAssumption == NoToken \notin Tokens

VARIABLES
    tx,         \* tx[e]: the business transaction that writes row e
    status,     \* status[e]: the committed status column of row e
    token,      \* token[e]: its lease_token column
    ripe,       \* ripe[e]: its next_retry_at or locked_until has passed
    phase,      \* phase[w]: where loop w is in runOne
    job,        \* job[w]: the row loop w is working on
    held,       \* held[w]: the token loop w wrote on that row
    accepted,   \* history: events RabbitMQ has stored at least once
    stable      \* TRUE once processes, MySQL and RabbitMQ fail no more

vars == <<tx, status, token, ripe, phase, job, held, accepted, stable>>
rowVars == <<tx, status, token, ripe>>
workerVars == <<phase, job, held>>

Status == {"absent", "pending", "publishing", "published"}

Phase == {"offline",    \* no RabbitMQ connection: reconnecting, or crashed
          "idle",       \* connected, between two calls of runOne
          "selecting",  \* inside ClaimNext's transaction, the row locked
          "claimed",    \* ClaimNext has committed, Publish not yet called
          "confirmed",  \* Publish returned nil
          "failed"}     \* Publish returned an error

-----------------------------------------------------------------------------
(* Helpers.                                                                *)

\* Mutant: ClaimNext forgets the rows whose lease has run out.
EligiblePendingOnly(e) == status[e] = "pending" /\ ripe[e]

\* The WHERE clause of ClaimNext.
Eligible(e) == status[e] \in {"pending", "publishing"} /\ ripe[e]

\* Rows locked by a ClaimNext transaction that has not finished.
Locked == {job[w] : w \in {v \in Workers : phase[v] = "selecting"}}

\* Mutants: the outcome is recorded without the token, or by id alone.
HoldsAnyLease(w) == status[job[w]] = "publishing"
HoldsById(w) == job[w] \in Events

\* The WHERE clause of MarkPublished and MarkRetry: id, status and token.
HoldsLease(w) == status[job[w]] = "publishing" /\ token[job[w]] = held[w]

\* Mutant: the token is one a loop or a row may already carry.
AnyToken(t) == t \in Tokens

\* newEventID draws 128 random bits: a token nobody else remembers.
Fresh(t) == /\ \A e \in Events : token[e] # t
            /\ \A w \in Workers : held[w] # t

\* What a loop remembers after it drops its work: nothing.
Forget(w, p) == /\ phase' = [phase EXCEPT ![w] = p]
                /\ job' = [job EXCEPT ![w] = NoEvent]
                /\ held' = [held EXCEPT ![w] = NoToken]

Init == /\ tx = [e \in Events |-> "none"]
        /\ status = [e \in Events |-> "absent"]
        /\ token = [e \in Events |-> NoToken]
        /\ ripe = [e \in Events |-> FALSE]
        /\ phase = [w \in Workers |-> "offline"]
        /\ job = [w \in Workers |-> NoEvent]
        /\ held = [w \in Workers |-> NoToken]
        /\ accepted = {}
        /\ stable = FALSE

-----------------------------------------------------------------------------
(* The interaction's transaction.                                          *)

\* Mutant: the row is written on a connection of its own.
EnqueueOutsideTx(e) == /\ tx[e] = "none"
                       /\ tx' = [tx EXCEPT ![e] = "open"]
                       /\ status' = [status EXCEPT ![e] = "pending"]
                       /\ ripe' = [ripe EXCEPT ![e] = TRUE]
                       /\ UNCHANGED <<token, workerVars, accepted, stable>>

\* The handler has opened its transaction and called EnqueueInTx; the row
\* is invisible to the publishers.
EnqueueInTx(e) == /\ tx[e] = "none"
                  /\ tx' = [tx EXCEPT ![e] = "open"]
                  /\ UNCHANGED <<status, token, ripe, workerVars, accepted,
                                 stable>>

\* COMMIT: the interaction and its pending row appear together.
Commit(e) == /\ tx[e] = "open"
             /\ tx' = [tx EXCEPT ![e] = "committed"]
             /\ status' = [status EXCEPT ![e] = "pending"]
             /\ ripe' = [ripe EXCEPT ![e] = TRUE]
             /\ UNCHANGED <<token, workerVars, accepted, stable>>

\* Any error in the transaction's function, or a crash, rolls both back.
Rollback(e) == /\ tx[e] = "open"
               /\ tx' = [tx EXCEPT ![e] = "rolledback"]
               /\ UNCHANGED <<status, token, ripe, workerVars, accepted,
                              stable>>

-----------------------------------------------------------------------------
(* The publisher loop.                                                     *)

\* publisherLoop reaches RabbitMQ and enters runPublisherConnection.
Connect(w) == /\ phase[w] = "offline"
              /\ phase' = [phase EXCEPT ![w] = "idle"]
              /\ UNCHANGED <<rowVars, job, held, accepted, stable>>

\* Mutant: a plain SELECT, without FOR UPDATE SKIP LOCKED.
ClaimUnlocked(w, e, t) ==
    /\ phase[w] = "idle"
    /\ Eligible(e) /\ \A f \in Events : Eligible(f) => e <= f
    /\ Fresh(t)
    /\ phase' = [phase EXCEPT ![w] = "selecting"]
    /\ job' = [job EXCEPT ![w] = e]
    /\ held' = [held EXCEPT ![w] = t]
    /\ UNCHANGED <<rowVars, accepted, stable>>

\* SELECT ... FOR UPDATE SKIP LOCKED ORDER BY id: the oldest eligible row
\* that no other claim has locked.
ClaimSelect(w, e, t) ==
    LET free == {f \in Events : Eligible(f)} \ Locked
    IN  /\ phase[w] = "idle"
        /\ e \in free /\ \A f \in free : e <= f
        /\ Fresh(t)
        /\ phase' = [phase EXCEPT ![w] = "selecting"]
        /\ job' = [job EXCEPT ![w] = e]
        /\ held' = [held EXCEPT ![w] = t]
        /\ UNCHANGED <<rowVars, accepted, stable>>

\* The UPDATE of ClaimNext and its COMMIT.
ClaimCommit(w) ==
    /\ phase[w] = "selecting"
    /\ phase' = [phase EXCEPT ![w] = "claimed"]
    /\ status' = [status EXCEPT ![job[w]] = "publishing"]
    /\ token' = [token EXCEPT ![job[w]] = held[w]]
    /\ ripe' = [ripe EXCEPT ![job[w]] = FALSE]
    /\ UNCHANGED <<tx, job, held, accepted, stable>>

\* Publish returns nil: RabbitMQ routed the message and confirmed it.
PublishAccepted(w) ==
    /\ phase[w] = "claimed"
    /\ phase' = [phase EXCEPT ![w] = "confirmed"]
    /\ accepted' = accepted \cup {job[w]}
    /\ UNCHANGED <<rowVars, job, held, stable>>

\* Mutant: the error of a refused publish is ignored.
RefusalIgnored(w) ==
    /\ ~stable
    /\ phase[w] = "claimed"
    /\ phase' = [phase EXCEPT ![w] = "confirmed"]
    /\ UNCHANGED <<rowVars, job, held, accepted, stable>>

\* Publish returns an error and nothing was stored: a closed channel, a
\* negative acknowledgement, or a mandatory message returned as unroutable.
PublishRefused(w) ==
    /\ ~stable
    /\ phase[w] = "claimed"
    /\ phase' = [phase EXCEPT ![w] = "failed"]
    /\ UNCHANGED <<rowVars, job, held, accepted, stable>>

\* Publish returns an error although RabbitMQ has stored the message: the
\* connection closed or the context ended before the confirm arrived.
PublishUnconfirmed(w) ==
    /\ ~stable
    /\ phase[w] = "claimed"
    /\ phase' = [phase EXCEPT ![w] = "failed"]
    /\ accepted' = accepted \cup {job[w]}
    /\ UNCHANGED <<rowVars, job, held, stable>>

\* MarkPublished matched the row; runOne returns 1 and the batch goes on.
MarkPublished(w) ==
    /\ phase[w] = "confirmed"
    /\ HoldsLease(w)
    /\ job[w] \notin Locked
    /\ status' = [status EXCEPT ![job[w]] = "published"]
    /\ token' = [token EXCEPT ![job[w]] = NoToken]
    /\ ripe' = [ripe EXCEPT ![job[w]] = FALSE]
    /\ Forget(w, "idle")
    /\ UNCHANGED <<tx, accepted, stable>>

\* MarkRetry matched the row: pending again, after a delay.  runOne returns
\* the publish error, so the loop reconnects.
MarkRetry(w) ==
    /\ phase[w] = "failed"
    /\ HoldsLease(w)
    /\ job[w] \notin Locked
    /\ status' = [status EXCEPT ![job[w]] = "pending"]
    /\ token' = [token EXCEPT ![job[w]] = NoToken]
    /\ ripe' = [ripe EXCEPT ![job[w]] = FALSE]
    /\ Forget(w, "offline")
    /\ UNCHANGED <<tx, accepted, stable>>

\* MarkPublished or MarkRetry matched no row: the lease is lost.  runOne
\* returns that error and the loop reconnects.
LeaseLost(w) ==
    /\ phase[w] \in {"confirmed", "failed"}
    /\ ~HoldsLease(w)
    /\ Forget(w, "offline")
    /\ UNCHANGED <<rowVars, accepted, stable>>

\* The process crashes, or MySQL fails in ClaimNext, MarkPublished or
\* MarkRetry, or the connection closes: the loop starts over and remembers
\* nothing; an unfinished ClaimNext transaction rolls back.
Abandon(w) == /\ ~stable
              /\ phase[w] # "offline"
              /\ Forget(w, "offline")
              /\ UNCHANGED <<rowVars, accepted, stable>>

-----------------------------------------------------------------------------
(* The environment.                                                        *)

\* A row's timer passes.  Before the system is stable a lease may expire
\* under a slow loop; afterwards the 30 s lease outlasts a healthy publish,
\* and only a lease whose holder has gone runs out.
TimerFires(e) ==
    /\ status[e] \in {"pending", "publishing"}
    /\ ~ripe[e]
    /\ stable => \A w \in Workers : job[w] = e => ~HoldsLease(w)
    /\ ripe' = [ripe EXCEPT ![e] = TRUE]
    /\ UNCHANGED <<tx, status, token, workerVars, accepted, stable>>

\* The README's replay statement, run by an operator after a dead letter.
\* ClaimNext takes the oldest row first, so an operator who replayed old rows
\* for ever would starve the young ones: replays end with the faults.
Replay(e) == /\ ~stable
             /\ status[e] = "published"
             /\ status' = [status EXCEPT ![e] = "pending"]
             /\ token' = [token EXCEPT ![e] = NoToken]
             /\ ripe' = [ripe EXCEPT ![e] = TRUE]
             /\ UNCHANGED <<tx, workerVars, accepted, stable>>

\* From some moment on nothing fails any more and nothing is replayed.
Stabilise == /\ ~stable
             /\ stable' = TRUE
             /\ UNCHANGED <<rowVars, workerVars, accepted>>

-----------------------------------------------------------------------------

\* The steps of loop w that bring its work forward.
Progress(w) == \/ Connect(w)
               \/ \E e \in Events, t \in Tokens : ClaimSelect(w, e, t)
               \/ ClaimCommit(w)
               \/ PublishAccepted(w)
               \/ MarkPublished(w)
               \/ MarkRetry(w)
               \/ LeaseLost(w)

Fault(w) == PublishRefused(w) \/ PublishUnconfirmed(w) \/ Abandon(w)

Interaction(e) == EnqueueInTx(e) \/ Commit(e) \/ Rollback(e)

Next == \/ \E e \in Events : Interaction(e) \/ TimerFires(e) \/ Replay(e)
        \/ \E w \in Workers : Progress(w) \/ Fault(w)
        \/ Stabilise

Spec == Init /\ [][Next]_vars

\* Loops are goroutines that keep running, timers pass, faults end.  The
\* operator and the users owe nothing.
Fairness == /\ \A w \in Workers : WF_vars(Progress(w))
            /\ \A e \in Events : WF_vars(TimerFires(e))
            /\ WF_vars(Stabilise)

FairSpec == Spec /\ Fairness

-----------------------------------------------------------------------------
(* Properties.                                                             *)

TypeOK ==
    /\ tx \in [Events -> {"none", "open", "committed", "rolledback"}]
    /\ status \in [Events -> Status]
    /\ token \in [Events -> Tokens \cup {NoToken}]
    /\ ripe \in [Events -> BOOLEAN]
    /\ phase \in [Workers -> Phase]
    /\ job \in [Workers -> Events \cup {NoEvent}]
    /\ held \in [Workers -> Tokens \cup {NoToken}]
    /\ accepted \subseteq Events
    /\ stable \in BOOLEAN

\* Nothing published is lost on the way: a row says "published" only if
\* RabbitMQ has stored its message, whichever loop published it, however
\* many loops raced for it and wherever they crashed (MarkPublished after a
\* confirmed Publish, runOne).
PublishedWasAccepted ==
    \A e \in Events : status[e] = "published" => e \in accepted

\* One commit boundary: a row is visible, and a message leaves for
\* RabbitMQ, exactly for interactions that have committed (EnqueueInTx in
\* the business transaction).
OneCommitBoundary ==
    /\ \A e \in Events : status[e] # "absent" <=> tx[e] = "committed"
    /\ \A e \in accepted : tx[e] = "committed"

\* Mutual exclusion by lease: no two loops can both still record an outcome
\* on the same row (SKIP LOCKED, and a fresh token for each claim).
OneLeaseHolder ==
    \A v, w \in Workers :
        /\ v # w
        /\ {phase[v], phase[w]} \subseteq {"claimed", "confirmed", "failed"}
        /\ job[v] = job[w]
        => ~(HoldsLease(v) /\ HoldsLease(w))

\* No two transactions hold the row lock of the same row, and a row being
\* re-claimed has been let go by time, not taken from a live lease.
ClaimIsExclusive ==
    \A v \in Workers : phase[v] = "selecting" =>
        /\ Eligible(job[v])
        /\ \A w \in Workers :
              phase[w] = "selecting" /\ job[v] = job[w] => v = w

\* While row e is being published, only the loop whose token it carries
\* moves it on, or a claim made after the lease ran out.
OutcomeIsFenced(e) ==
    status[e] = "publishing" =>
        \/ status'[e] = "publishing" /\ (ripe[e] \/ token'[e] = token[e])
        \/ \E w \in Workers : /\ job[w] = e /\ held[w] = token[e]
                             /\ phase[w] \in {"confirmed", "failed"}

\* Fencing: a loop whose lease was taken over changes nothing any more,
\* however late its MarkPublished or MarkRetry arrives ("the lease token
\* fences stale workers").
StaleWorkersAreFenced == [][\A e \in Events : OutcomeIsFenced(e)]_vars

\* A late MarkRetry or claim never re-opens a published row: only the
\* operator does, and no loop takes part in that step.
PublishedStaysPublished ==
    [][\A e \in Events : status[e] = "published" /\ status'[e] # "published"
                         => UNCHANGED workerVars]_vars

\* Every committed event is eventually published, across crashes, lost
\* leases, lost confirms and retries, once the infrastructure is stable.
CommittedIsPublished ==
    \A e \in Events : tx[e] = "committed" ~> status[e] = "published"

-----------------------------------------------------------------------------
(* The inductive invariant behind the safety properties.                   *)

\* What a loop in the middle of its work knows.
WorkerKnows(w) ==
    /\ phase[w] \in {"offline", "idle"} <=> job[w] = NoEvent
    /\ job[w] = NoEvent <=> held[w] = NoToken
    /\ phase[w] = "selecting" =>
         Eligible(job[w]) /\ \A e \in Events : token[e] # held[w]
    /\ phase[w] # "offline" /\ phase[w] # "idle" => status[job[w]] # "absent"
    /\ phase[w] = "confirmed" => job[w] \in accepted

\* A token is in the memory of at most one loop.
TokensAreDistinct ==
    \A v, w \in Workers : v # w /\ held[v] # NoToken => held[v] # held[w]

IInv == /\ TypeOK
        /\ \A w \in Workers : WorkerKnows(w)
        /\ TokensAreDistinct
        /\ PublishedWasAccepted
        /\ OneCommitBoundary
        /\ ClaimIsExclusive
=============================================================================
