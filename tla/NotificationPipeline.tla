------------------------ MODULE NotificationPipeline ------------------------
(***************************************************************************)
(* The whole path of a notification: RabbitMQ and the consumer loops       *)
(* (NotificationDelivery, which this module extends) with the outbox and   *)
(* its publisher loops (NotificationOutbox) before them.  The two meet     *)
(* where a publish stores a message: rabbitOutboxPublisher.Publish, when   *)
(* RabbitMQ accepts it, is one step of both.  They share the history       *)
(* `accepted` and the end of faults `stable`.                              *)
(***************************************************************************)
EXTENDS NotificationDelivery

CONSTANTS Workers, Tokens, NoToken

ASSUME PipelineAssumption == Events \subseteq Nat /\ NoToken \notin Tokens

VARIABLES tx, status, token, ripe, phase, job, held

Outbox == INSTANCE NotificationOutbox

outboxVars == <<tx, status, token, ripe, phase, job, held>>
pipelineVars == <<outboxVars, deliveryVars, accepted, stable>>

PipelineInit == Outbox!Init /\ Init

-----------------------------------------------------------------------------

\* A publish that stores the message in the main queue, confirmed or not.
PublishConfirmed(w) == Outbox!PublishAccepted(w) /\ Accept(job[w])

PublishUnconfirmed(w) == Outbox!PublishUnconfirmed(w) /\ Accept(job[w])

\* The loop's other steps touch the outbox table only.
WorkerStep(w) == /\ \/ Outbox!Connect(w)
                    \/ \E e \in Events, t \in Tokens :
                         Outbox!ClaimSelect(w, e, t)
                    \/ Outbox!ClaimCommit(w)
                    \/ Outbox!MarkPublished(w)
                    \/ Outbox!MarkRetry(w)
                    \/ Outbox!LeaseLost(w)
                 /\ UNCHANGED deliveryVars

WorkerFault(w) == /\ Outbox!PublishRefused(w) \/ Outbox!Abandon(w)
                  /\ UNCHANGED deliveryVars

RowStep(e) == /\ Outbox!Interaction(e) \/ Outbox!Replay(e)
              /\ UNCHANGED deliveryVars

TimerFires(e) == Outbox!TimerFires(e) /\ UNCHANGED deliveryVars

\* What comes after the publish does not touch the table.
DeliverStep(m) == /\ \E c \in Consumers : Deliver(c, m)
                  /\ UNCHANGED outboxVars

RetryStep(m) == RetryDelayEnds(m) /\ UNCHANGED outboxVars

ConsumerStep(c) == Handle(c) /\ UNCHANGED outboxVars

ConsumerFault(c) == Fault(c) /\ UNCHANGED outboxVars

PurgeStep(e) == Purge(e) /\ UNCHANGED outboxVars

FaultsEnd == Outbox!Stabilise /\ Stabilise

WorkerProgress(w) == WorkerStep(w) \/ PublishConfirmed(w)

PipelineNext ==
    \/ \E e \in Events : RowStep(e) \/ TimerFires(e) \/ PurgeStep(e)
    \/ \E w \in Workers : \/ WorkerProgress(w)
                          \/ PublishUnconfirmed(w)
                          \/ WorkerFault(w)
    \/ \E m \in Copies : DeliverStep(m) \/ RetryStep(m)
    \/ \E c \in Consumers : ConsumerStep(c) \/ ConsumerFault(c)
    \/ FaultsEnd

PipelineSpec == PipelineInit /\ [][PipelineNext]_pipelineVars

\* The fairness of the two parts, on their joint steps.
PipelineFairness ==
    /\ \A w \in Workers : WF_pipelineVars(WorkerProgress(w))
    /\ \A e \in Events : WF_pipelineVars(TimerFires(e))
    /\ \A c \in Consumers : WF_pipelineVars(ConsumerStep(c))
    /\ \A m \in Copies : /\ WF_pipelineVars(RetryStep(m))
                         /\ SF_pipelineVars(DeliverStep(m))
    /\ WF_pipelineVars(FaultsEnd)

PipelineFairSpec == PipelineSpec /\ PipelineFairness

-----------------------------------------------------------------------------
(* Properties.                                                             *)

PipelineTypeOK == Outbox!TypeOK /\ TypeOK

\* A committed interaction's notification is always somewhere: still to be
\* published from MySQL, or queued, stored or dead-lettered.  No crash or
\* race between the commit, the publish, the mark, the insert and the ack
\* opens a gap.
CommittedIsNeverLost ==
    \A e \in Events : tx[e] = "committed" =>
        \/ status[e] \in {"pending", "publishing"}
        \/ InCustody(e)

\* A notification exists only for an interaction that committed, and once,
\* even if the event is published by several loops and replayed.
NotifiedOnceIfCommitted ==
    \A e \in Events : /\ stored[e] <= 1
                      /\ stored[e] > 0 => tx[e] = "committed"

\* The operator's replay works: an event re-opened after a dead letter is
\* notified, once faults have ended ("Outbox Publisher 会使用原事件 ID 补发").
ReopenedIsNotified ==
    \A e \in Events : stable /\ status[e] = "pending" ~> stored[e] > 0

\* The pipeline keeps the promise: its steps are the promise's, and every
\* debt is settled.
Promise == INSTANCE NotificationPromise WITH
             owed <- {e \in Events : tx[e] = "committed"},
             told <- {e \in Events : stored[e] > 0},
             parked <- dead

PromiseSafe == Promise!SafeSpec
PromiseKept == Promise!Spec
=============================================================================
