---------------------- MODULE NotificationPipeline_proofs ----------------------
(***************************************************************************)
(* Machine-checked proofs about the delivery side of the pipeline, alone,  *)
(* and about the whole pipeline: a step of the pipeline is a step, or a    *)
(* stutter, of each of its two parts, so what is proved of the parts (the  *)
(* outbox: NotificationOutbox_proofs) holds of the pipeline.               *)
(***************************************************************************)
EXTENDS NotificationPipeline, TLAPS

OutboxProofs == INSTANCE NotificationOutbox_proofs

USE DeliveryAssumption

-----------------------------------------------------------------------------
(* The delivery side, alone (Spec): for any set of events, any number of   *)
(* consumer loops and of queued messages, and any retry limit.             *)

LEMMA DeliveryInit == Init => IInv
  <1> SUFFICES ASSUME Init
               PROVE  IInv
    OBVIOUS
  <1>1. TypeOK
    <2>1. 0 \in 0..MaxRetries
      OBVIOUS
    <2> QED
      BY <2>1 DEF Init, TypeOK, Place, Step
  <1>2. NotifiedOnce /\ TakenByOneConsumer /\ CopiesHaveBodies
    BY DEF Init, NotifiedOnce, TakenByOneConsumer, CopiesHaveBodies
  <1>3. LoopHoldsItsCopy /\ AckIsSafe /\ NoEventLost
    BY DEF Init, LoopHoldsItsCopy, AckIsSafe, NoEventLost
  <1> QED
    BY <1>1, <1>2, <1>3 DEF IInv

LEMMA DeliveryNext == IInv /\ [Next]_vars => IInv'
  <1> SUFFICES ASSUME IInv, [Next]_vars
               PROVE  IInv'
    OBVIOUS
  <1> USE DEF IInv, TypeOK, LoopHoldsItsCopy, CopiesHaveBodies,
              queueVars, consumerVars, deliveryVars
  <1>1. ASSUME NEW e \in Events, Accept(e)
        PROVE  IInv'
    <2>1. TypeOK' /\ NotifiedOnce'
      BY <1>1 DEF Accept, Put, Place, Step, NotifiedOnce
    <2>2. TakenByOneConsumer' /\ CopiesHaveBodies' /\ LoopHoldsItsCopy'
      BY <1>1 DEF Accept, Put, TakenByOneConsumer
    <2>3. AckIsSafe'
      BY <1>1 DEF Accept, Put, AckIsSafe
    <2>4. NoEventLost'
      BY <1>1 DEF Accept, Put, NoEventLost, InCustody
    <2> QED
      BY <2>1, <2>2, <2>3, <2>4
  <1>2. ASSUME NEW e \in Events, Purge(e)
        PROVE  IInv'
    BY <1>2
    DEF Purge, Place, Step, NotifiedOnce, TakenByOneConsumer, AckIsSafe,
        NoEventLost, InCustody
  <1>3. ASSUME NEW m \in Copies, RetryDelayEnds(m)
        PROVE  IInv'
    BY <1>3
    DEF RetryDelayEnds, Move, Place, Step, NotifiedOnce, TakenByOneConsumer,
        AckIsSafe, NoEventLost, InCustody
  <1>4. ASSUME NEW c \in Consumers, ConnectionLost(c)
        PROVE  IInv'
    <2>1. TypeOK' /\ NotifiedOnce'
      BY <1>4 DEF ConnectionLost, Requeue, Move, Place, Step, NotifiedOnce
    <2>2. TakenByOneConsumer' /\ CopiesHaveBodies' /\ LoopHoldsItsCopy'
      BY <1>4 DEF ConnectionLost, Requeue, Move, TakenByOneConsumer
    <2>3. AckIsSafe'
      BY <1>4 DEF ConnectionLost, Requeue, Move, AckIsSafe
    <2>4. NoEventLost'
      BY <1>4 DEF ConnectionLost, Requeue, Move, NoEventLost, InCustody
    <2> QED
      BY <2>1, <2>2, <2>3, <2>4
  <1>5. ASSUME NEW c \in Consumers, Process(c)
        PROVE  IInv'
    <2>0. event[c] \in Events /\ stored \in [Events -> Nat]
      BY <1>5 DEF Process
    <2>1. TypeOK' /\ NotifiedOnce'
      <3>1. stored' \in [Events -> Nat]
        BY <1>5, <2>0 DEF Process, CreateFromOutboxEvent
      <3>2. step' \in [Consumers -> Step]
        BY <1>5 DEF Process, At, Step
      <3>3. TypeOK'
        BY <1>5, <3>1, <3>2 DEF Process, At
      <3>4. NotifiedOnce'
        BY <1>5, <2>0 DEF Process, CreateFromOutboxEvent, NotifiedOnce
      <3> QED
        BY <3>3, <3>4
    <2>2. TakenByOneConsumer' /\ CopiesHaveBodies' /\ LoopHoldsItsCopy'
      BY <1>5 DEF Process, CreateFromOutboxEvent, At, TakenByOneConsumer
    <2>3. AckIsSafe'
      <3>1. \A e \in Events : stored[e] > 0 => stored'[e] > 0
        BY <1>5, <2>0 DEF Process, CreateFromOutboxEvent
      <3>2. SUFFICES ASSUME NEW d \in Consumers,
                            step'[d] \in {"processed", "republished"}
                     PROVE  \/ stored'[event[d]] > 0
                            \/ step'[d] = "republished" /\ event[d] \in dead
                            \/ /\ step'[d] = "republished"
                               /\ \E m \in Copies :
                                     /\ place[m] # "free"
                                     /\ body[m] = event[d]
                                     /\ attempts[m] > tries[d]
        BY <1>5 DEF Process, At, AckIsSafe
      <3>3. CASE d = c
        <4>1. stored' = [stored EXCEPT ![event[c]] = IF @ = 0 THEN 1 ELSE @]
          BY <1>5 DEF Process, CreateFromOutboxEvent
        <4>2. stored[event[c]] \in Nat
          BY <2>0
        <4>3. stored'[event[c]] > 0
          <5> HIDE DEF IInv
          <5> QED
            BY <2>0, <4>1, <4>2
        <4> QED
          BY <3>3, <4>3
      <3>4. CASE d # c
        <4>1. step'[d] = step[d] /\ event[d] \in Events
          BY <1>5, <3>2, <3>4 DEF Process, At
        <4> QED
          BY <3>1, <3>2, <4>1 DEF AckIsSafe
      <3> QED
        BY <3>3, <3>4
    <2>4. NoEventLost'
      BY <1>5 DEF Process, CreateFromOutboxEvent, At, NoEventLost, InCustody
    <2> QED
      BY <2>1, <2>2, <2>3, <2>4
  <1>6. ASSUME NEW c \in Consumers, ProcessFails(c)
        PROVE  IInv'
    <2>0. event[c] \in Events /\ stored \in [Events -> Nat]
      BY <1>6 DEF ProcessFails
    <2>1. TypeOK' /\ NotifiedOnce'
      <3>1. stored' \in [Events -> Nat]
        BY <1>6, <2>0 DEF ProcessFails, CreateFromOutboxEvent
      <3>2. step' \in [Consumers -> Step]
        BY <1>6 DEF ProcessFails, At, Step
      <3>3. TypeOK'
        BY <1>6, <3>1, <3>2 DEF ProcessFails, At
      <3>4. NotifiedOnce'
        BY <1>6, <2>0 DEF ProcessFails, CreateFromOutboxEvent, NotifiedOnce
      <3> QED
        BY <3>3, <3>4
    <2>2. TakenByOneConsumer' /\ CopiesHaveBodies' /\ LoopHoldsItsCopy'
      BY <1>6 DEF ProcessFails, CreateFromOutboxEvent, At, TakenByOneConsumer
    <2>3. AckIsSafe'
      <3>1. \A e \in Events : stored[e] > 0 => stored'[e] > 0
        BY <1>6, <2>0 DEF ProcessFails, CreateFromOutboxEvent
      <3>2. SUFFICES ASSUME NEW d \in Consumers,
                            step'[d] \in {"processed", "republished"}
                     PROVE  \/ stored'[event[d]] > 0
                            \/ step'[d] = "republished" /\ event[d] \in dead
                            \/ /\ step'[d] = "republished"
                               /\ \E m \in Copies :
                                     /\ place[m] # "free"
                                     /\ body[m] = event[d]
                                     /\ attempts[m] > tries[d]
        BY <1>6 DEF ProcessFails, At, AckIsSafe
      <3>3. step'[d] = step[d] /\ event[d] \in Events
        BY <1>6, <3>2 DEF ProcessFails, At
      <3> QED
        BY <3>1, <3>2, <3>3 DEF AckIsSafe
    <2>4. NoEventLost'
      BY <1>6
      DEF ProcessFails, CreateFromOutboxEvent, At, NoEventLost, InCustody
    <2> QED
      BY <2>1, <2>2, <2>3, <2>4
  <1>7. ASSUME NEW c \in Consumers, Republish(c)
        PROVE  IInv'
    <2>0. event[c] \in Events /\ tries[c] + 1 \in Nat
      BY <1>7 DEF Republish
    <2>1. TypeOK' /\ NotifiedOnce'
      <3>1. /\ place' \in [Copies -> Place]
            /\ body' \in [Copies -> Events \cup {NoEvent}]
            /\ attempts' \in [Copies -> 0..MaxRetries]
        BY <1>7, <2>0 DEF Republish, Put, Place
      <3>2. step' \in [Consumers -> Step]
        BY <1>7 DEF Republish, At, Step
      <3>3. dead' \subseteq Events
        <4>1. dead \subseteq Events
          OBVIOUS
        <4>2. dead' = dead \/ dead' = dead \cup {event[c]}
          BY <1>7 DEF Republish
        <4> HIDE DEF IInv
        <4> QED
          BY <4>1, <4>2, <2>0
      <3>4. TypeOK'
        BY <1>7, <3>1, <3>2, <3>3 DEF Republish, At
      <3>5. NotifiedOnce'
        BY <1>7 DEF Republish, NotifiedOnce
      <3> QED
        BY <3>4, <3>5
    <2>2. TakenByOneConsumer' /\ CopiesHaveBodies' /\ LoopHoldsItsCopy'
      \* No copy has changed, or a free one has been filled.
      <3>1. \/ UNCHANGED queueVars
            \/ \E m \in Copies : /\ place[m] = "free"
                                 /\ Put(m, "retry", event[c], tries[c] + 1)
        BY <1>7 DEF Republish
      <3>2. /\ step' = [step EXCEPT ![c] = "republished"]
            /\ UNCHANGED <<tag, event, tries, accepted>>
            /\ step[c] = "retrying"
        BY <1>7 DEF Republish, At
      <3>3. CASE UNCHANGED queueVars
        BY <3>2, <3>3 DEF TakenByOneConsumer
      <3>4. CASE \E m \in Copies : /\ place[m] = "free"
                                   /\ Put(m, "retry", event[c], tries[c] + 1)
        <4>1. TakenByOneConsumer'
          BY <3>2, <3>4 DEF Put, TakenByOneConsumer
        <4>2. CopiesHaveBodies'
          BY <3>2, <3>4, <2>0 DEF Put
        <4>3. LoopHoldsItsCopy'
          BY <3>2, <3>4 DEF Put
        <4> QED
          BY <4>1, <4>2, <4>3
      <3> QED
        BY <3>1, <3>3, <3>4
    <2>3. AckIsSafe'
      BY <1>7 DEF Republish, Put, At, AckIsSafe
    <2>4. NoEventLost'
      BY <1>7 DEF Republish, Put, At, NoEventLost, InCustody
    <2> QED
      BY <2>1, <2>2, <2>3, <2>4
  <1>8. ASSUME NEW c \in Consumers, RepublishRefused(c)
        PROVE  IInv'
    <2>1. TypeOK' /\ NotifiedOnce'
      BY <1>8
      DEF RepublishRefused, Requeue, Move, Idle, Place, Step, NotifiedOnce
    <2>2. TakenByOneConsumer' /\ CopiesHaveBodies' /\ LoopHoldsItsCopy'
      BY <1>8 DEF RepublishRefused, Requeue, Move, Idle, TakenByOneConsumer
    <2>3. AckIsSafe'
      BY <1>8 DEF RepublishRefused, Requeue, Move, Idle, AckIsSafe
    <2>4. NoEventLost'
      BY <1>8
      DEF RepublishRefused, Requeue, Move, Idle, NoEventLost, InCustody
    <2> QED
      BY <2>1, <2>2, <2>3, <2>4
  <1>9. ASSUME NEW c \in Consumers, Ack(c)
        PROVE  IInv'
    <2>1. TypeOK' /\ NotifiedOnce'
      BY <1>9 DEF Ack, Remove, Put, Idle, Place, Step, NotifiedOnce
    <2>2. TakenByOneConsumer' /\ CopiesHaveBodies' /\ LoopHoldsItsCopy'
      BY <1>9 DEF Ack, Remove, Put, Idle, TakenByOneConsumer
    <2>3. AckIsSafe'
      BY <1>9 DEF Ack, Remove, Put, Idle, AckIsSafe
    \* What answers for the acknowledged event does not go with the copy.
    <2>4. NoEventLost'
      <3> SUFFICES ASSUME NEW e \in accepted
                   PROVE  InCustody(e)'
        BY <1>9 DEF Ack, NoEventLost
      <3>1. CASE e = event[c]
        BY <1>9, <3>1 DEF Ack, Remove, Put, AckIsSafe, InCustody
      <3>2. CASE e # event[c]
        <4>1. InCustody(e)
          BY DEF NoEventLost
        <4> QED
          BY <1>9, <3>2, <4>1 DEF Ack, Remove, Put, InCustody
      <3> QED
        BY <3>1, <3>2
    <2> QED
      BY <2>1, <2>2, <2>3, <2>4
  <1>10. ASSUME NEW c \in Consumers, GiveUp(c)
        PROVE  IInv'
    BY <1>10
    DEF GiveUp, Idle, Place, Step, NotifiedOnce, TakenByOneConsumer,
        AckIsSafe, NoEventLost, InCustody
  <1>11. ASSUME NEW c \in Consumers, Crash(c)
        PROVE  IInv'
    <2>1. TypeOK' /\ NotifiedOnce'
      BY <1>11 DEF Crash, Requeue, Move, Idle, Place, Step, NotifiedOnce
    <2>2. TakenByOneConsumer' /\ CopiesHaveBodies' /\ LoopHoldsItsCopy'
      BY <1>11 DEF Crash, Requeue, Move, Idle, TakenByOneConsumer
    <2>3. AckIsSafe'
      BY <1>11 DEF Crash, Requeue, Move, Idle, AckIsSafe
    <2>4. NoEventLost'
      BY <1>11 DEF Crash, Requeue, Move, Idle, NoEventLost, InCustody
    <2> QED
      BY <2>1, <2>2, <2>3, <2>4
  <1>12. ASSUME NEW c \in Consumers, NEW m \in Copies, Deliver(c, m)
        PROVE  IInv'
    <2>1. TypeOK' /\ NotifiedOnce'
      BY <1>12 DEF Deliver, Move, Place, Step, NotifiedOnce
    <2>2. TakenByOneConsumer' /\ CopiesHaveBodies' /\ LoopHoldsItsCopy'
      BY <1>12 DEF Deliver, Move, TakenByOneConsumer
    <2>3. AckIsSafe'
      BY <1>12 DEF Deliver, Move, AckIsSafe
    <2>4. NoEventLost'
      BY <1>12 DEF Deliver, Move, NoEventLost, InCustody
    <2> QED
      BY <2>1, <2>2, <2>3, <2>4
  <1>13. ASSUME Stabilise
        PROVE  IInv'
    BY <1>13
    DEF Stabilise, Place, Step, NotifiedOnce, TakenByOneConsumer, AckIsSafe,
        NoEventLost, InCustody
  <1>14. ASSUME UNCHANGED vars
        PROVE  IInv'
    BY <1>14
    DEF vars, Place, Step, NotifiedOnce, TakenByOneConsumer, AckIsSafe,
        NoEventLost, InCustody
  <1> QED
    BY <1>1, <1>2, <1>3, <1>4, <1>5, <1>6, <1>7, <1>8, <1>9, <1>10, <1>11,
       <1>12, <1>13, <1>14
    DEF Next, Handle, Fault

\* The inductive invariant holds in every reachable state; TypeOK, AckIsSafe
\* and TakenByOneConsumer are among its conjuncts.
THEOREM DeliveryInvariant == Spec => []IInv
  BY DeliveryInit, DeliveryNext, PTL DEF Spec

\* Every variable keeps its type; no retry header passes MaxRetries.
THEOREM DeliveryTypeOK == Spec => []TypeOK
  <1>1. IInv => TypeOK
    BY DEF IInv
  <1> QED
    BY <1>1, DeliveryInvariant, PTL

\* What RabbitMQ has confirmed is stored, dead-lettered or still queued
\* (processBeforeAck and retryOrDeadLetter).
THEOREM DeliveryLosesNothing == Spec => []NoEventLost
  <1>1. IInv => NoEventLost
    BY DEF IInv
  <1> QED
    BY <1>1, DeliveryInvariant, PTL

\* No event is notified twice (CreateFromOutboxEvent).
THEOREM DeliveryNotifiesOnce == Spec => []NotifiedOnce
  <1>1. IInv => NotifiedOnce
    BY DEF IInv
  <1> QED
    BY <1>1, DeliveryInvariant, PTL

-----------------------------------------------------------------------------
(* The definitions of the outbox's proof module are those of the outbox.   *)

USE PipelineAssumption

LEMMA SameOutboxNext == OutboxProofs!Next <=> Outbox!Next
  BY DEF Outbox!Next, OutboxProofs!Next, Outbox!Interaction,
         OutboxProofs!Interaction, Outbox!EnqueueInTx,
         OutboxProofs!EnqueueInTx, Outbox!Commit, OutboxProofs!Commit,
         Outbox!Rollback, OutboxProofs!Rollback, Outbox!TimerFires,
         OutboxProofs!TimerFires, Outbox!Replay, OutboxProofs!Replay,
         Outbox!Progress, OutboxProofs!Progress, Outbox!Fault,
         OutboxProofs!Fault, Outbox!Connect, OutboxProofs!Connect,
         Outbox!ClaimSelect, OutboxProofs!ClaimSelect, Outbox!ClaimCommit,
         OutboxProofs!ClaimCommit, Outbox!PublishAccepted,
         OutboxProofs!PublishAccepted, Outbox!PublishRefused,
         OutboxProofs!PublishRefused, Outbox!PublishUnconfirmed,
         OutboxProofs!PublishUnconfirmed, Outbox!MarkPublished,
         OutboxProofs!MarkPublished, Outbox!MarkRetry,
         OutboxProofs!MarkRetry, Outbox!LeaseLost, OutboxProofs!LeaseLost,
         Outbox!Abandon, OutboxProofs!Abandon, Outbox!Stabilise,
         OutboxProofs!Stabilise, Outbox!Eligible, OutboxProofs!Eligible,
         Outbox!Locked, OutboxProofs!Locked, Outbox!HoldsLease,
         OutboxProofs!HoldsLease, Outbox!Fresh, OutboxProofs!Fresh,
         Outbox!Forget, OutboxProofs!Forget, Outbox!rowVars,
         OutboxProofs!rowVars, Outbox!workerVars, OutboxProofs!workerVars,
         Outbox!vars, OutboxProofs!vars

LEMMA SameOutboxState == /\ OutboxProofs!Init <=> Outbox!Init
                         /\ OutboxProofs!IInv <=> Outbox!IInv
                         /\ OutboxProofs!vars = Outbox!vars
  BY DEF Outbox!Init, OutboxProofs!Init, Outbox!IInv, OutboxProofs!IInv,
         Outbox!vars, OutboxProofs!vars, Outbox!TypeOK, OutboxProofs!TypeOK,
         Outbox!Status, OutboxProofs!Status, Outbox!Phase,
         OutboxProofs!Phase, Outbox!WorkerKnows, OutboxProofs!WorkerKnows,
         Outbox!Eligible, OutboxProofs!Eligible, Outbox!TokensAreDistinct,
         OutboxProofs!TokensAreDistinct, Outbox!PublishedWasAccepted,
         OutboxProofs!PublishedWasAccepted, Outbox!OneCommitBoundary,
         OutboxProofs!OneCommitBoundary, Outbox!ClaimIsExclusive,
         OutboxProofs!ClaimIsExclusive

LEMMA SameOutboxIInvNext == OutboxProofs!IInv' <=> Outbox!IInv'
  BY DEF Outbox!Init, OutboxProofs!Init, Outbox!IInv, OutboxProofs!IInv,
         Outbox!vars, OutboxProofs!vars, Outbox!TypeOK, OutboxProofs!TypeOK,
         Outbox!Status, OutboxProofs!Status, Outbox!Phase,
         OutboxProofs!Phase, Outbox!WorkerKnows, OutboxProofs!WorkerKnows,
         Outbox!Eligible, OutboxProofs!Eligible, Outbox!TokensAreDistinct,
         OutboxProofs!TokensAreDistinct, Outbox!PublishedWasAccepted,
         OutboxProofs!PublishedWasAccepted, Outbox!OneCommitBoundary,
         OutboxProofs!OneCommitBoundary, Outbox!ClaimIsExclusive,
         OutboxProofs!ClaimIsExclusive

-----------------------------------------------------------------------------
(* A step of the pipeline is a step, or a stutter, of each part.           *)

LEMMA OutboxStep == [PipelineNext]_pipelineVars => [Outbox!Next]_(Outbox!vars)
  <1> SUFFICES ASSUME [PipelineNext]_pipelineVars
               PROVE  Outbox!Next \/ UNCHANGED Outbox!vars
    OBVIOUS
  <1>1. ASSUME NEW e \in Events, RowStep(e) \/ TimerFires(e)
        PROVE  Outbox!Next
    BY <1>1 DEF RowStep, TimerFires, Outbox!Next
  <1>2. ASSUME NEW w \in Workers,
               WorkerProgress(w) \/ PublishUnconfirmed(w) \/ WorkerFault(w)
        PROVE  Outbox!Next
    BY <1>2 DEF WorkerProgress, WorkerStep, PublishConfirmed,
                PublishUnconfirmed, WorkerFault, Outbox!Next,
                Outbox!Progress, Outbox!Fault
  <1>3. ASSUME NEW m \in Copies, DeliverStep(m) \/ RetryStep(m)
        PROVE  UNCHANGED Outbox!vars
    BY <1>3 DEF DeliverStep, RetryStep, Deliver,
                RetryDelayEnds, outboxVars, Outbox!vars
  <1>4. ASSUME NEW c \in Consumers, ConsumerStep(c) \/ ConsumerFault(c)
        PROVE  UNCHANGED Outbox!vars
    BY <1>4 DEF ConsumerStep, ConsumerFault, outboxVars, Outbox!vars,
                Handle, Fault, Process,
         ProcessFails, Republish,
         RepublishRefused, Ack, GiveUp,
         Crash, ConnectionLost
  <1>5. ASSUME NEW e \in Events, PurgeStep(e)
        PROVE  UNCHANGED Outbox!vars
    BY <1>5 DEF PurgeStep, Purge, outboxVars, Outbox!vars
  <1>6. CASE FaultsEnd
    BY <1>6 DEF FaultsEnd, Outbox!Next
  <1>7. CASE UNCHANGED pipelineVars
    BY <1>7 DEF pipelineVars, outboxVars, Outbox!vars
  <1> QED
    BY <1>1, <1>2, <1>3, <1>4, <1>5, <1>6, <1>7 DEF PipelineNext

LEMMA DeliveryStep ==
    [PipelineNext]_pipelineVars /\ Outbox!IInv => [Next]_vars
  <1> SUFFICES ASSUME [PipelineNext]_pipelineVars, Outbox!IInv
               PROVE  Next \/ UNCHANGED vars
    OBVIOUS
  <1> USE DEF vars, deliveryVars, queueVars,
              consumerVars, deliveryVars
  <1>1. ASSUME NEW e \in Events, RowStep(e) \/ TimerFires(e)
        PROVE  UNCHANGED vars
    BY <1>1 DEF RowStep, TimerFires, Outbox!Interaction, Outbox!EnqueueInTx,
                Outbox!Commit, Outbox!Rollback, Outbox!Replay,
                Outbox!TimerFires
  <1>2. ASSUME NEW w \in Workers, WorkerStep(w) \/ WorkerFault(w)
        PROVE  UNCHANGED vars
    BY <1>2 DEF WorkerStep, WorkerFault, Outbox!Connect, Outbox!ClaimSelect,
                Outbox!ClaimCommit, Outbox!MarkPublished, Outbox!MarkRetry,
                Outbox!LeaseLost, Outbox!PublishRefused, Outbox!Abandon
  <1>3. ASSUME NEW w \in Workers, PublishConfirmed(w) \/ PublishUnconfirmed(w)
        PROVE  Next
    \* A loop that publishes has a row to publish.
    <2>1. job[w] \in Events
      BY <1>3 DEF PublishConfirmed, PublishUnconfirmed,
                  Outbox!PublishAccepted, Outbox!PublishUnconfirmed,
                  Outbox!IInv, Outbox!TypeOK, Outbox!WorkerKnows
    <2> QED
      BY <1>3, <2>1 DEF PublishConfirmed, PublishUnconfirmed, Next
  <1>4. ASSUME NEW m \in Copies, DeliverStep(m) \/ RetryStep(m)
        PROVE  Next
    BY <1>4 DEF DeliverStep, RetryStep, Next
  <1>5. ASSUME NEW c \in Consumers, ConsumerStep(c) \/ ConsumerFault(c)
        PROVE  Next
    BY <1>5 DEF ConsumerStep, ConsumerFault, Next
  <1>6. ASSUME NEW e \in Events, PurgeStep(e)
        PROVE  Next
    BY <1>6 DEF PurgeStep, Next
  <1>7. CASE FaultsEnd
    BY <1>7 DEF FaultsEnd, Next
  <1>8. CASE UNCHANGED pipelineVars
    BY <1>8 DEF pipelineVars
  <1> QED
    BY <1>1, <1>2, <1>3, <1>4, <1>5, <1>6, <1>7, <1>8
    DEF PipelineNext, WorkerProgress

-----------------------------------------------------------------------------
(* The invariants of the parts are invariants of the pipeline.             *)

THEOREM PipelineInvariant == PipelineSpec => [](Outbox!IInv /\ IInv)
  <1>1. PipelineInit => Outbox!IInv /\ IInv
    BY OutboxProofs!InitIInv, SameOutboxState, DeliveryInit DEF PipelineInit
  <1>2. Outbox!IInv /\ [PipelineNext]_pipelineVars => Outbox!IInv'
    <2> SUFFICES ASSUME Outbox!IInv, [PipelineNext]_pipelineVars
                 PROVE  Outbox!IInv'
      OBVIOUS
    <2>1. Outbox!Next \/ UNCHANGED Outbox!vars
      BY OutboxStep
    <2>2. [OutboxProofs!Next]_(OutboxProofs!vars)
      <3>1. UNCHANGED Outbox!vars => UNCHANGED OutboxProofs!vars
        BY DEF Outbox!vars, OutboxProofs!vars
      <3> QED
        BY <2>1, <3>1, SameOutboxNext
    <2> QED
      BY <2>2, OutboxProofs!NextIInv, SameOutboxState, SameOutboxIInvNext
  <1>3. Outbox!IInv /\ IInv /\ [PipelineNext]_pipelineVars => IInv'
    <2> SUFFICES ASSUME Outbox!IInv, IInv, [PipelineNext]_pipelineVars
                 PROVE  IInv'
      OBVIOUS
    <2>1. Next \/ UNCHANGED vars
      BY DeliveryStep
    <2> QED
      BY <2>1, DeliveryNext
  <1> QED
    BY <1>1, <1>2, <1>3, PTL DEF PipelineSpec

\* Every variable of both parts keeps its type.
THEOREM PipelineTypes == PipelineSpec => []PipelineTypeOK
  <1>1. Outbox!IInv /\ IInv => PipelineTypeOK
    BY DEF Outbox!IInv, IInv, PipelineTypeOK
  <1> QED
    BY <1>1, PipelineInvariant, PTL

\* From COMMIT to the notifications table no event falls between two steps:
\* what the outbox has let go of, RabbitMQ has accepted (runOne), and what
\* RabbitMQ has accepted is in custody (consume).
THEOREM NothingIsLost == PipelineSpec => []CommittedIsNeverLost
  <1>1. Outbox!IInv /\ IInv => CommittedIsNeverLost
    <2> SUFFICES ASSUME Outbox!IInv, IInv,
                        NEW e \in Events, tx[e] = "committed"
                 PROVE  \/ status[e] \in {"pending", "publishing"}
                        \/ InCustody(e)
      BY DEF CommittedIsNeverLost
    <2>1. status[e] \in {"pending", "publishing", "published"}
      BY DEF Outbox!IInv, Outbox!TypeOK, Outbox!Status,
             Outbox!OneCommitBoundary
    <2>2. status[e] = "published" => e \in accepted
      BY DEF Outbox!IInv, Outbox!PublishedWasAccepted
    <2>3. e \in accepted => InCustody(e)
      BY DEF IInv, NoEventLost
    <2> QED
      BY <2>1, <2>2, <2>3
  <1> QED
    BY <1>1, PipelineInvariant, PTL

\* No notification without a committed interaction, and never two of them.
THEOREM NotifiedAtMostOnce == PipelineSpec => []NotifiedOnceIfCommitted
  <1>1. Outbox!IInv /\ IInv => NotifiedOnceIfCommitted
    BY DEF Outbox!IInv, Outbox!OneCommitBoundary, IInv,
           NotifiedOnce, NotifiedOnceIfCommitted
  <1> QED
    BY <1>1, PipelineInvariant, PTL

-----------------------------------------------------------------------------
(* The pipeline implements the promise.                                    *)

LEMMA PromiseInit == PipelineInit => Promise!Init
  BY DEF PipelineInit, Outbox!Init, Init, Promise!Init

\* A step of the outbox adds to what is owed, or changes nothing promised.
LEMMA OutboxKeepsPromise ==
    ASSUME Outbox!IInv, Outbox!Next, UNCHANGED <<stored, dead>>
    PROVE  [Promise!Next]_(Promise!vars)
  <1> USE DEF Promise!vars
  <1>1. ASSUME NEW e \in Events, Outbox!Commit(e)
        PROVE  Promise!Next
    BY <1>1 DEF Outbox!Commit, Outbox!IInv, Outbox!TypeOK, Promise!Next,
                Promise!Owe
  <1>2. ASSUME UNCHANGED tx
        PROVE  UNCHANGED Promise!vars
    BY <1>2
  <1>3. ASSUME NEW e \in Events, Outbox!EnqueueInTx(e) \/ Outbox!Rollback(e)
        PROVE  UNCHANGED Promise!vars
    BY <1>3 DEF Outbox!EnqueueInTx, Outbox!Rollback, Outbox!IInv,
                Outbox!TypeOK
  <1>4. \/ \E e \in Events : Outbox!Interaction(e)
        \/ UNCHANGED tx
    BY DEF Outbox!Next, Outbox!Progress, Outbox!Fault, Outbox!TimerFires,
           Outbox!Replay, Outbox!Connect, Outbox!ClaimSelect,
           Outbox!ClaimCommit, Outbox!PublishAccepted, Outbox!MarkPublished,
           Outbox!MarkRetry, Outbox!LeaseLost, Outbox!PublishRefused,
           Outbox!PublishUnconfirmed, Outbox!Abandon, Outbox!Stabilise,
           Outbox!rowVars
  <1> QED
    BY <1>1, <1>2, <1>3, <1>4 DEF Outbox!Interaction

\* A step of the delivery side writes a notification that is owed, parks an
\* owed event, clears a parked one, or changes nothing promised.
LEMMA DeliveryKeepsPromise ==
    ASSUME Outbox!IInv, IInv, Next, UNCHANGED tx
    PROVE  [Promise!Next]_(Promise!vars)
  <1> USE DEF Promise!vars
  <1>1. ASSUME NEW c \in Consumers, step[c] # "idle"
        PROVE  event[c] \in Events /\ tx[event[c]] = "committed"
    BY <1>1 DEF IInv, LoopHoldsItsCopy, TypeOK,
                Outbox!IInv, Outbox!OneCommitBoundary
  <1>2. ASSUME NEW c \in Consumers, step[c] # "idle",
               CreateFromOutboxEvent(event[c]), UNCHANGED dead
        PROVE  Promise!Next \/ UNCHANGED Promise!vars
    <2>1. event[c] \in Events /\ tx[event[c]] = "committed"
      BY <1>1, <1>2
    <2>2. CASE stored[event[c]] = 0
      <3>1. PICK e \in Events : e = event[c]
        BY <2>1
      <3>2. stored' = [stored EXCEPT ![e] = 1]
        BY <1>2, <2>2, <3>1 DEF CreateFromOutboxEvent
      <3>3. stored \in [Events -> Nat]
        BY DEF IInv, TypeOK
      <3>4. {f \in Events : stored'[f] > 0}
              = {f \in Events : stored[f] > 0} \cup {e}
        BY <3>2, <3>3
      <3>5. Promise!Tell(e)
        BY <1>2, <2>1, <2>2, <3>1, <3>4 DEF Promise!Tell
      <3> QED
        BY <3>5 DEF Promise!Next
    <2>3. CASE stored[event[c]] # 0
      BY <1>2, <2>1, <2>3 DEF CreateFromOutboxEvent, IInv,
         TypeOK
    <2> QED
      BY <2>2, <2>3
  <1>3. ASSUME NEW c \in Consumers,
               Process(c) \/ ProcessFails(c)
        PROVE  Promise!Next \/ UNCHANGED Promise!vars
    BY <1>2, <1>3 DEF Process, ProcessFails
  <1>4. ASSUME NEW c \in Consumers, Republish(c)
        PROVE  Promise!Next \/ UNCHANGED Promise!vars
    <2>1. event[c] \in Events /\ tx[event[c]] = "committed"
      BY <1>1, <1>4 DEF Republish
    <2> QED
      BY <1>4, <2>1 DEF Republish, Promise!Next, Promise!Park
  <1>5. ASSUME NEW e \in Events, Purge(e)
        PROVE  Promise!Next
    BY <1>5 DEF Purge, Promise!Next, Promise!Clear
  <1>6. ASSUME UNCHANGED <<stored, dead>>
        PROVE  UNCHANGED Promise!vars
    BY <1>6
  <1>7. \/ \E c \in Consumers : \/ Process(c)
                               \/ ProcessFails(c)
                               \/ Republish(c)
        \/ \E e \in Events : Purge(e)
        \/ UNCHANGED <<stored, dead>>
    BY DEF Next, Handle, Fault, Accept,
         RetryDelayEnds, Deliver,
         RepublishRefused, Ack, GiveUp,
         Crash, ConnectionLost, Stabilise,
         deliveryVars
  <1> QED
    BY <1>3, <1>4, <1>5, <1>6, <1>7

\* Every behaviour of the pipeline is one the promise allows: a notification
\* is written once, after its interaction has committed, and never revoked.
THEOREM PipelineImplementsPromise == PipelineSpec => PromiseSafe
  <1>1. /\ Outbox!IInv /\ IInv
        /\ [PipelineNext]_pipelineVars
        => [Promise!Next]_(Promise!vars)
    <2> SUFFICES ASSUME Outbox!IInv, IInv, [PipelineNext]_pipelineVars
                 PROVE  [Promise!Next]_(Promise!vars)
      OBVIOUS
    <2>1. CASE Outbox!Next /\ UNCHANGED <<stored, dead>>
      BY <2>1, OutboxKeepsPromise
    <2>2. CASE Next /\ UNCHANGED tx
      BY <2>2, DeliveryKeepsPromise
    <2>3. CASE UNCHANGED pipelineVars
      BY <2>3 DEF pipelineVars, outboxVars, deliveryVars, Promise!vars
    <2>4. ASSUME NEW w \in Workers, WorkerProgress(w) \/ PublishUnconfirmed(w)
          PROVE  Outbox!Next /\ UNCHANGED <<stored, dead>>
      BY <2>4 DEF WorkerProgress, WorkerStep, PublishConfirmed,
                  PublishUnconfirmed, Accept, deliveryVars,
                  Outbox!Next, Outbox!Progress, Outbox!Fault
    <2>5. ASSUME NEW m \in Copies, DeliverStep(m) \/ RetryStep(m)
          PROVE  Next /\ UNCHANGED tx
      BY <2>5 DEF DeliverStep, RetryStep, Next, outboxVars
    <2>6. ASSUME NEW c \in Consumers, ConsumerStep(c) \/ ConsumerFault(c)
          PROVE  Next /\ UNCHANGED tx
      BY <2>6 DEF ConsumerStep, ConsumerFault, Next, outboxVars
    <2>7. ASSUME NEW w \in Workers, WorkerFault(w)
          PROVE  Outbox!Next /\ UNCHANGED <<stored, dead>>
      BY <2>7 DEF WorkerFault, Outbox!Next, Outbox!Fault, deliveryVars
    <2>8. ASSUME NEW e \in Events, RowStep(e) \/ TimerFires(e)
          PROVE  Outbox!Next /\ UNCHANGED <<stored, dead>>
      BY <2>8 DEF RowStep, TimerFires, Outbox!Next, deliveryVars
    <2>9. ASSUME NEW e \in Events, PurgeStep(e)
          PROVE  Next /\ UNCHANGED tx
      BY <2>9 DEF PurgeStep, Next, outboxVars
    <2>10. ASSUME FaultsEnd
           PROVE  Outbox!Next /\ UNCHANGED <<stored, dead>>
      BY <2>10 DEF FaultsEnd, Outbox!Next, Stabilise,
                   deliveryVars
    <2> QED
      BY <2>1, <2>2, <2>3, <2>4, <2>5, <2>6, <2>7, <2>8, <2>9, <2>10
      DEF PipelineNext
  <1> QED
    BY <1>1, PromiseInit, PipelineInvariant, PTL
    DEF PipelineSpec, PromiseSafe, Promise!SafeSpec
=============================================================================
