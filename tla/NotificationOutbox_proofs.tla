----------------------- MODULE NotificationOutbox_proofs -----------------------
(***************************************************************************)
(* Machine-checked proofs about NotificationOutbox, for any set of rows,   *)
(* any number of publisher loops and any set of lease tokens.              *)
(***************************************************************************)
EXTENDS NotificationOutbox, TLAPS

USE EventsAssumption, TokensAssumption

LEMMA InitIInv == Init => IInv
  BY DEF Init, IInv, TypeOK, Status, Phase, WorkerKnows, TokensAreDistinct,
         PublishedWasAccepted, OneCommitBoundary, ClaimIsExclusive

LEMMA NextIInv == IInv /\ [Next]_vars => IInv'
  <1> SUFFICES ASSUME IInv, [Next]_vars
               PROVE  IInv'
    OBVIOUS
  <1> USE DEF IInv, TypeOK, Status, Phase, WorkerKnows, Eligible,
              TokensAreDistinct, PublishedWasAccepted, OneCommitBoundary,
              ClaimIsExclusive, rowVars, workerVars
  <1>1. ASSUME NEW e \in Events, EnqueueInTx(e)
        PROVE  IInv'
    BY <1>1 DEF EnqueueInTx
  <1>2. ASSUME NEW e \in Events, Commit(e)
        PROVE  IInv'
    BY <1>2 DEF Commit
  <1>3. ASSUME NEW e \in Events, Rollback(e)
        PROVE  IInv'
    BY <1>3 DEF Rollback
  <1>4. ASSUME NEW e \in Events, TimerFires(e)
        PROVE  IInv'
    BY <1>4 DEF TimerFires
  <1>5. ASSUME NEW e \in Events, Replay(e)
        PROVE  IInv'
    BY <1>5 DEF Replay
  <1>6. ASSUME NEW w \in Workers, Connect(w)
        PROVE  IInv'
    BY <1>6 DEF Connect
  <1>7. ASSUME NEW w \in Workers, ClaimCommit(w)
        PROVE  IInv'
    BY <1>7 DEF ClaimCommit
  <1>8. ASSUME NEW w \in Workers, PublishAccepted(w)
        PROVE  IInv'
    \* What is accepted is the row of a claim, hence a committed event.
    <2>1. job[w] \in Events /\ status[job[w]] # "absent"
      BY <1>8 DEF PublishAccepted
    <2>2. tx[job[w]] = "committed"
      BY <2>1
    <2>3. TypeOK'
      <3>1. accepted' \subseteq Events
        <4>1. accepted' = accepted \cup {job[w]} /\ accepted \subseteq Events
          BY <1>8 DEF PublishAccepted
        <4> HIDE DEF IInv
        <4> QED
          BY <4>1, <2>1
      <3>2. phase' \in [Workers -> Phase]
        BY <1>8 DEF PublishAccepted
      <3> QED
        BY <1>8, <3>1, <3>2 DEF PublishAccepted
    <2>4. (\A v \in Workers : WorkerKnows(v))' /\ TokensAreDistinct'
      BY <1>8 DEF PublishAccepted
    <2>5. PublishedWasAccepted' /\ OneCommitBoundary'
      BY <1>8, <2>1, <2>2 DEF PublishAccepted
    <2>6. ClaimIsExclusive'
      BY <1>8 DEF PublishAccepted
    <2> QED
      BY <2>3, <2>4, <2>5, <2>6
  <1>9. ASSUME NEW w \in Workers, PublishRefused(w)
        PROVE  IInv'
    BY <1>9 DEF PublishRefused
  <1>10. ASSUME NEW w \in Workers, PublishUnconfirmed(w)
        PROVE  IInv'
    \* What is accepted is the row of a claim, hence a committed event.
    <2>1. job[w] \in Events /\ status[job[w]] # "absent"
      BY <1>10 DEF PublishUnconfirmed
    <2>2. tx[job[w]] = "committed"
      BY <2>1
    <2>3. TypeOK'
      <3>1. accepted' \subseteq Events
        <4>1. accepted' = accepted \cup {job[w]} /\ accepted \subseteq Events
          BY <1>10 DEF PublishUnconfirmed
        <4> HIDE DEF IInv
        <4> QED
          BY <4>1, <2>1
      <3>2. phase' \in [Workers -> Phase]
        BY <1>10 DEF PublishUnconfirmed
      <3> QED
        BY <1>10, <3>1, <3>2 DEF PublishUnconfirmed
    <2>4. (\A v \in Workers : WorkerKnows(v))' /\ TokensAreDistinct'
      BY <1>10 DEF PublishUnconfirmed
    <2>5. PublishedWasAccepted' /\ OneCommitBoundary'
      BY <1>10, <2>1, <2>2 DEF PublishUnconfirmed
    <2>6. ClaimIsExclusive'
      BY <1>10 DEF PublishUnconfirmed
    <2> QED
      BY <2>3, <2>4, <2>5, <2>6
  <1>11. ASSUME NEW w \in Workers, MarkPublished(w)
        PROVE  IInv'
    BY <1>11 DEF MarkPublished, Forget, HoldsLease, Locked
  <1>12. ASSUME NEW w \in Workers, MarkRetry(w)
        PROVE  IInv'
    BY <1>12 DEF MarkRetry, Forget, HoldsLease, Locked
  <1>13. ASSUME NEW w \in Workers, LeaseLost(w)
        PROVE  IInv'
    BY <1>13 DEF LeaseLost, Forget
  <1>14. ASSUME NEW w \in Workers, Abandon(w)
        PROVE  IInv'
    BY <1>14 DEF Abandon, Forget
  <1>15. ASSUME NEW w \in Workers, NEW e \in Events, NEW t \in Tokens,
               ClaimSelect(w, e, t)
        PROVE  IInv'
    BY <1>15 DEF ClaimSelect, Fresh, Locked
  <1>16. ASSUME Stabilise
        PROVE  IInv'
    BY <1>16 DEF Stabilise
  <1>17. ASSUME UNCHANGED vars
        PROVE  IInv'
    BY <1>17 DEF vars
  <1> QED
    BY <1>1, <1>2, <1>3, <1>4, <1>5, <1>6, <1>7, <1>8, <1>9, <1>10, <1>11, <1>12, <1>13, <1>14, <1>15, <1>16, <1>17
    DEF Next, Interaction, Progress, Fault

\* The inductive invariant holds in every reachable state; TypeOK,
\* PublishedWasAccepted, OneCommitBoundary and ClaimIsExclusive are among
\* its conjuncts.
THEOREM OutboxInvariant == Spec => []IInv
  BY InitIInv, NextIInv, PTL DEF Spec

\* Every variable keeps its type (the rows and loops of runOne).
THEOREM OutboxTypeOK == Spec => []TypeOK
  <1>1. IInv => TypeOK
    BY DEF IInv
  <1> QED
    BY <1>1, OutboxInvariant, PTL

\* A row that MarkPublished has marked has a message stored by RabbitMQ.
THEOREM PublishedIsAccepted == Spec => []PublishedWasAccepted
  <1>1. IInv => PublishedWasAccepted
    BY DEF IInv
  <1> QED
    BY <1>1, OutboxInvariant, PTL

\* Only committed interactions have visible rows or leave for RabbitMQ.
THEOREM CommitBoundaryHolds == Spec => []OneCommitBoundary
  <1>1. IInv => OneCommitBoundary
    BY DEF IInv
  <1> QED
    BY <1>1, OutboxInvariant, PTL

\* ClaimNext's row lock and fresh tokens give each row one lease holder:
\* two loops on one row cannot both carry the token that the row carries.
THEOREM LeaseIsExclusive == Spec => []OneLeaseHolder
  <1>1. IInv => OneLeaseHolder
    BY DEF IInv, OneLeaseHolder, HoldsLease, WorkerKnows, TokensAreDistinct,
           TypeOK
  <1> QED
    BY <1>1, OutboxInvariant, PTL

\* The WHERE clause of MarkPublished and MarkRetry fences stale loops.
THEOREM FencingHolds == Spec => StaleWorkersAreFenced
  <1>1. IInv /\ [Next]_vars => [\A e \in Events : OutcomeIsFenced(e)]_vars
    <2> SUFFICES ASSUME IInv, Next
                 PROVE  \A e \in Events : OutcomeIsFenced(e)
      OBVIOUS
    <2> USE DEF IInv, TypeOK, WorkerKnows, Eligible, OutcomeIsFenced,
                rowVars, workerVars
    <2>1. ASSUME NEW f \in Events, Interaction(f) \/ TimerFires(f) \/ Replay(f)
          PROVE  \A e \in Events : OutcomeIsFenced(e)
      BY <2>1 DEF Interaction, EnqueueInTx, Commit, Rollback, TimerFires,
                  Replay, OneCommitBoundary
    <2>2. ASSUME NEW w \in Workers, MarkPublished(w) \/ MarkRetry(w)
          PROVE  \A e \in Events : OutcomeIsFenced(e)
      BY <2>2 DEF MarkPublished, MarkRetry, HoldsLease
    <2>3. ASSUME NEW w \in Workers, ClaimCommit(w)
          PROVE  \A e \in Events : OutcomeIsFenced(e)
      BY <2>3 DEF ClaimCommit
    <2>4. ASSUME NEW w \in Workers,
                 \/ Connect(w) \/ PublishAccepted(w) \/ LeaseLost(w) \/ Fault(w)
                 \/ \E f \in Events, t \in Tokens : ClaimSelect(w, f, t)
          PROVE  \A e \in Events : OutcomeIsFenced(e)
      BY <2>4 DEF Connect, PublishAccepted, LeaseLost, Fault, PublishRefused,
                  PublishUnconfirmed, Abandon, ClaimSelect
    <2>5. CASE Stabilise
      BY <2>5 DEF Stabilise
    <2> QED
      BY <2>1, <2>2, <2>3, <2>4, <2>5 DEF Next, Progress
  <1> QED
    BY <1>1, OutboxInvariant, PTL DEF Spec, StaleWorkersAreFenced
=============================================================================
