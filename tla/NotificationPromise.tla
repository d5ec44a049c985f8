------------------------ MODULE NotificationPromise ------------------------
(***************************************************************************)
(* What the notification pipeline promises, with no queue, lease, retry or *)
(* crash in sight: an interaction that commits owes its recipient one      *)
(* notification; each debt is settled, by the notification or by a message *)
(* parked for an operator, and a notification is never taken back.         *)
(***************************************************************************)
CONSTANT Events

VARIABLES owed,    \* events whose interaction has committed
          told,    \* events whose notification is written
          parked   \* events with a message in the dead-letter queue

vars == <<owed, told, parked>>

Init == owed = {} /\ told = {} /\ parked = {}

\* An interaction commits.
Owe(e) == /\ e \notin owed
          /\ owed' = owed \cup {e}
          /\ UNCHANGED <<told, parked>>

\* Its notification is written, once.
Tell(e) == /\ e \in owed \ told
           /\ told' = told \cup {e}
           /\ UNCHANGED <<owed, parked>>

\* Its message is dead-lettered.
Park(e) == /\ e \in owed \ parked
           /\ parked' = parked \cup {e}
           /\ UNCHANGED <<owed, told>>

\* An operator clears the message of a written notification.
Clear(e) == /\ e \in parked \cap told
            /\ parked' = parked \ {e}
            /\ UNCHANGED <<owed, told>>

Settle(e) == e \notin told \cup parked /\ (Tell(e) \/ Park(e))

Next == \E e \in Events : Owe(e) \/ Tell(e) \/ Park(e) \/ Clear(e)

SafeSpec == Init /\ [][Next]_vars

Spec == SafeSpec /\ \A e \in Events : WF_vars(Settle(e))
=============================================================================
