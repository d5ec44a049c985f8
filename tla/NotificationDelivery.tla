------------------------ MODULE NotificationDelivery ------------------------
(***************************************************************************)
(* From RabbitMQ to the notifications table: the consumer loop of          *)
(* internal/service/notification_mq.go (one per server process), the       *)
(* queues it declares and NotificationEventConsumer.Process.               *)
(*                                                                         *)
(* RabbitMQ is modelled by what the code relies on.  A stored message is a *)
(* copy with an identity of its own, because two copies of one event are   *)
(* two messages; queues are unordered, since redelivery and the retry      *)
(* queues' TTLs reorder them.  A message in the consumer's prefetch buffer *)
(* that has not been handled is still in the main queue: losing the        *)
(* connection puts it back there.  The dead-letter queue, which no code    *)
(* reads, is the set of events that have a copy in it.                     *)
(***************************************************************************)
EXTENDS Naturals

CONSTANTS
    Events,      \* notification events
    Consumers,   \* consumer loops, one per running process
    Copies,      \* identities of the messages queued at one time
    MaxRetries,  \* notificationMaxRetries, 8 in the code
    NoEvent,     \* "no event" in a free copy or an idle loop
    NoCopy       \* the loop's delivery tag is not valid

ASSUME DeliveryAssumption == /\ NoEvent \notin Events
                             /\ NoCopy \notin Copies
                             /\ MaxRetries \in Nat

VARIABLES
    place,      \* place[m]: the queue copy m is in, or who has it
    body,       \* body[m]: its event
    attempts,   \* attempts[m]: its x-notification-retry header, 0 if absent
    step,       \* step[c]: where consumer loop c is in handling a delivery
    tag,        \* tag[c]: the copy it must acknowledge
    event,      \* event[c]: the event it is handling
    tries,      \* tries[c]: the retry header of that delivery
    dead,       \* events with a message in the dead-letter queue
    stored,     \* stored[e]: notification rows that carry event id e
    accepted,   \* history: events RabbitMQ has stored at least once
    stable      \* TRUE once processes, MySQL and RabbitMQ fail no more

queueVars == <<place, body, attempts>>
consumerVars == <<step, tag, event, tries>>
deliveryVars == <<queueVars, consumerVars, dead, stored>>
vars == <<deliveryVars, accepted, stable>>

Place == {"free",      \* no such message
          "main",      \* aidevclub.notifications
          "retry",     \* one of the three TTL queues
          "taken"}     \* delivered to a consumer, not acknowledged

Step == {"idle",
         "processing",    \* inside Process
         "processed",     \* Process returned nil, Ack not yet called
         "retrying",      \* inside retryOrDeadLetter
         "republished"}   \* the next copy is confirmed, Ack not yet called

-----------------------------------------------------------------------------
(* Helpers.                                                                *)

Put(m, q, e, n) == /\ place' = [place EXCEPT ![m] = q]
                   /\ body' = [body EXCEPT ![m] = e]
                   /\ attempts' = [attempts EXCEPT ![m] = n]

Move(m, q) == place' = [place EXCEPT ![m] = q] /\ UNCHANGED <<body, attempts>>

Remove(m) == Put(m, "free", NoEvent, 0)

\* RabbitMQ requeues what a lost connection had not acknowledged.
Requeue(c) == IF tag[c] = NoCopy THEN UNCHANGED queueVars
              ELSE Move(tag[c], "main")

Idle(c) == /\ step' = [step EXCEPT ![c] = "idle"]
           /\ tag' = [tag EXCEPT ![c] = NoCopy]
           /\ event' = [event EXCEPT ![c] = NoEvent]
           /\ tries' = [tries EXCEPT ![c] = 0]

At(c, s) == step' = [step EXCEPT ![c] = s] /\ UNCHANGED <<tag, event, tries>>

\* Mutant: a plain INSERT, with no unique index.
CreateAgain(e) == stored' = [stored EXCEPT ![e] = @ + 1]

\* INSERT ... ON CONFLICT (event_id) DO NOTHING.
CreateFromOutboxEvent(e) ==
    stored' = [stored EXCEPT ![e] = IF @ = 0 THEN 1 ELSE @]

Init == /\ place = [m \in Copies |-> "free"]
        /\ body = [m \in Copies |-> NoEvent]
        /\ attempts = [m \in Copies |-> 0]
        /\ step = [c \in Consumers |-> "idle"]
        /\ tag = [c \in Consumers |-> NoCopy]
        /\ event = [c \in Consumers |-> NoEvent]
        /\ tries = [c \in Consumers |-> 0]
        /\ dead = {}
        /\ stored = [e \in Events |-> 0]
        /\ accepted = {}
        /\ stable = FALSE

-----------------------------------------------------------------------------
(* RabbitMQ.                                                               *)

\* A publisher's message is routed to the main queue.
Accept(e) == /\ \E m \in Copies : place[m] = "free" /\ Put(m, "main", e, 0)
             /\ accepted' = accepted \cup {e}
             /\ UNCHANGED <<consumerVars, dead, stored, stable>>

\* A retry queue's TTL passes: the copy is dead-lettered to the main queue
\* with its headers.
RetryDelayEnds(m) == /\ place[m] = "retry"
                     /\ Move(m, "main")
                     /\ UNCHANGED <<consumerVars, dead, stored, accepted,
                                    stable>>

Deliver(c, m) == /\ step[c] = "idle"
                 /\ place[m] = "main"
                 /\ Move(m, "taken")
                 /\ step' = [step EXCEPT ![c] = "processing"]
                 /\ tag' = [tag EXCEPT ![c] = m]
                 /\ event' = [event EXCEPT ![c] = body[m]]
                 /\ tries' = [tries EXCEPT ![c] = attempts[m]]
                 /\ UNCHANGED <<dead, stored, accepted, stable>>

\* The connection of loop c breaks while it holds a delivery.  The loop runs
\* on: it finds out when it acknowledges or publishes.
ConnectionLost(c) == /\ ~stable
                     /\ tag[c] # NoCopy
                     /\ Requeue(c)
                     /\ tag' = [tag EXCEPT ![c] = NoCopy]
                     /\ UNCHANGED <<step, event, tries, dead, stored, accepted,
                                    stable>>

-----------------------------------------------------------------------------
(* The consumer loop.                                                      *)

\* Process returns nil: the notification is in MySQL, or was there before.
Process(c) == /\ step[c] = "processing"
              /\ CreateFromOutboxEvent(event[c])
              /\ At(c, "processed")
              /\ UNCHANGED <<queueVars, dead, accepted, stable>>

\* Mutant: the error is logged and the message acknowledged.
FailureSwallowed(c) == /\ ~stable
                       /\ step[c] = "processing"
                       /\ At(c, "processed")
                       /\ UNCHANGED <<queueVars, dead, stored, accepted, stable>>

\* Process returns an error; the insert may have happened all the same if
\* only its answer was lost.
ProcessFails(c) == /\ ~stable
                   /\ step[c] = "processing"
                   /\ \/ CreateFromOutboxEvent(event[c])
                      \/ UNCHANGED stored
                   /\ At(c, "retrying")
                   /\ UNCHANGED <<queueVars, dead, accepted, stable>>

\* Mutant: the retry header goes out as it came in.
RepublishUncounted(c) ==
    /\ step[c] = "retrying"
    /\ tag[c] # NoCopy
    /\ \E m \in Copies : /\ place[m] = "free"
                         /\ Put(m, "retry", event[c], tries[c])
    /\ At(c, "republished")
    /\ UNCHANGED <<dead, stored, accepted, stable>>

\* Mutant: a message out of retries is dropped, not dead-lettered.
RepublishOrDrop(c) ==
    LET attempt == tries[c] + 1
    IN  /\ step[c] = "retrying"
        /\ tag[c] # NoCopy
        /\ IF attempt > MaxRetries
           THEN UNCHANGED queueVars
           ELSE \E m \in Copies : /\ place[m] = "free"
                                 /\ Put(m, "retry", event[c], attempt)
        /\ At(c, "republished")
        /\ UNCHANGED <<dead, stored, accepted, stable>>

\* retryOrDeadLetter publishes the message again, with its retry header one
\* higher, to a retry queue or, past notificationMaxRetries, to the
\* dead-letter queue, and the publish is confirmed.
Republish(c) ==
    LET attempt == tries[c] + 1
    IN  /\ step[c] = "retrying"
        /\ tag[c] # NoCopy
        /\ \/ /\ attempt > MaxRetries
              /\ dead' = dead \cup {event[c]}
              /\ UNCHANGED queueVars
           \/ /\ attempt <= MaxRetries
              /\ \E m \in Copies : /\ place[m] = "free"
                                   /\ Put(m, "retry", event[c], attempt)
              /\ UNCHANGED dead
        /\ At(c, "republished")
        /\ UNCHANGED <<stored, accepted, stable>>

\* Mutant: Nack without requeue.
NackDrops(c) == /\ ~stable \/ \A m \in Copies : place[m] # "free"
                /\ step[c] = "retrying"
                /\ tag[c] # NoCopy
                /\ Remove(tag[c])
                /\ Idle(c)
                /\ UNCHANGED <<dead, stored, accepted, stable>>

\* That publish fails and nothing was stored: Nack with requeue, reconnect.
\* Copies bounds the messages queued at one time; a full broker refuses.  (If
\* the message was stored and only the confirm is lost, the loop ends where
\* Republish followed by ConnectionLost and GiveUp, or by Crash, leaves it.)
RepublishRefused(c) == /\ ~stable \/ \A m \in Copies : place[m] # "free"
                       /\ step[c] = "retrying"
                       /\ tag[c] # NoCopy
                       /\ Requeue(c)
                       /\ Idle(c)
                       /\ UNCHANGED <<dead, stored, accepted, stable>>

\* Ack reaches RabbitMQ, after Process or after a confirmed republish.
Ack(c) == /\ step[c] \in {"processed", "republished"}
          /\ tag[c] # NoCopy
          /\ Remove(tag[c])
          /\ Idle(c)
          /\ UNCHANGED <<dead, stored, accepted, stable>>

\* Mutant: an error of retryOrDeadLetter does not end the connection.
GiveUpAfterProcess(c) == /\ step[c] = "processed"
                         /\ tag[c] = NoCopy
                         /\ Idle(c)
                         /\ UNCHANGED <<queueVars, dead, stored, accepted,
                                        stable>>

\* The connection is gone.  After Process, Ack fails, so does the republish
\* retryOrDeadLetter tries on the same channel, and so does Nack; inside
\* retryOrDeadLetter the publish or the Ack fails.  The loop reconnects.
GiveUp(c) == /\ step[c] \in {"processed", "retrying", "republished"}
             /\ tag[c] = NoCopy
             /\ Idle(c)
             /\ UNCHANGED <<queueVars, dead, stored, accepted, stable>>

\* The process crashes, or is told to stop while it waits for a confirm.
Crash(c) == /\ ~stable
            /\ step[c] # "idle"
            /\ Requeue(c)
            /\ Idle(c)
            /\ UNCHANGED <<dead, stored, accepted, stable>>

-----------------------------------------------------------------------------
(* The operator and the environment.                                       *)

\* The README's last step: once the notification is seen to be written, the
\* operator clears the event's messages from the dead-letter queue.
Purge(e) == /\ e \in dead
            /\ stored[e] > 0
            /\ dead' = dead \ {e}
            /\ UNCHANGED <<queueVars, consumerVars, stored, accepted, stable>>

Stabilise == /\ ~stable
             /\ stable' = TRUE
             /\ UNCHANGED <<deliveryVars, accepted>>

-----------------------------------------------------------------------------

Handle(c) == \/ Process(c) \/ Republish(c) \/ RepublishRefused(c)
             \/ Ack(c) \/ GiveUp(c)

Fault(c) == ConnectionLost(c) \/ Crash(c) \/ ProcessFails(c)

Next == \/ \E e \in Events : Accept(e) \/ Purge(e)
        \/ \E m \in Copies : RetryDelayEnds(m)
        \/ \E c \in Consumers : Handle(c) \/ Fault(c)
        \/ \E c \in Consumers, m \in Copies : Deliver(c, m)
        \/ Stabilise

Spec == Init /\ [][Next]_vars

\* Consumer loops keep running, RabbitMQ delivers every queued message in
\* the end, TTLs pass, faults end.
Fairness == /\ \A c \in Consumers : WF_vars(Handle(c))
            /\ \A m \in Copies : /\ WF_vars(RetryDelayEnds(m))
                                 /\ SF_vars(\E c \in Consumers : Deliver(c, m))
            /\ WF_vars(Stabilise)

FairSpec == Spec /\ Fairness

-----------------------------------------------------------------------------
(* Properties.                                                             *)

TypeOK == /\ place \in [Copies -> Place]
          /\ body \in [Copies -> Events \cup {NoEvent}]
          /\ attempts \in [Copies -> 0..MaxRetries]
          /\ step \in [Consumers -> Step]
          /\ tag \in [Consumers -> Copies \cup {NoCopy}]
          /\ event \in [Consumers -> Events \cup {NoEvent}]
          /\ tries \in [Consumers -> 0..MaxRetries]
          /\ dead \subseteq Events
          /\ stored \in [Events -> Nat]
          /\ accepted \subseteq Events
          /\ stable \in BOOLEAN

\* Somebody still answers for event e.
InCustody(e) == \/ stored[e] > 0
                \/ e \in dead
                \/ \E m \in Copies : place[m] # "free" /\ body[m] = e

\* No event is lost: whatever RabbitMQ has confirmed is stored as a
\* notification, waits in the dead-letter queue, or is still queued, through
\* crashes, lost connections, lost acknowledgements and failed retries
\* (processBeforeAck; retryOrDeadLetter acknowledges after its publish).
NoEventLost == \A e \in accepted : InCustody(e)

\* One event, one notification: redelivered, replayed and duplicated messages
\* never write a second row, and nothing is notified that no publisher sent
\* (the unique index on event_id and DO NOTHING).
NotifiedOnce == \A e \in Events : /\ stored[e] <= 1
                                  /\ stored[e] > 0 => e \in accepted

\* A message handed to a consumer is some loop's to acknowledge, and one
\* loop's only: none is stuck unacknowledged, none is acknowledged twice.
TakenByOneConsumer ==
    \A m \in Copies :
        /\ place[m] = "taken" => \E c \in Consumers : tag[c] = m
        /\ \A c, d \in Consumers : tag[c] = m /\ tag[d] = m => c = d

\* When a loop is about to acknowledge, the copy it gives up is replaced:
\* by the notification, by the dead letter, or by a copy that has used up
\* more retries.  (Any other copy would not do: two loops could each rely on
\* the copy the other one is about to acknowledge.)
AckIsSafe ==
    \A c \in Consumers : step[c] \in {"processed", "republished"} =>
        \/ stored[event[c]] > 0
        \/ step[c] = "republished" /\ event[c] \in dead
        \/ /\ step[c] = "republished"
           /\ \E m \in Copies : /\ place[m] # "free"
                                /\ body[m] = event[c]
                                /\ attempts[m] > tries[c]

\* Every event RabbitMQ has taken is eventually stored or dead-lettered.
AcceptedIsSettled ==
    \A e \in Events : e \in accepted ~> stored[e] > 0 \/ e \in dead

-----------------------------------------------------------------------------
(* The inductive invariant behind the safety properties.                   *)

\* A message has a body; a loop that can acknowledge holds the copy whose
\* body and retry header it is working on.
CopiesHaveBodies ==
    \A m \in Copies : /\ place[m] # "free" => body[m] \in accepted
                      /\ place[m] = "free" <=> body[m] = NoEvent

LoopHoldsItsCopy ==
    \A c \in Consumers :
        /\ step[c] = "idle" <=> event[c] = NoEvent
        /\ step[c] = "idle" => tag[c] = NoCopy
        /\ step[c] # "idle" => event[c] \in accepted
        /\ tag[c] # NoCopy => /\ place[tag[c]] = "taken"
                              /\ body[tag[c]] = event[c]
                              /\ attempts[tag[c]] = tries[c]

IInv == /\ TypeOK
        /\ NotifiedOnce
        /\ TakenByOneConsumer
        /\ CopiesHaveBodies
        /\ LoopHoldsItsCopy
        /\ AckIsSafe
        /\ NoEventLost
=============================================================================
