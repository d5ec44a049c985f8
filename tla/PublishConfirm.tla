--------------------------- MODULE PublishConfirm ---------------------------
(***************************************************************************)
(* publishConfirmed and awaitPublishConfirmation of                        *)
(* internal/service/notification_mq.go: how a loop learns what became of   *)
(* the one message it has just published, from two Go channels that the    *)
(* AMQP client fills.  Messages are published one after the other on an    *)
(* AMQP channel, which its user drops after the first error; the client    *)
(* dispatches the broker's frames in the order it reads them.              *)
(*                                                                         *)
(* NotificationOutbox!PublishAccepted and NotificationDelivery!Republish   *)
(* rest on what is shown here: nil is returned only for a stored message.  *)
(***************************************************************************)
EXTENDS Naturals, Sequences

CONSTANTS MaxPublishes,   \* bound on the messages published in a behaviour
          Capacity        \* buffer of each Go channel: 1, or 16

ASSUME PublishAssumption == /\ MaxPublishes \in Nat
                            /\ Capacity \in Nat \ {0}

VARIABLES
    pc,        \* where the loop is
    last,      \* number of the last message published
    fate,      \* fate[n]: what the broker did with message n
    wire,      \* frames the broker has sent on this AMQP channel
    returns,   \* the buffered Go channel of Basic.Return
    confirms,  \* the buffered Go channel of confirmations
    closed,    \* the AMQP client has closed both Go channels
    result     \* result[n]: what publishConfirmed returned for message n

vars == <<pc, last, fate, wire, returns, confirms, closed, result>>

Messages == 1..MaxPublishes

\* Frames from the broker.
Frame == [kind : {"return", "ack", "nack"}, msg : Messages]
Return(n) == [kind |-> "return", msg |-> n]
Ack(n) == [kind |-> "ack", msg |-> n]
Nack(n) == [kind |-> "nack", msg |-> n]

Pc == {"ready",      \* the AMQP channel is usable, nothing outstanding
       "waiting",    \* the outer select
       "draining",   \* a return was received: the inner select on confirms
       "checking",   \* an ack was received: the select with default
       "dropped"}    \* an error was returned: the AMQP channel is given up

Init == /\ pc = "ready"
        /\ last = 0
        /\ fate = [n \in Messages |-> "unsent"]
        /\ wire = <<>> /\ returns = <<>> /\ confirms = <<>>
        /\ closed = FALSE
        /\ result = [n \in Messages |-> "none"]

-----------------------------------------------------------------------------
(* The broker and the AMQP client.                                         *)

\* The broker answers the message: it routes and confirms it, returns it as
\* unroutable and then confirms it, or negatively acknowledges it.
Answer(n, f) ==
    /\ ~closed
    /\ fate[n] = "sent"
    /\ fate' = [fate EXCEPT ![n] = f]
    /\ wire' = wire \o CASE f = "routed" -> <<Ack(n)>>
                         [] f = "returned" -> <<Return(n), Ack(n)>>
                         [] f = "refused" -> <<Nack(n)>>
    /\ UNCHANGED <<pc, last, returns, confirms, closed, result>>

\* The client's reader hands the next frame to its Go channel.
Dispatch ==
    /\ wire # <<>>
    /\ LET frame == Head(wire)
       IN  IF frame.kind = "return"
           THEN /\ Len(returns) < Capacity
                /\ returns' = Append(returns, frame)
                /\ UNCHANGED confirms
           ELSE /\ Len(confirms) < Capacity
                /\ confirms' = Append(confirms, frame)
                /\ UNCHANGED returns
    /\ wire' = Tail(wire)
    /\ UNCHANGED <<pc, last, fate, closed, result>>

\* The connection breaks: unread frames are lost and both Go channels are
\* closed, after what is already in their buffers.
ConnectionLost == /\ ~closed
                  /\ closed' = TRUE
                  /\ wire' = <<>>
                  /\ UNCHANGED <<pc, last, fate, returns, confirms, result>>

-----------------------------------------------------------------------------
(* The loop.                                                               *)

\* publishConfirmed calls PublishWithContext, which fails on a closed
\* channel.
Publish ==
    /\ pc = "ready"
    /\ last < MaxPublishes
    /\ last' = last + 1
    /\ \/ /\ fate' = [fate EXCEPT ![last + 1] = "sent"]
          /\ pc' = "waiting"
          /\ UNCHANGED result
       \/ /\ closed
          /\ pc' = "dropped"
          /\ result' = [result EXCEPT ![last + 1] = "error"]
          /\ UNCHANGED fate
    /\ UNCHANGED <<wire, returns, confirms, closed>>

\* Mutant: the AMQP channel stays in use after an error.
FinishAndStay(r) == result' = [result EXCEPT ![last] = r] /\ pc' = "ready"

Finish(r) == /\ result' = [result EXCEPT ![last] = r]
             /\ pc' = IF r = "nil" THEN "ready" ELSE "dropped"

\* The context ends while a select waits.
ContextDone == /\ pc \in {"waiting", "draining"}
               /\ Finish("error")
               /\ UNCHANGED <<last, fate, wire, returns, confirms, closed>>

\* The outer select takes a return: its confirm is still to be consumed.
TakeReturn == /\ pc = "waiting"
              /\ returns # <<>>
              /\ returns' = Tail(returns)
              /\ pc' = "draining"
              /\ UNCHANGED <<last, fate, wire, confirms, closed, result>>

\* The inner select takes that confirm; whatever it says, the message failed.
DrainConfirm == /\ pc = "draining"
                /\ confirms # <<>>
                /\ confirms' = Tail(confirms)
                /\ Finish("error")
                /\ UNCHANGED <<last, fate, wire, returns, closed>>

\* The outer select takes a confirmation; a negative one ends the wait.
TakeConfirm == /\ pc = "waiting"
               /\ confirms # <<>>
               /\ confirms' = Tail(confirms)
               /\ IF Head(confirms).kind = "ack"
                  THEN pc' = "checking" /\ UNCHANGED result
                  ELSE Finish("error")
               /\ UNCHANGED <<last, fate, wire, returns, closed>>

\* Mutant: the ack is believed at once.
BelieveAck == /\ pc = "checking"
              /\ Finish("nil")
              /\ UNCHANGED <<last, fate, wire, returns, confirms, closed>>

\* Before the ack is believed, the buffer of returns is looked at once more.
CheckReturns == /\ pc = "checking"
                /\ IF returns # <<>>
                   THEN returns' = Tail(returns) /\ Finish("error")
                   ELSE UNCHANGED returns
                        /\ Finish(IF closed THEN "error" ELSE "nil")
                /\ UNCHANGED <<last, fate, wire, confirms, closed>>

\* Mutant: only the outer select looks for closed Go channels.
SeeClosedOutside == /\ closed
                    /\ pc = "waiting"
                    /\ returns = <<>> \/ confirms = <<>>
                    /\ Finish("error")
                    /\ UNCHANGED <<last, fate, wire, returns, confirms, closed>>

\* A receive from a closed and drained Go channel.
SeeClosed == /\ closed
             /\ \/ pc = "waiting" /\ (returns = <<>> \/ confirms = <<>>)
                \/ pc = "draining" /\ confirms = <<>>
             /\ Finish("error")
             /\ UNCHANGED <<last, fate, wire, returns, confirms, closed>>

\* Mutant: the Go channels of the old connection are used again.
ReconnectOnly == /\ pc = "dropped"
                 /\ pc' = "ready"
                 /\ closed' = FALSE
                 /\ wire' = <<>>
                 /\ fate' = [n \in Messages |->
                               IF fate[n] = "sent" THEN "lost" ELSE fate[n]]
                 /\ UNCHANGED <<last, returns, confirms, result>>

\* publisherLoop or consumerLoop reconnects: new AMQP channel, new Go
\* channels; answers still due on the old ones are never seen.
Reconnect == /\ pc = "dropped"
             /\ pc' = "ready"
             /\ closed' = FALSE
             /\ wire' = <<>> /\ returns' = <<>> /\ confirms' = <<>>
             /\ fate' = [n \in Messages |->
                           IF fate[n] = "sent" THEN "lost" ELSE fate[n]]
             /\ UNCHANGED <<last, result>>

-----------------------------------------------------------------------------

LoopStep == \/ TakeReturn \/ DrainConfirm \/ TakeConfirm \/ CheckReturns
            \/ SeeClosed \/ Reconnect

Next == \/ \E n \in Messages, f \in {"routed", "returned", "refused"} :
             Answer(n, f)
        \/ Dispatch \/ ConnectionLost
        \/ Publish \/ ContextDone \/ LoopStep

Spec == Init /\ [][Next]_vars

\* The broker answers a live channel, the client reads it, the loop runs.
Fairness == /\ WF_vars(\E n \in Messages, f \in {"routed", "returned", "refused"} :
                         Answer(n, f))
            /\ WF_vars(Dispatch)
            /\ WF_vars(LoopStep)

FairSpec == Spec /\ Fairness

-----------------------------------------------------------------------------
(* Properties.                                                             *)

TypeOK == /\ pc \in Pc
          /\ last \in 0..MaxPublishes
          /\ fate \in [Messages -> {"unsent", "sent", "routed", "returned",
                                    "refused", "lost"}]
          /\ wire \in Seq(Frame)
          /\ returns \in Seq(Frame)
          /\ confirms \in Seq(Frame)
          /\ closed \in BOOLEAN
          /\ result \in [Messages -> {"none", "nil", "error"}]

\* publishConfirmed returns nil only for a message the broker has routed to
\* a queue, whichever ready branch Go's select picks and however returns,
\* confirms and a closing connection interleave ("also inspect a return that
\* arrived in the same frame batch before accepting the ACK").
NilMeansRouted ==
    \A n \in Messages : result[n] = "nil" => fate[n] = "routed"

\* A message is never judged by the answer to another one: what is in the Go
\* channels or on the wire answers the message the loop is waiting for ("so
\* it cannot be mistaken for the next message's confirmation").
AnswersMatch ==
    pc # "dropped" =>
        /\ \A s \in {wire, returns, confirms} :
              \A i \in DOMAIN s : s[i].msg = last /\ result[last] = "none"
        /\ pc = "draining" => fate[last] = "returned"
        /\ pc = "checking" => fate[last] \in {"routed", "returned"}

\* No publish waits for ever on a live connection: the client's reader and
\* the loop never block each other on a full Go channel.
EveryPublishReturns ==
    \A n \in Messages : fate[n] = "sent" ~> result[n] # "none"
-----------------------------------------------------------------------------
(* The inductive invariant behind the safety properties.                   *)

Buffers(x, r, c) == wire = x /\ returns = r /\ confirms = c

\* What the outer select can still meet for message n.
AnswerDue(n) ==
    \/ fate[n] = "sent" /\ Buffers(<<>>, <<>>, <<>>)
    \/ /\ fate[n] = "routed"
       /\ \/ Buffers(<<Ack(n)>>, <<>>, <<>>)
          \/ Buffers(<<>>, <<>>, <<Ack(n)>>)
    \/ /\ fate[n] = "refused"
       /\ \/ Buffers(<<Nack(n)>>, <<>>, <<>>)
          \/ Buffers(<<>>, <<>>, <<Nack(n)>>)
    \/ /\ fate[n] = "returned"
       /\ \/ Buffers(<<Return(n), Ack(n)>>, <<>>, <<>>)
          \/ Buffers(<<Ack(n)>>, <<Return(n)>>, <<>>)
          \/ Buffers(<<>>, <<Return(n)>>, <<Ack(n)>>)
          \/ closed /\ Buffers(<<>>, <<Return(n)>>, <<>>)
    \/ closed /\ Buffers(<<>>, <<>>, <<>>)

\* What the inner select can still meet.
ConfirmDue(n) == \/ Buffers(<<Ack(n)>>, <<>>, <<>>)
                 \/ Buffers(<<>>, <<>>, <<Ack(n)>>)
                 \/ closed /\ Buffers(<<>>, <<>>, <<>>)

\* What the last look at the returns can meet.
LastLook(n) == \/ fate[n] = "routed" /\ Buffers(<<>>, <<>>, <<>>)
               \/ fate[n] = "returned" /\ Buffers(<<>>, <<Return(n)>>, <<>>)

InStep == /\ pc = "ready" => Buffers(<<>>, <<>>, <<>>)
          /\ pc = "waiting" => AnswerDue(last)
          /\ pc = "draining" => fate[last] = "returned" /\ ConfirmDue(last)
          /\ pc = "checking" => LastLook(last)

\* Only the last message is unanswered, and only while it is waited for or
\* its channel has been given up; those to come are untouched.
OneOutstanding ==
    /\ pc \in {"waiting", "draining", "checking"} =>
         last \in Messages /\ result[last] = "none"
    /\ \A n \in Messages :
         /\ fate[n] = "sent" => n = last /\ pc \in {"waiting", "dropped"}
         /\ n > last => fate[n] = "unsent" /\ result[n] = "none"

IInv == TypeOK /\ NilMeansRouted /\ InStep /\ OneOutstanding
=============================================================================
