------------------------ MODULE PublishConfirm_proofs ------------------------
(* What publishConfirmed may answer, for every number of messages and every *)
(* size of the Go channels.                                                 *)
EXTENDS PublishConfirm, TLAPS

\* The frames of a message, as sequences of frames.
LEMMA FramesAreFrames ==
    ASSUME NEW n \in Messages
    PROVE  /\ {Ack(n), Nack(n), Return(n)} \subseteq Frame
           /\ Ack(n).kind = "ack" /\ Nack(n).kind = "nack"
           /\ Return(n).kind = "return"
  BY DEF Ack, Nack, Return, Frame

\* What the Go channels and the wire hold stays sequences of frames.
LEMMA FrameSequences ==
    /\ <<>> \in Seq(Frame)
    /\ \A s \in Seq(Frame), f \in Frame : Append(s, f) \in Seq(Frame)
    /\ \A s \in Seq(Frame) : s # <<>> => /\ Head(s) \in Frame
                                         /\ Tail(s) \in Seq(Frame)
  OBVIOUS

\* The types alone are kept by every step, the ones of a dropped AMQP
\* channel included.
LEMMA NextTypeOK == TypeOK /\ OneOutstanding /\ [Next]_vars => TypeOK'
  <1> SUFFICES ASSUME TypeOK, OneOutstanding, [Next]_vars
               PROVE  TypeOK'
    OBVIOUS
  <1> DEFINE SeqOK == /\ wire \in Seq(Frame)
                      /\ returns \in Seq(Frame)
                      /\ confirms \in Seq(Frame)
             RestOK == /\ pc \in Pc
                       /\ last \in 0..MaxPublishes
                       /\ fate \in [Messages -> {"unsent", "sent", "routed",
                                                 "returned", "refused", "lost"}]
                       /\ closed \in BOOLEAN
                       /\ result \in [Messages -> {"none", "nil", "error"}]
  <1>1. SeqOK'
    <2>1. ASSUME NEW n \in Messages,
                 NEW f \in {"routed", "returned", "refused"},
                 Answer(n, f)
          PROVE  SeqOK'
      BY <2>1, FramesAreFrames DEF Answer, TypeOK
    <2>2. CASE Dispatch
      BY <2>2, FrameSequences DEF Dispatch, TypeOK
    <2>3. CASE Publish \/ ContextDone \/ TakeReturn \/ DrainConfirm
               \/ TakeConfirm \/ CheckReturns \/ SeeClosed
      BY <2>3, FrameSequences
      DEF Publish, ContextDone, TakeReturn, DrainConfirm, TakeConfirm,
          CheckReturns, SeeClosed, TypeOK
    <2>4. CASE ConnectionLost \/ Reconnect
      BY <2>4, FrameSequences DEF ConnectionLost, Reconnect, TypeOK
    <2>5. CASE UNCHANGED vars
      BY <2>5 DEF vars, TypeOK
    <2> QED
      BY <2>1, <2>2, <2>3, <2>4, <2>5 DEF Next, LoopStep
  <1>2. RestOK'
    <2> RestOK
      BY DEF TypeOK
    <2>1. ASSUME NEW n \in Messages,
                 NEW f \in {"routed", "returned", "refused"},
                 Answer(n, f)
          PROVE  RestOK'
      BY <2>1 DEF Answer
    <2>2. CASE Dispatch \/ ConnectionLost
      BY <2>2 DEF Dispatch, ConnectionLost
    <2>3. CASE Publish
      BY <2>3, PublishAssumption DEF Publish, Pc, Messages
    <2>4. CASE ContextDone \/ TakeReturn \/ DrainConfirm
      BY <2>4 DEF ContextDone, TakeReturn, DrainConfirm, Finish, Pc
    <2>5. CASE TakeConfirm \/ CheckReturns \/ SeeClosed
      BY <2>5 DEF TakeConfirm, CheckReturns, SeeClosed, Finish, Pc
    <2>6. CASE Reconnect
      BY <2>6 DEF Reconnect, Pc
    <2>7. CASE UNCHANGED vars
      BY <2>7 DEF vars
    <2> QED
      BY <2>1, <2>2, <2>3, <2>4, <2>5, <2>6, <2>7 DEF Next, LoopStep
  <1> QED
    BY <1>1, <1>2 DEF TypeOK

\* Before the first publish nothing is due.
LEMMA InitIInv == Init => IInv
  <1> SUFFICES ASSUME Init
               PROVE  IInv
    OBVIOUS
  <1>1. TypeOK
    <2>1. wire \in Seq(Frame) /\ returns \in Seq(Frame) /\ confirms \in Seq(Frame)
      BY FrameSequences DEF Init
    <2>2. last \in 0..MaxPublishes
      BY PublishAssumption DEF Init
    <2> QED
      BY <2>1, <2>2 DEF Init, TypeOK, Pc
  <1>2. NilMeansRouted /\ OneOutstanding
    BY DEF Init, NilMeansRouted, OneOutstanding
  <1>3. InStep
    BY DEF Init, InStep, Buffers
  <1> QED
    BY <1>1, <1>2, <1>3 DEF IInv

\* The broker's answer to a message, put on an empty wire.
LEMMA AnswerKeeps ==
    ASSUME IInv, NEW n \in Messages,
           NEW f \in {"routed", "returned", "refused"}, Answer(n, f)
    PROVE  NilMeansRouted' /\ InStep' /\ OneOutstanding'
  <1>1. n = last /\ pc \in {"waiting", "dropped"} /\ fate[n] = "sent" /\ ~closed
    BY DEF IInv, OneOutstanding, Answer
  <1>2. /\ fate' = [fate EXCEPT ![n] = f]
        /\ fate \in [Messages -> {"unsent", "sent", "routed", "returned",
                                  "refused", "lost"}]
        /\ fate'[n] = f
    BY DEF IInv, TypeOK, Answer
  <1>3. NilMeansRouted'
    BY <1>1, <1>2 DEF IInv, NilMeansRouted, Answer
  <1>4. OneOutstanding'
    BY <1>1, <1>2 DEF IInv, OneOutstanding, Answer
  <1>5. InStep'
    <2>1. CASE pc = "dropped"
      BY <2>1 DEF Answer, InStep
    <2>2. CASE pc = "waiting"
      <3>1. Buffers(<<>>, <<>>, <<>>)
        BY <1>1, <2>2 DEF IInv, InStep, AnswerDue
      <3>2. /\ f = "routed" => wire' = <<Ack(n)>>
            /\ f = "returned" => wire' = <<Return(n), Ack(n)>>
            /\ f = "refused" => wire' = <<Nack(n)>>
        BY <3>1 DEF Buffers, Answer
      <3>3. AnswerDue(last)'
        BY <1>1, <1>2, <3>1, <3>2 DEF AnswerDue, Buffers, Answer
      <3> QED
        BY <2>2, <3>3 DEF InStep, Answer
    <2> QED
      BY <1>1, <2>1, <2>2
  <1> QED
    BY <1>3, <1>4, <1>5

\* The client's reader moves the head of the wire to the buffer it is for.
LEMMA DispatchKeeps ==
    ASSUME IInv, Dispatch
    PROVE  NilMeansRouted' /\ InStep' /\ OneOutstanding'
  <1>1. UNCHANGED <<pc, last, fate, closed, result>>
    BY DEF Dispatch
  <1>2. NilMeansRouted' /\ OneOutstanding'
    BY <1>1 DEF IInv, NilMeansRouted, OneOutstanding
  <1>3. /\ wire # <<>> /\ wire' = Tail(wire)
        /\ Head(wire).kind = "return" =>
             returns' = Append(returns, Head(wire)) /\ confirms' = confirms
        /\ Head(wire).kind # "return" =>
             confirms' = Append(confirms, Head(wire)) /\ returns' = returns
    BY DEF Dispatch
  <1>4. CASE pc = "waiting"
    <2>1. last \in Messages
      BY <1>4 DEF IInv, OneOutstanding
    <2>2. /\ Ack(last).kind = "ack" /\ Nack(last).kind = "nack"
          /\ Return(last).kind = "return"
      BY <2>1, FramesAreFrames
    <2>3. AnswerDue(last)
      BY <1>4 DEF IInv, InStep
    <2>4. CASE wire = <<Ack(last)>>
      <3>1. /\ confirms = <<>>
            /\ \/ fate[last] = "routed" /\ returns = <<>>
               \/ fate[last] = "returned" /\ returns = <<Return(last)>>
        BY <2>2, <2>3, <2>4 DEF AnswerDue, Buffers
      <3>2. wire' = <<>> /\ confirms' = <<Ack(last)>> /\ returns' = returns
        BY <1>3, <2>2, <2>4, <3>1
      <3>3. AnswerDue(last)'
        BY <1>1, <3>1, <3>2 DEF AnswerDue, Buffers
      <3> QED
        BY <1>1, <1>2, <1>4, <3>3 DEF InStep
    <2>5. CASE wire = <<Nack(last)>>
      <3>1. confirms = <<>> /\ returns = <<>> /\ fate[last] = "refused"
        BY <2>2, <2>3, <2>5 DEF AnswerDue, Buffers
      <3>2. wire' = <<>> /\ confirms' = <<Nack(last)>> /\ returns' = returns
        BY <1>3, <2>2, <2>5, <3>1
      <3>3. AnswerDue(last)'
        BY <1>1, <3>1, <3>2 DEF AnswerDue, Buffers
      <3> QED
        BY <1>1, <1>2, <1>4, <3>3 DEF InStep
    <2>6. CASE wire = <<Return(last), Ack(last)>>
      <3>1. confirms = <<>> /\ returns = <<>> /\ fate[last] = "returned"
        BY <2>3, <2>6 DEF AnswerDue, Buffers
      <3>2. /\ wire' = <<Ack(last)>> /\ confirms' = confirms
            /\ returns' = <<Return(last)>>
        BY <1>3, <2>2, <2>6, <3>1
      <3>3. AnswerDue(last)'
        BY <1>1, <3>1, <3>2 DEF AnswerDue, Buffers
      <3> QED
        BY <1>1, <1>2, <1>4, <3>3 DEF InStep
    <2>7. \/ wire = <<Ack(last)>> \/ wire = <<Nack(last)>>
          \/ wire = <<Return(last), Ack(last)>>
      BY <1>3, <2>3 DEF AnswerDue, Buffers
    <2> QED
      BY <1>2, <2>4, <2>5, <2>6, <2>7
  <1>5. CASE pc = "draining"
    <2>1. last \in Messages /\ Ack(last).kind = "ack"
      BY <1>5, FramesAreFrames DEF IInv, OneOutstanding
    <2>2. Buffers(<<Ack(last)>>, <<>>, <<>>)
      BY <1>3, <1>5 DEF IInv, InStep, ConfirmDue, Buffers
    <2>3. wire' = <<>> /\ confirms' = <<Ack(last)>> /\ returns' = <<>>
      BY <1>3, <2>1, <2>2 DEF Buffers
    <2> QED
      BY <1>1, <1>2, <1>5, <2>3 DEF IInv, InStep, ConfirmDue, Buffers
  <1>6. CASE pc \notin {"waiting", "draining"}
    <2>1. pc = "dropped"
      BY <1>3, <1>6 DEF IInv, InStep, TypeOK, Pc, LastLook, Buffers
    <2> QED
      BY <1>1, <1>2, <2>1 DEF InStep
  <1> QED
    BY <1>4, <1>5, <1>6

\* A lost connection leaves what is already in the Go channels.
LEMMA ConnectionLostKeeps ==
    ASSUME IInv, ConnectionLost
    PROVE  NilMeansRouted' /\ InStep' /\ OneOutstanding'
  <1>1. NilMeansRouted' /\ OneOutstanding'
    BY DEF IInv, NilMeansRouted, OneOutstanding, ConnectionLost
  <1>2. CASE pc = "waiting"
    <2>1. AnswerDue(last)
      BY <1>2 DEF IInv, InStep
    <2>2. AnswerDue(last)'
      BY <2>1 DEF AnswerDue, Buffers, ConnectionLost
    <2> QED
      BY <1>1, <1>2, <2>2 DEF InStep, ConnectionLost
  <1>3. CASE pc # "waiting"
    BY <1>1, <1>3 DEF IInv, InStep, ConfirmDue, LastLook, Buffers,
                      ConnectionLost
  <1> QED
    BY <1>2, <1>3

\* The loop's steps: each select takes what its invariant says is there.
LEMMA LoopKeeps ==
    ASSUME IInv, Publish \/ ContextDone \/ LoopStep
    PROVE  NilMeansRouted' /\ InStep' /\ OneOutstanding'
  <1>0. /\ last \in 0..MaxPublishes /\ MaxPublishes \in Nat
        /\ fate \in [Messages -> {"unsent", "sent", "routed", "returned",
                                  "refused", "lost"}]
        /\ result \in [Messages -> {"none", "nil", "error"}]
    BY PublishAssumption DEF IInv, TypeOK
  <1>1. ASSUME pc \in {"waiting", "draining", "checking"},
               Finish("error"), UNCHANGED <<last, fate>>,
               fate[last] # "sent" \/ pc' = "dropped"
        PROVE  NilMeansRouted' /\ InStep' /\ OneOutstanding'
    <2>1. pc' = "dropped" /\ last \in Messages
      BY <1>1 DEF Finish, IInv, OneOutstanding
    <2> QED
      BY <1>0, <1>1, <2>1 DEF Finish, IInv, NilMeansRouted, InStep,
                               OneOutstanding, Messages
  <1>2. CASE Publish
    <2>1. last + 1 \in Messages /\ fate[last + 1] = "unsent"
               /\ result[last + 1] = "none" /\ Buffers(<<>>, <<>>, <<>>)
      BY <1>0, <1>2 DEF Publish, IInv, OneOutstanding, Messages, InStep
    <2>2. CASE pc' = "waiting"
      <3>1. fate' = [fate EXCEPT ![last + 1] = "sent"] /\ UNCHANGED result
        BY <1>2, <2>2 DEF Publish
      <3>2. NilMeansRouted' /\ OneOutstanding'
        BY <1>0, <1>2, <2>1, <2>2, <3>1
        DEF IInv, NilMeansRouted, OneOutstanding, Messages, Publish
      <3>3. AnswerDue(last)'
        BY <1>0, <1>2, <2>1, <3>1 DEF AnswerDue, Buffers, Publish
      <3> QED
        BY <2>2, <3>2, <3>3 DEF InStep
    <2>3. CASE pc' = "dropped"
      <3>1. result' = [result EXCEPT ![last + 1] = "error"] /\ UNCHANGED fate
        BY <1>2, <2>3 DEF Publish
      <3>2. NilMeansRouted' /\ OneOutstanding'
        BY <1>0, <1>2, <2>1, <2>3, <3>1
        DEF IInv, NilMeansRouted, OneOutstanding, Messages, Publish
      <3> QED
        BY <2>3, <3>2 DEF InStep
    <2> QED
      BY <1>2, <2>2, <2>3 DEF Publish
  <1>3. CASE ContextDone \/ DrainConfirm \/ SeeClosed
    <2>1. /\ pc \in {"waiting", "draining", "checking"}
          /\ Finish("error") /\ UNCHANGED <<last, fate>> /\ pc' = "dropped"
      BY <1>3 DEF ContextDone, DrainConfirm, SeeClosed, Finish
    <2> QED
      BY <1>1, <2>1
  <1>4. CASE TakeReturn
    <2>1. /\ pc = "waiting" /\ AnswerDue(last) /\ returns # <<>>
          /\ last \in Messages
      BY <1>4 DEF TakeReturn, IInv, InStep, OneOutstanding
    <2>2. /\ fate[last] = "returned" /\ returns = <<Return(last)>>
          /\ \/ wire = <<Ack(last)>> /\ confirms = <<>>
             \/ wire = <<>> /\ confirms = <<Ack(last)>>
             \/ closed /\ wire = <<>> /\ confirms = <<>>
      BY <2>1 DEF AnswerDue, Buffers
    <2>3. returns' = <<>> /\ pc' = "draining"
               /\ UNCHANGED <<last, fate, wire, confirms, closed, result>>
      BY <1>4, <2>2 DEF TakeReturn
    <2>4. ConfirmDue(last)'
      BY <2>2, <2>3 DEF ConfirmDue, Buffers
    <2> QED
      BY <2>1, <2>2, <2>3, <2>4 DEF IInv, InStep, NilMeansRouted, OneOutstanding
  <1>5. CASE TakeConfirm
    <2>1. /\ pc = "waiting" /\ AnswerDue(last) /\ confirms # <<>>
          /\ last \in Messages
      BY <1>5 DEF TakeConfirm, IInv, InStep, OneOutstanding
    <2>2. CASE Head(confirms).kind = "ack"
      <3>1. /\ Nack(last).kind = "nack"
            /\ wire = <<>>
            /\ \/ confirms = <<Nack(last)>>
               \/ /\ confirms = <<Ack(last)>>
                  /\ \/ fate[last] = "routed" /\ returns = <<>>
                     \/ fate[last] = "returned" /\ returns = <<Return(last)>>
        BY <2>1, FramesAreFrames DEF AnswerDue, Buffers
      <3>2. confirms = <<Ack(last)>>
        BY <2>2, <3>1
      <3>3. confirms' = <<>> /\ pc' = "checking"
                 /\ UNCHANGED <<last, fate, wire, returns, closed, result>>
        BY <1>5, <2>2, <3>2 DEF TakeConfirm
      <3>4. LastLook(last)'
        BY <2>2, <3>1, <3>3 DEF LastLook, Buffers
      <3> QED
        BY <2>1, <3>1, <3>3, <3>4 DEF IInv, InStep, NilMeansRouted,
                                      OneOutstanding, LastLook
    <2>3. CASE Head(confirms).kind # "ack"
      <3>1. /\ pc \in {"waiting", "draining", "checking"}
            /\ Finish("error") /\ UNCHANGED <<last, fate>> /\ pc' = "dropped"
        BY <1>5, <2>1, <2>3 DEF TakeConfirm, Finish
      <3> QED
        BY <1>1, <3>1
    <2> QED
      BY <2>2, <2>3
  <1>6. CASE CheckReturns
    <2>1. pc = "checking" /\ LastLook(last) /\ last \in Messages
      BY <1>6 DEF CheckReturns, IInv, InStep, OneOutstanding
    <2>2. CASE returns # <<>> \/ closed
      <3>1. /\ pc \in {"waiting", "draining", "checking"}
            /\ Finish("error") /\ UNCHANGED <<last, fate>> /\ pc' = "dropped"
        BY <1>6, <2>1, <2>2 DEF CheckReturns, Finish
      <3> QED
        BY <1>1, <3>1
    <2>3. CASE returns = <<>> /\ ~closed
      <3>1. fate[last] = "routed" /\ Buffers(<<>>, <<>>, <<>>)
        BY <2>1, <2>3 DEF LastLook, Buffers
      <3>2. /\ result' = [result EXCEPT ![last] = "nil"] /\ pc' = "ready"
            /\ UNCHANGED <<last, fate, wire, returns, confirms, closed>>
        BY <1>6, <2>3 DEF CheckReturns, Finish
      <3>3. NilMeansRouted' /\ OneOutstanding'
        BY <1>0, <2>1, <3>1, <3>2 DEF IInv, NilMeansRouted, OneOutstanding,
                                      Messages
      <3> QED
        BY <3>1, <3>2, <3>3 DEF InStep, Buffers
    <2> QED
      BY <2>2, <2>3
  <1>7. CASE Reconnect
    <2>1. InStep'
      BY <1>7 DEF Reconnect, InStep, Buffers
    <2>2. NilMeansRouted' /\ OneOutstanding'
      BY <1>7 DEF Reconnect, IInv, NilMeansRouted, OneOutstanding
    <2> QED
      BY <2>1, <2>2
  <1> QED
    BY <1>2, <1>3, <1>4, <1>5, <1>6, <1>7 DEF LoopStep

LEMMA NextIInv == IInv /\ [Next]_vars => IInv'
  <1> SUFFICES ASSUME IInv, [Next]_vars
               PROVE  IInv'
    OBVIOUS
  <1>1. TypeOK'
    BY NextTypeOK DEF IInv
  <1>2. CASE UNCHANGED vars
    <2>1. NilMeansRouted' /\ OneOutstanding'
      BY <1>2 DEF vars, IInv, NilMeansRouted, OneOutstanding
    <2>2. InStep'
      BY <1>2 DEF vars, IInv, InStep, AnswerDue, ConfirmDue, LastLook, Buffers
    <2> QED
      BY <1>1, <2>1, <2>2 DEF IInv
  <1>3. CASE Next
    BY <1>1, <1>3, AnswerKeeps, DispatchKeeps, ConnectionLostKeeps, LoopKeeps
    DEF Next, IInv
  <1> QED
    BY <1>2, <1>3

\* A loop and the broker stay in step: what is still due is the answer to
\* the message being waited for (awaitPublishConfirmation).
THEOREM ConfirmInvariant == Spec => []IInv
  BY InitIInv, NextIInv, PTL DEF Spec

\* publishConfirmed returns nil only for a message RabbitMQ has routed, for
\* any number of messages and any channel capacity (awaitPublishConfirmation).
THEOREM NilIsRouted == Spec => []NilMeansRouted
  BY ConfirmInvariant, PTL DEF IInv

\* The Go channels never hold the answer to another message than the one the
\* loop waits for.
THEOREM AnswersAreMatched == Spec => []AnswersMatch
  <1>1. IInv => AnswersMatch
    <2> SUFFICES ASSUME IInv, pc # "dropped"
                 PROVE  /\ \A s \in {wire, returns, confirms} :
                             \A i \in DOMAIN s : /\ s[i].msg = last
                                                 /\ result[last] = "none"
                        /\ pc = "draining" => fate[last] = "returned"
                        /\ pc = "checking" => fate[last] \in {"routed", "returned"}
      BY DEF AnswersMatch
    <2>1. CASE pc = "ready"
      BY <2>1 DEF IInv, InStep, Buffers
    <2>2. CASE pc \in {"waiting", "draining", "checking"}
      <3>1. last \in Messages /\ result[last] = "none"
        BY <2>2 DEF IInv, OneOutstanding
      <3>2. /\ Ack(last).msg = last /\ Nack(last).msg = last
            /\ Return(last).msg = last
        BY DEF Ack, Nack, Return
      <3>3. {wire, returns, confirms} \subseteq
              {<<>>, <<Ack(last)>>, <<Nack(last)>>, <<Return(last)>>,
               <<Return(last), Ack(last)>>}
        BY <2>2 DEF IInv, InStep, AnswerDue, ConfirmDue, LastLook, Buffers
      <3>4. \A s \in {<<>>, <<Ack(last)>>, <<Nack(last)>>, <<Return(last)>>,
                      <<Return(last), Ack(last)>>} :
              \A i \in DOMAIN s : s[i].msg = last
        BY <3>2
      <3> QED
        BY <2>2, <3>1, <3>3, <3>4 DEF IInv, InStep, LastLook
    <2> QED
      BY <2>1, <2>2 DEF IInv, TypeOK, Pc
  <1> QED
    BY <1>1, ConfirmInvariant, PTL

=============================================================================
