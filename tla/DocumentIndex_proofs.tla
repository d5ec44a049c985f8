------------------------ MODULE DocumentIndex_proofs ------------------------
(***************************************************************************)
(* Proofs about DocumentIndex, for any numbers of loops, events, points    *)
(* and places in the queues.                                               *)
(***************************************************************************)
EXTENDS DocumentIndex, SequenceTheorems, WellFoundedInduction, TLAPS

Events == 1..Len(ops)

-----------------------------------------------------------------------------
(* Sequences, by what they hold.                                           *)

Holds(s, x) == \E i \in DOMAIN s : s[i] = x

LEMMA AppendHolds ==
    ASSUME NEW S, NEW s \in Seq(S), NEW e \in S
    PROVE  /\ Append(s, e) \in Seq(S)
           /\ Append(s, e) # <<>>
           /\ Holds(Append(s, e), e)
           /\ \A x : Holds(s, x) => Holds(Append(s, e), x)
           /\ Head(Append(s, e)) = IF s = <<>> THEN e ELSE Head(s)
  <1>1. /\ Append(s, e) \in Seq(S)
        /\ Append(s, e) # <<>>
        /\ DOMAIN s = 1..Len(s)
        /\ Len(s) \in Nat
        /\ DOMAIN Append(s, e) = 1..(Len(s) + 1)
    BY AppendProperties, LenProperties
  <1>2. /\ \A i \in 1..Len(s) : Append(s, e)[i] = s[i]
        /\ Append(s, e)[Len(s) + 1] = e
    BY AppendProperties
  <1>3. Head(Append(s, e)) = IF s = <<>> THEN e ELSE Head(s)
    BY HeadTailAppend
  <1> QED
    BY <1>1, <1>2, <1>3 DEF Holds

LEMMA TailHolds ==
    ASSUME NEW S, NEW s \in Seq(S), s # <<>>
    PROVE  /\ Head(s) \in S
           /\ Tail(s) \in Seq(S)
           /\ Holds(s, Head(s))
           /\ \A x : Holds(s, x) => x = Head(s) \/ Holds(Tail(s), x)
  <1>1. /\ Head(s) \in S
        /\ Tail(s) \in Seq(S)
        /\ Len(Tail(s)) = Len(s) - 1
        /\ \A i \in 1..Len(Tail(s)) : Tail(s)[i] = s[i + 1]
    BY HeadTailProperties
  <1>2. /\ DOMAIN s = 1..Len(s)
        /\ Len(s) \in Nat \ {0}
        /\ DOMAIN Tail(s) = 1..(Len(s) - 1)
    BY <1>1, LenProperties, EmptySeq
  <1>3. Head(s) = s[1]
    OBVIOUS
  <1>4. ASSUME NEW i \in DOMAIN s
        PROVE  s[i] = Head(s) \/ Holds(Tail(s), s[i])
    <2>1. CASE i = 1
      BY <2>1, <1>3
    <2>2. CASE i # 1
      <3>1. i - 1 \in DOMAIN Tail(s) /\ i - 1 \in 1..Len(Tail(s))
        BY <1>1, <1>2, <2>2
      <3>2. Tail(s)[i - 1] = s[i]
        BY <1>1, <1>2, <3>1
      <3> QED
        BY <3>1, <3>2 DEF Holds
    <2> QED
      BY <2>1, <2>2
  <1> QED
    BY <1>1, <1>2, <1>3, <1>4 DEF Holds

LEMMA ConcatHolds ==
    ASSUME NEW S, NEW s \in Seq(S), NEW t \in Seq(S)
    PROVE  /\ s \o t \in Seq(S)
           /\ \A x : Holds(s, x) \/ Holds(t, x) => Holds(s \o t, x)
  <1>1. /\ s \o t \in Seq(S)
        /\ Len(s \o t) = Len(s) + Len(t)
        /\ \A i \in 1..Len(s) + Len(t) :
             (s \o t)[i] = IF i <= Len(s) THEN s[i] ELSE t[i - Len(s)]
    BY ConcatProperties
  <1>2. /\ DOMAIN s = 1..Len(s) /\ DOMAIN t = 1..Len(t)
        /\ Len(s) \in Nat /\ Len(t) \in Nat
        /\ DOMAIN (s \o t) = 1..(Len(s) + Len(t))
    BY <1>1, LenProperties
  <1>3. ASSUME NEW i \in DOMAIN s
        PROVE  Holds(s \o t, s[i])
    <2>1. i \in DOMAIN (s \o t) /\ (s \o t)[i] = s[i]
      BY <1>1, <1>2
    <2> QED
      BY <2>1 DEF Holds
  <1>4. ASSUME NEW i \in DOMAIN t
        PROVE  Holds(s \o t, t[i])
    <2>1. i + Len(s) \in 1..Len(s) + Len(t) /\ ~(i + Len(s) <= Len(s))
      BY <1>2
    <2>2. (s \o t)[i + Len(s)] = t[i]
      BY <1>1, <1>2, <2>1
    <2> QED
      BY <1>2, <2>1, <2>2 DEF Holds
  <1> QED
    BY <1>1, <1>3, <1>4 DEF Holds

LEMMA OneHolds ==
    ASSUME NEW S, NEW e \in S
    PROVE  <<e>> \in Seq(S) /\ Holds(<<e>>, e)
  BY DEF Holds

\* publishBatch's loop takes one of the rows it has.
LEMMA NextIsThere ==
    ASSUME NEW rows \in SUBSET Nat, rows # {}
    PROVE  NextOf(rows) \in rows
  <1>0. \E i \in rows : \A j \in rows : <<j, i>> \notin OpToRel(<, Nat)
    BY ONLY rows \in SUBSET Nat, rows # {}, WFMin, NatLessThanWellFounded
  <1>1. PICK i \in rows : \A j \in rows : ~(j < i)
    BY <1>0 DEF OpToRel
  <1>2. \A j \in rows : i <= j
    BY <1>1
  <1> QED
    BY <1>2 DEF NextOf
-----------------------------------------------------------------------------
(* Types.  An edit lengthens ops or leaves it, and what was an event still  *)
(* is one.                                                                 *)

LEMMA InitHolds == Init => IInv
  <1> SUFFICES ASSUME Init
               PROVE  IInv
    OBVIOUS
  <1>1. /\ ops = <<>> /\ Len(ops) = 0 /\ ops \in Seq({"upsert", "delete"})
        /\ queue \in Seq(Events)
        /\ inbox \in [Consumers -> Seq(Events)]
        /\ index \in [Points -> 0..Len(ops)]
    BY EmptySeq DEF Init, NoPoints
  <1>2. TypeOK
    <2>1. MaxEvents \in Nat
      BY IndexAssumption
    <2>2. /\ life \in {"none", "draft", "published", "deleted"}
          /\ hidden \in BOOLEAN /\ moderated \in BOOLEAN /\ stable \in BOOLEAN
          /\ seen \in {"none", "shown", "hidden"}
          /\ done \subseteq 1..Len(ops)
          /\ batch \in [Publishers -> SUBSET (1..Len(ops))]
          /\ sent \in [Publishers -> BOOLEAN] /\ broken \in [Publishers -> BOOLEAN]
          /\ cleared \in [Consumers -> BOOLEAN]
      BY DEF Init
    <2>3. /\ work \in [Consumers -> 0..Len(ops)]
          /\ {touched, newest} \subseteq 0..Len(ops)
          /\ \A c \in Consumers : work[c] = 0
      BY <1>1 DEF Init
    <2> QED
      BY <1>1, <2>1, <2>2, <2>3 DEF TypeOK, Events
  <1>3. NothingTooEarly /\ RebuildFits /\ NewestEventIsTrue
    BY <1>2 DEF Init, NothingTooEarly, RebuildFits, NewestEventIsTrue
  <1>4. LoopIsAlone /\ HalfBuiltIsRetried
    BY DEF Init, LoopIsAlone, HalfBuiltIsRetried
  <1>5. OneVersionIndexed
    <2>1. /\ 0 \in 0..Len(ops)
          /\ index = [i \in Points |-> IF 0 # 0 /\ i <= Size[0] THEN 0 ELSE 0]
      BY <1>1 DEF Init, NoPoints
    <2> QED
      BY <2>1 DEF OneVersionIndexed
  <1> QED
    BY <1>2, <1>3, <1>4, <1>5 DEF IInv

LEMMA EnqueueIs ==
    ASSUME TypeOK, NEW op \in {"upsert", "delete"}, enqueueIndex(op)
    PROVE  /\ ops' \in Seq({"upsert", "delete"})
           /\ ops' # <<>>
           /\ Len(ops) \in Nat /\ Len(ops') = Len(ops) + 1
           /\ Len(ops') <= MaxEvents
           /\ \A i \in Events : ops'[i] = ops[i]
           /\ ops'[Len(ops')] = op
           /\ moderated' = FALSE
  <1>1. ops \in Seq({"upsert", "delete"}) /\ Len(ops) \in Nat
    BY LenProperties DEF TypeOK
  <1>2. /\ ops' \in Seq({"upsert", "delete"})
        /\ ops' # <<>>
        /\ Len(ops') = Len(ops) + 1
        /\ \A i \in 1..Len(ops) : ops'[i] = ops[i]
        /\ ops'[Len(ops) + 1] = op
    BY <1>1, AppendProperties DEF enqueueIndex
  <1> QED
    BY <1>1, <1>2, IndexAssumption DEF enqueueIndex, Editing, Events

\* The events there were when a step of the article begins.
OpsGrow == /\ ops' \in Seq({"upsert", "delete"})
           /\ Len(ops) \in Nat /\ Len(ops') \in Nat
           /\ Len(ops) <= Len(ops') /\ Len(ops') <= MaxEvents
           /\ \A i \in Events : ops'[i] = ops[i]

LEMMA EventsStay ==
    ASSUME TypeOK, OpsGrow, NothingElse,
           life' \in {"none", "draft", "published", "deleted"},
           hidden' \in BOOLEAN, moderated' \in BOOLEAN,
           seen' \in {"none", "shown", "hidden"}
    PROVE  TypeOK'
  <1>1. Events \subseteq Events'
    BY DEF OpsGrow, Events
  <1>2. \A s \in Seq(Events) : s \in Seq(Events')
    BY <1>1, SeqMonotonic
  <1>3. queue' \in Seq(Events') /\ inbox' \in [Consumers -> Seq(Events')]
    BY <1>2 DEF TypeOK, NothingElse, Events, consumerVars
  <1>4. /\ done' \subseteq Events'
        /\ batch' \in [Publishers -> SUBSET Events']
        /\ sent' \in [Publishers -> BOOLEAN] /\ broken' \in [Publishers -> BOOLEAN]
    BY <1>1 DEF TypeOK, NothingElse, publisherVars, Events
  <1>5. /\ work' \in [Consumers -> 0..Len(ops')]
        /\ cleared' \in [Consumers -> BOOLEAN]
        /\ index' \in [Points -> 0..Len(ops')]
        /\ {touched', newest'} \subseteq 0..Len(ops')
    BY DEF TypeOK, NothingElse, consumerVars, indexVars, OpsGrow
  <1>6. \A c \in Consumers : work'[c] # 0 /\ inbox'[c] # <<>> =>
                                work'[c] = Head(inbox'[c])
    BY DEF TypeOK, NothingElse, consumerVars
  <1> QED
    BY <1>3, <1>4, <1>5, <1>6 DEF TypeOK, OpsGrow, Events, NothingElse

\* What depends on the events there are stays true when they grow.
LEMMA IndexStays ==
    ASSUME IInv, OpsGrow, NothingElse
    PROVE  /\ RebuildFits'
           /\ Alone' => LoopIsAlone' /\ HalfBuiltIsRetried' /\ OneVersionIndexed'
  <1>1. /\ work \in [Consumers -> 0..Len(ops)] /\ touched \in 0..Len(ops)
        /\ UNCHANGED <<queue, inbox, work, cleared, index, touched>>
    BY DEF IInv, TypeOK, NothingElse, consumerVars, indexVars
  <1>2. RebuildFits'
    <2> SUFFICES ASSUME NEW c \in Consumers, cleared[c]
                 PROVE  work[c] # 0 /\ ops'[work[c]] = "upsert"
      BY <1>1 DEF RebuildFits
    <2>1. work[c] # 0 /\ ops[work[c]] = "upsert" /\ work[c] \in Events
      BY <1>1 DEF IInv, RebuildFits, OpsGrow, Events
    <2> QED
      BY <2>1 DEF OpsGrow
  <1>3. ASSUME Alone
        PROVE  LoopIsAlone' /\ HalfBuiltIsRetried' /\ OneVersionIndexed'
    <2>1. LoopIsAlone /\ HalfBuiltIsRetried /\ OneVersionIndexed
      BY <1>3 DEF IInv
    <2>2. LoopIsAlone'
      BY <1>1, <2>1 DEF LoopIsAlone
    <2>3. HalfBuiltIsRetried'
      <3> SUFFICES ASSUME index = NoPoints, touched # 0, ops'[touched] = "upsert"
                   PROVE  InFlight(touched)
        BY <1>1 DEF HalfBuiltIsRetried, InFlight, NoPoints
      <3>1. ops[touched] = "upsert"
        BY <1>1 DEF OpsGrow, Events
      <3> QED
        BY <2>1, <3>1 DEF HalfBuiltIsRetried
    <2>4. OneVersionIndexed'
      BY <1>1, <2>1 DEF OneVersionIndexed, OpsGrow
    <2> QED
      BY <2>2, <2>3, <2>4
  <1> QED
    BY <1>2, <1>3 DEF Alone

LEMMA EditStep ==
    ASSUME IInv, Edit
    PROVE  IInv'
  <1>1. /\ ops \in Seq({"upsert", "delete"}) /\ Len(ops) <= MaxEvents
        /\ Len(ops) \in Nat
        /\ life \in {"none", "draft", "published", "deleted"}
        /\ hidden \in BOOLEAN /\ moderated \in BOOLEAN
        /\ seen \in {"none", "shown", "hidden"}
        /\ TypeOK /\ NothingTooEarly /\ NewestEventIsTrue
    BY LenProperties DEF IInv, TypeOK
  <1>2. ops' = ops => OpsGrow
    BY <1>1 DEF OpsGrow
  <1>3. ASSUME NEW op \in {"upsert", "delete"}, enqueueIndex(op)
        PROVE  /\ OpsGrow /\ ops' # <<>> /\ ops'[Len(ops')] = op
               /\ moderated' = FALSE
    <2>1. /\ ops' \in Seq({"upsert", "delete"})
          /\ ops' # <<>>
          /\ Len(ops') = Len(ops) + 1
          /\ Len(ops') <= MaxEvents
          /\ \A i \in Events : ops'[i] = ops[i]
          /\ ops'[Len(ops')] = op
          /\ moderated' = FALSE
      BY ONLY <1>1, <1>3, EnqueueIs
    <2> QED
      BY <1>1, <2>1 DEF OpsGrow
  <1>4. ASSUME NEW st \in {"draft", "published"}, Create(st)
        PROVE  /\ OpsGrow /\ NewestEventIsTrue'
               /\ life' = st /\ hidden' = hidden /\ seen' = seen
               /\ moderated' \in BOOLEAN
    <2>1. CASE st = "published"
      <3>1. enqueueIndex("upsert") /\ ~hidden
        BY <1>1, <1>4, <2>1 DEF Create, NothingTooEarly
      <3> QED
        BY <1>3, <1>4, <2>1, <3>1 DEF Create, NewestEventIsTrue
    <2>2. CASE st # "published"
      <3>1. ops' = <<>> /\ OpsGrow
        BY <1>1, <1>2, <1>4, <2>2 DEF Create, NothingTooEarly
      <3> QED
        BY <1>1, <1>4, <2>2, <3>1 DEF Create, NewestEventIsTrue
    <2> QED
      BY <2>1, <2>2
  <1>5. ASSUME NEW st \in {"draft", "published"}, SaveUpdate(st)
        PROVE  /\ OpsGrow /\ NewestEventIsTrue'
               /\ life' = st /\ hidden' \in BOOLEAN /\ seen' = "none"
               /\ moderated' \in BOOLEAN
    <2> DEFINE op == IF st = "published" /\ seen = "shown" THEN "upsert"
                     ELSE "delete"
    <2>1. enqueueIndex(op) /\ op \in {"upsert", "delete"}
      BY <1>5 DEF SaveUpdate
    <2>2. OpsGrow /\ ops'[Len(ops')] = op /\ moderated' = FALSE
      BY ONLY <1>3, <2>1
    <2>3. op = "upsert" <=> life' = "published" /\ ~hidden'
      BY <1>1, <1>5 DEF SaveUpdate
    <2>4. life' = st /\ hidden' \in BOOLEAN /\ seen' = "none"
      BY <1>5 DEF SaveUpdate
    <2> QED
      BY <2>2, <2>3, <2>4 DEF NewestEventIsTrue
  <1>6. ASSUME OpenUpdate
        PROVE  /\ OpsGrow /\ NewestEventIsTrue'
               /\ life' = life /\ life # "none" /\ hidden' = hidden
               /\ seen' \in {"shown", "hidden"} /\ moderated' = moderated
    BY <1>1, <1>2, <1>6 DEF OpenUpdate, NewestEventIsTrue
  <1>7. ASSUME Delete
        PROVE  /\ OpsGrow /\ NewestEventIsTrue'
               /\ life' = "deleted" /\ hidden' = hidden /\ seen' = seen
               /\ moderated' \in BOOLEAN
    <2>1. OpsGrow /\ ops'[Len(ops')] = "delete" /\ moderated' = FALSE
      BY <1>3, <1>7 DEF Delete
    <2> QED
      BY <1>7, <2>1 DEF Delete, NewestEventIsTrue
  <1>8. ASSUME Moderate
        PROVE  /\ OpsGrow /\ NewestEventIsTrue'
               /\ life' = life /\ life # "none" /\ hidden' \in BOOLEAN
               /\ seen' = seen /\ moderated' \in BOOLEAN
    BY <1>1, <1>2, <1>8 DEF Moderate, NewestEventIsTrue
  <1>9. /\ OpsGrow /\ NewestEventIsTrue'
        /\ life' \in {"draft", "published", "deleted"}
        /\ hidden' \in BOOLEAN /\ moderated' \in BOOLEAN
        /\ seen' \in {"none", "shown", "hidden"}
    BY <1>1, <1>4, <1>5, <1>6, <1>7, <1>8 DEF Edit
  <1>10. NothingElse
    BY DEF Edit, Create, SaveUpdate, OpenUpdate, Delete, Moderate
  <1>11. TypeOK' /\ NothingTooEarly'
    <2>1. TypeOK'
      BY <1>1, <1>9, <1>10, EventsStay
    <2> QED
      BY <1>1, <1>9, <1>10, <2>1 DEF NothingTooEarly, NothingElse, publisherVars
  <1>12. /\ RebuildFits'
         /\ Alone' => LoopIsAlone' /\ HalfBuiltIsRetried' /\ OneVersionIndexed'
    BY <1>9, <1>10, IndexStays
  <1> QED
    BY <1>9, <1>11, <1>12 DEF IInv

-----------------------------------------------------------------------------
(* The loops.  None of their steps touches the article or its events.      *)

ArticleRests == UNCHANGED <<articleVars, stable>>

LEMMA ArticleStays ==
    ASSUME IInv, ArticleRests
    PROVE  /\ NewestEventIsTrue'
           /\ life' = "none" => ops' = <<>> /\ ~hidden'
           /\ Events' = Events
BY DEF IInv, ArticleRests, articleVars, NewestEventIsTrue, NothingTooEarly,
       Events

\* A message that stays in RabbitMQ or in hand is taken up again.
LEMMA RetryStays ==
    ASSUME touched \in 0..Len(ops), Len(ops) \in Nat, HalfBuiltIsRetried,
           UNCHANGED <<ops, index, touched>>,
           \A x \in Events : InFlight(x) => InFlight(x)'
    PROVE  HalfBuiltIsRetried'
  <1> SUFFICES ASSUME index = NoPoints, touched # 0, ops[touched] = "upsert"
               PROVE  InFlight(touched)'
    BY DEF HalfBuiltIsRetried, NoPoints
  <1>1. InFlight(touched) /\ touched \in Events
    BY DEF HalfBuiltIsRetried, Events
  <1>2. PICK x \in Events : x = touched
    BY <1>1
  <1>3. InFlight(x)'
    BY <1>1, <1>2 DEF InFlight
  <1> QED
    BY <1>2, <1>3 DEF InFlight

\* Where the consumers rest, their part of the invariant holds on to a queue
\* that loses nothing.
LEMMA ConsumersRest ==
    ASSUME IInv, ArticleRests, UNCHANGED <<consumerVars, indexVars>>,
           \A x : Holds(queue, x) => Holds(queue', x)
    PROVE  /\ RebuildFits'
           /\ Alone' => LoopIsAlone' /\ HalfBuiltIsRetried' /\ OneVersionIndexed'
  <1>1. /\ UNCHANGED <<ops, inbox, work, cleared, index, touched>>
        /\ touched \in 0..Len(ops) /\ ops \in Seq({"upsert", "delete"})
    BY DEF IInv, TypeOK, ArticleRests, articleVars, consumerVars, indexVars
  <1>2. RebuildFits'
    BY <1>1 DEF IInv, RebuildFits
  <1>3. ASSUME Alone
        PROVE  LoopIsAlone' /\ HalfBuiltIsRetried' /\ OneVersionIndexed'
    <2>1. LoopIsAlone /\ HalfBuiltIsRetried /\ OneVersionIndexed
      BY <1>3 DEF IInv
    <2>2. LoopIsAlone'
      BY <1>1, <2>1 DEF LoopIsAlone, Holds, NoPoints
    <2>3. \A x \in Events : InFlight(x) => InFlight(x)'
      BY <1>1 DEF InFlight, Holds
    <2>4. HalfBuiltIsRetried'
      BY <1>1, <2>1, <2>3, LenProperties, RetryStays
    <2>5. OneVersionIndexed'
      BY <1>1, <2>1 DEF OneVersionIndexed
    <2> QED
      BY <2>2, <2>4, <2>5
  <1> QED
    BY <1>2, <1>3 DEF Alone

LEMMA PublisherStep ==
    ASSUME IInv, NEW p \in Publishers,
           PublishStep(p) \/ PublishVanishes(p) \/ PublisherCrashes(p)
    PROVE  IInv'
  <1>1. /\ TypeOK /\ NothingTooEarly /\ Len(ops) \in Nat
        /\ batch \in [Publishers -> SUBSET Events]
        /\ sent \in [Publishers -> BOOLEAN] /\ broken \in [Publishers -> BOOLEAN]
        /\ queue \in Seq(Events) /\ done \subseteq Events
    BY LenProperties DEF IInv, TypeOK, Events
  <1>2. ArticleRests /\ UNCHANGED <<consumerVars, indexVars>>
    BY DEF ArticleRests, PublishStep, Pending, Publish, PublishFails,
           MarkPublished, PublishVanishes, PublisherCrashes
  <1>3. batch[p] # {} => NextOf(batch[p]) \in batch[p] /\ batch[p] \subseteq Events
    BY <1>1, NextIsThere DEF Events
  <1>4. sent[p] => batch[p] # {}
    BY <1>1 DEF NothingTooEarly
  <1>5. /\ queue' \in Seq(Events)
        /\ \A x : Holds(queue, x) => Holds(queue', x)
    <2>1. CASE UNCHANGED queue
      BY <1>1, <2>1
    <2>2. CASE Publish(p)
      <3>1. /\ queue' = Append(queue, NextOf(batch[p]))
            /\ NextOf(batch[p]) \in Events
        BY <1>3, <2>2 DEF Publish
      <3> QED
        BY <1>1, <3>1, AppendHolds
    <2> QED
      BY <2>1, <2>2 DEF PublishStep, Pending, PublishFails, MarkPublished,
                        PublishVanishes, PublisherCrashes
  <1>6. /\ batch' \in [Publishers -> SUBSET Events]
        /\ sent' \in [Publishers -> BOOLEAN] /\ broken' \in [Publishers -> BOOLEAN]
        /\ done' \subseteq Events
        /\ \A q \in Publishers : sent'[q] => batch'[q] # {}
    <2>1. CASE Pending(p)
      <3>1. ~sent[p]
        BY <1>4, <2>1 DEF Pending
      <3> QED
        BY <1>1, <2>1 DEF Pending, NothingTooEarly, Events
    <2>2. CASE Publish(p) \/ PublishVanishes(p)
      BY <1>1, <2>2 DEF Publish, PublishVanishes, NothingTooEarly
    <2>3. CASE PublishFails(p)
      BY <1>1, <2>3 DEF PublishFails, NothingTooEarly, Rest
    <2>4. CASE MarkPublished(p)
      BY <1>1, <1>3, <1>4, <2>4 DEF MarkPublished, NothingTooEarly, Rest
    <2>5. CASE PublisherCrashes(p)
      BY <1>1, <2>5 DEF PublisherCrashes, NothingTooEarly
    <2> QED
      BY <2>1, <2>2, <2>3, <2>4, <2>5 DEF PublishStep
  <1>7. TypeOK'
    BY <1>1, <1>2, <1>5, <1>6 DEF TypeOK, ArticleRests, articleVars,
                                   consumerVars, indexVars, Events
  <1>8. NewestEventIsTrue' /\ NothingTooEarly'
    BY <1>2, <1>6, ArticleStays DEF NothingTooEarly
  <1>9. /\ RebuildFits'
        /\ Alone' => LoopIsAlone' /\ HalfBuiltIsRetried' /\ OneVersionIndexed'
    BY <1>2, <1>5, ConsumersRest
  <1> QED
    BY <1>7, <1>8, <1>9 DEF IInv

-----------------------------------------------------------------------------
(* The consume loops.                                                      *)

LEMMA LoopsAre ==
    ASSUME IInv, NEW c \in Consumers
    PROVE  /\ Len(ops) \in Nat
           /\ queue \in Seq(Events)
           /\ inbox \in [Consumers -> Seq(Events)] /\ inbox[c] \in Seq(Events)
           /\ work \in [Consumers -> 0..Len(ops)]
           /\ work[c] \in 0..Len(ops)
           /\ work[c] # 0 => work[c] \in Events
           /\ cleared \in [Consumers -> BOOLEAN]
           /\ index \in [Points -> 0..Len(ops)]
           /\ touched \in 0..Len(ops) /\ newest \in 0..Len(ops)
           /\ work[c] # 0 /\ inbox[c] # <<>> => work[c] = Head(inbox[c])
           /\ cleared[c] => work[c] # 0 /\ ops[work[c]] = "upsert"
BY LenProperties DEF IInv, TypeOK, Events, RebuildFits

ConsumerStep(c) == \/ Deliver(c) \/ ConsumeStep(c)
                   \/ ConnectionLost(c) \/ ConsumerCrashes(c)

\* What an upsert writes are points of its own version, the first at least.
LEMMA WrittenIs ==
    ASSUME IInv, NEW v \in Events
    PROVE  /\ Written(v) \in [Points -> 0..Len(ops)]
           /\ Written(v) # NoPoints
           /\ index = NoPoints =>
                Written(v) = [i \in Points |-> IF v # 0 /\ i <= Size[v] THEN v ELSE 0]
  <1>1. /\ index \in [Points -> 0..Len(ops)] /\ Len(ops) \in Nat
        /\ Len(ops) <= MaxEvents
    BY LenProperties DEF IInv, TypeOK
  <1>2. v \in 0..Len(ops) /\ v # 0 /\ v \in Ids
    BY <1>1, IndexAssumption DEF Events, Ids
  <1>3. Size[v] \in 1..MaxPoints
    BY <1>2, IndexAssumption
  <1>4. 1 \in Points /\ 1 <= Size[v]
    BY <1>3, IndexAssumption DEF Points
  <1>5. Written(v)[1] = v
    BY <1>4 DEF Written
  <1>6. NoPoints[1] = 0
    BY <1>4 DEF NoPoints
  <1> QED
    BY <1>1, <1>2, <1>5, <1>6 DEF Written, NoPoints

\* The next delivery is at hand, and the answered one is no longer.
LEMMA AnsweredIs ==
    ASSUME IInv, NEW c \in Consumers, Answered(c)
    PROVE  /\ inbox' \in [Consumers -> Seq(Events)]
           /\ work' \in [Consumers -> 0..Len(ops)]
           /\ cleared' \in [Consumers -> BOOLEAN]
           /\ work'[c] = 0 /\ ~cleared'[c]
           /\ \A d \in Consumers \ {c} : /\ work'[d] = work[d]
                                         /\ cleared'[d] = cleared[d]
                                         /\ inbox'[d] = inbox[d]
           /\ inbox'[c] = IF inbox[c] = <<>> THEN inbox[c] ELSE Tail(inbox[c])
  <1>1. (IF inbox[c] = <<>> THEN inbox[c] ELSE Tail(inbox[c])) \in Seq(Events)
    BY LoopsAre, TailHolds
  <1> QED
    BY <1>1, LoopsAre DEF Answered

LEMMA AppliedIs ==
    ASSUME IInv, NEW c \in Consumers, Applied(c)
    PROVE  touched' \in 0..Len(ops) /\ newest' \in 0..Len(ops)
BY LoopsAre DEF Applied

LEMMA ConsumerTypes ==
    ASSUME IInv, NEW c \in Consumers, ConsumerStep(c)
    PROVE  /\ queue' \in Seq(Events)
           /\ inbox' \in [Consumers -> Seq(Events)]
           /\ work' \in [Consumers -> 0..Len(ops)]
           /\ cleared' \in [Consumers -> BOOLEAN]
           /\ index' \in [Points -> 0..Len(ops)]
           /\ {touched', newest'} \subseteq 0..Len(ops)
           /\ \A d \in Consumers : work'[d] # 0 /\ inbox'[d] # <<>> =>
                                      work'[d] = Head(inbox'[d])
           /\ \A d \in Consumers : cleared'[d] =>
                                      work'[d] # 0 /\ ops[work'[d]] = "upsert"
  <1>1. \A d \in Consumers :
          /\ work[d] # 0 /\ inbox[d] # <<>> => work[d] = Head(inbox[d])
          /\ cleared[d] => work[d] # 0 /\ ops[work[d]] = "upsert"
    BY LoopsAre
  <1>2. NoPoints \in [Points -> 0..Len(ops)]
    BY LoopsAre DEF NoPoints
  <1>3. CASE Deliver(c)
    <2>1. /\ Head(queue) \in Events /\ queue' \in Seq(Events)
      BY <1>3, LoopsAre, TailHolds DEF Deliver
    <2>2. /\ Append(inbox[c], Head(queue)) \in Seq(Events)
          /\ inbox[c] # <<>> => Head(Append(inbox[c], Head(queue))) = Head(inbox[c])
      BY <2>1, LoopsAre, AppendHolds
    <2> QED
      BY <1>1, <1>3, <2>1, <2>2, LoopsAre DEF Deliver, indexVars
  <1>4. CASE Process(c)
    <2>1. Head(inbox[c]) \in Events
      BY <1>4, LoopsAre, TailHolds DEF Process
    <2>2. Head(inbox[c]) \in 0..Len(ops) /\ ~cleared[c]
      BY <1>1, <1>4, <2>1 DEF Process, Events
    <2> QED
      BY <1>1, <1>4, <2>2, LoopsAre DEF Process, indexVars
  <1>5. CASE DeleteArticle(c)
    <2>1. Answered(c) /\ Applied(c) /\ index' = NoPoints /\ queue' = queue
      BY <1>5 DEF DeleteArticle
    <2> QED
      BY <1>1, <1>2, <2>1, LoopsAre, AnsweredIs, AppliedIs
  <1>6. CASE ClearPoints(c)
    BY <1>1, <1>2, <1>6, LoopsAre DEF ClearPoints
  <1>7. CASE PutPoints(c)
    <2>1. /\ Answered(c) /\ Applied(c) /\ index' = Written(work[c]) /\ queue' = queue
          /\ work[c] \in Events
      BY <1>7, LoopsAre DEF PutPoints
    <2> QED
      BY <1>1, <2>1, LoopsAre, AnsweredIs, AppliedIs, WrittenIs
  <1>8. CASE Fail(c)
    <2>1. Answered(c) /\ work[c] \in Events
      BY <1>8, LoopsAre DEF Fail
    <2>2. queue' \in Seq(Events)
      BY <1>8, <2>1, LoopsAre, OneHolds, ConcatHolds DEF Fail
    <2>3. index' \in [Points -> 0..Len(ops)] /\ {touched', newest'} \subseteq 0..Len(ops)
      BY <1>2, <1>8, <2>1, LoopsAre, AppliedIs, WrittenIs DEF Fail, indexVars
    <2> QED
      BY <1>1, <2>1, <2>2, <2>3, AnsweredIs
  <1>9. CASE ConnectionLost(c) \/ ConsumerCrashes(c)
    <2>1. /\ queue' = inbox[c] \o queue
          /\ inbox' = [inbox EXCEPT ![c] = <<>>]
          /\ \/ UNCHANGED <<work, cleared>>
             \/ /\ work' = [work EXCEPT ![c] = 0]
                /\ cleared' = [cleared EXCEPT ![c] = FALSE]
          /\ UNCHANGED <<index, touched, newest>>
      BY <1>9 DEF ConnectionLost, ConsumerCrashes, indexVars
    <2>2. <<>> \in Seq(Events)
      BY EmptySeq
    <2>3. queue' \in Seq(Events)
      BY <2>1, LoopsAre, ConcatHolds
    <2>4. /\ inbox' \in [Consumers -> Seq(Events)] /\ inbox'[c] = <<>>
          /\ \A d \in Consumers \ {c} : inbox'[d] = inbox[d]
      BY <2>1, <2>2, LoopsAre
    <2>5. /\ work' \in [Consumers -> 0..Len(ops)]
          /\ cleared' \in [Consumers -> BOOLEAN]
          /\ \A d \in Consumers : cleared'[d] =>
                                     work'[d] # 0 /\ ops[work'[d]] = "upsert"
          /\ \A d \in Consumers \ {c} : work'[d] = work[d]
      <3>1. CASE UNCHANGED <<work, cleared>>
        BY <1>1, <3>1, LoopsAre
      <3>2. CASE /\ work' = [work EXCEPT ![c] = 0]
                 /\ cleared' = [cleared EXCEPT ![c] = FALSE]
        <4>1. ~cleared'[c] /\ 0 \in 0..Len(ops)
          BY <3>2, LoopsAre
        <4>2. \A d \in Consumers \ {c} : work'[d] = work[d] /\ cleared'[d] = cleared[d]
          BY <3>2, LoopsAre
        <4>3. work' \in [Consumers -> 0..Len(ops)]
          BY <3>2, <4>1, LoopsAre
        <4>4. cleared' \in [Consumers -> BOOLEAN]
          BY <3>2, LoopsAre
        <4> QED
          BY <1>1, <4>1, <4>2, <4>3, <4>4
      <3> QED
        BY <2>1, <3>1, <3>2
    <2> QED
      BY <1>1, <2>1, <2>3, <2>4, <2>5, LoopsAre
  <1> QED
    BY <1>3, <1>4, <1>5, <1>6, <1>7, <1>8, <1>9 DEF ConsumerStep, ConsumeStep

\* With one loop: what it does between two calls nobody else undoes, and what
\* it takes from RabbitMQ it keeps, gives back or has applied.
LEMMA LoneLoop ==
    ASSUME IInv, Alone, NEW c \in Consumers, ConsumerStep(c), ArticleRests
    PROVE  LoopIsAlone' /\ HalfBuiltIsRetried' /\ OneVersionIndexed'
  <1>1. /\ LoopIsAlone /\ HalfBuiltIsRetried /\ OneVersionIndexed
        /\ \A d \in Consumers : d = c
        /\ UNCHANGED ops
    BY DEF IInv, Alone, ArticleRests, articleVars
  <1>2. /\ cleared[c] => index = NoPoints
        /\ work[c] # 0 /\ inbox[c] = <<>> => Holds(queue, work[c])
    BY <1>1 DEF LoopIsAlone, Holds
  <1>3. \A x : InFlight(x) <=> \/ Holds(queue, x)
                               \/ work[c] = x
                               \/ Holds(inbox[c], x)
    BY <1>1 DEF InFlight, Holds
  <1>4. \A x : InFlight(x)' <=> \/ Holds(queue', x)
                                \/ work'[c] = x
                                \/ Holds(inbox'[c], x)
    BY <1>1 DEF InFlight, Holds
  <1>5. ASSUME cleared'[c] => index' = NoPoints,
               work'[c] # 0 /\ inbox'[c] = <<>> => Holds(queue', work'[c])
        PROVE  LoopIsAlone'
    BY <1>1, <1>5 DEF LoopIsAlone, Holds, NoPoints
  <1>6. ASSUME UNCHANGED indexVars,
               \A x \in Events : InFlight(x) => InFlight(x)'
        PROVE  HalfBuiltIsRetried' /\ OneVersionIndexed'
    <2>1. HalfBuiltIsRetried'
      BY <1>1, <1>6, LoopsAre, RetryStays DEF indexVars
    <2> QED
      BY <1>1, <1>6, <2>1 DEF OneVersionIndexed, indexVars
  <1>7. ASSUME index' = NoPoints
        PROVE  OneVersionIndexed'
    <2>1. 0 \in 0..Len(ops')
      BY <1>1, LoopsAre
    <2>2. index' = [i \in Points |-> IF 0 # 0 /\ i <= Size[0] THEN 0 ELSE 0]
      BY <1>7 DEF NoPoints
    <2> QED
      BY <2>1, <2>2 DEF OneVersionIndexed
  <1>8. ASSUME cleared[c], index' = Written(work[c])
        PROVE  HalfBuiltIsRetried' /\ OneVersionIndexed'
    <2>1. work[c] \in Events /\ index = NoPoints
      BY <1>2, <1>8, LoopsAre
    <2>2. /\ index' # NoPoints
          /\ index' = [i \in Points |-> IF work[c] # 0 /\ i <= Size[work[c]]
                                        THEN work[c] ELSE 0]
      BY <1>8, <2>1, WrittenIs
    <2>3. HalfBuiltIsRetried'
      BY <2>2 DEF HalfBuiltIsRetried, NoPoints
    <2>4. OneVersionIndexed'
      BY <1>1, <2>1, <2>2 DEF OneVersionIndexed, Events
    <2> QED
      BY <2>3, <2>4
  <1>9. CASE Deliver(c)
    <2>1. /\ Head(queue) \in Events
          /\ \A x : Holds(queue, x) => x = Head(queue) \/ Holds(queue', x)
      BY <1>9, LoopsAre, TailHolds DEF Deliver
    <2>2. /\ inbox'[c] = Append(inbox[c], Head(queue))
          /\ UNCHANGED <<work, cleared>> /\ UNCHANGED indexVars
      BY <1>9, LoopsAre DEF Deliver
    <2>3. /\ inbox'[c] # <<>>
          /\ Holds(inbox'[c], Head(queue))
          /\ \A x : Holds(inbox[c], x) => Holds(inbox'[c], x)
      <3>1. inbox[c] \in Seq(Events)
        BY LoopsAre
      <3> QED
        BY ONLY <2>1, <2>2, <3>1, AppendHolds
    <2>4. LoopIsAlone'
      BY <1>2, <1>5, <2>2, <2>3 DEF indexVars
    <2>5. \A x \in Events : InFlight(x) => InFlight(x)'
      BY <1>3, <1>4, <2>1, <2>2, <2>3
    <2> QED
      BY <1>6, <2>2, <2>4, <2>5
  <1>10. CASE Process(c)
    <2>1. /\ work[c] = 0 /\ ~cleared[c] /\ inbox[c] # <<>>
          /\ UNCHANGED <<queue, inbox, cleared>> /\ UNCHANGED indexVars
      BY <1>10, LoopsAre DEF Process
    <2>2. LoopIsAlone'
      BY <1>5, <2>1
    <2>3. \A x \in Events : InFlight(x) => InFlight(x)'
      BY <1>3, <1>4, <2>1 DEF Events
    <2> QED
      BY <1>6, <2>1, <2>2, <2>3
  <1>11. CASE DeleteArticle(c)
    <2>1. /\ index' = NoPoints /\ touched' = work[c] /\ ops[work[c]] = "delete"
          /\ Answered(c)
      BY <1>11 DEF DeleteArticle, Applied
    <2>2. LoopIsAlone'
      BY <1>5, <2>1, AnsweredIs
    <2>3. HalfBuiltIsRetried'
      BY <1>1, <2>1 DEF HalfBuiltIsRetried
    <2> QED
      BY <1>7, <2>1, <2>2, <2>3
  <1>12. CASE ClearPoints(c)
    <2>1. /\ index' = NoPoints /\ touched' = work[c]
          /\ work[c] # 0 /\ UNCHANGED <<queue, inbox, work>>
      BY <1>12 DEF ClearPoints
    <2>2. LoopIsAlone'
      BY <1>2, <1>5, <2>1
    <2>3. HalfBuiltIsRetried'
      BY <2>1 DEF HalfBuiltIsRetried, InFlight
    <2> QED
      BY <1>7, <2>1, <2>2, <2>3
  <1>13. CASE PutPoints(c)
    <2>1. cleared[c] /\ index' = Written(work[c]) /\ Answered(c)
      BY <1>13 DEF PutPoints
    <2>2. LoopIsAlone'
      BY <1>5, <2>1, AnsweredIs
    <2> QED
      BY <1>8, <2>1, <2>2
  <1>14. CASE Fail(c)
    <2>1. work[c] \in Events /\ Answered(c)
      BY <1>14, LoopsAre DEF Fail
    <2>2. LoopIsAlone'
      BY <1>5, <2>1, AnsweredIs
    <2>3. CASE UNCHANGED indexVars
      <3>1. \A x : Holds(queue, x) \/ work[c] = x => Holds(queue', x)
        <4>1. CASE inbox[c] = <<>>
          BY <1>2, <1>14, <2>1, <4>1 DEF Fail, Events
        <4>2. CASE inbox[c] # <<>>
          <5>1. queue' = <<work[c]>> \o queue
            BY <1>14, <4>2 DEF Fail
          <5>2. <<work[c]>> \in Seq(Events) /\ Holds(<<work[c]>>, work[c])
            BY <2>1, OneHolds
          <5> QED
            BY <5>1, <5>2, LoopsAre, ConcatHolds
        <4> QED
          BY <4>1, <4>2
      <3>2. \A x : Holds(inbox[c], x) => x = work[c] \/ Holds(inbox'[c], x)
        <4>1. CASE inbox[c] = <<>>
          BY <2>1, <4>1, AnsweredIs
        <4>2. CASE inbox[c] # <<>>
          <5>1. work[c] = Head(inbox[c]) /\ inbox'[c] = Tail(inbox[c])
            BY <2>1, <4>2, LoopsAre, AnsweredIs DEF Events
          <5> QED
            BY <4>2, <5>1, LoopsAre, TailHolds
        <4> QED
          BY <4>1, <4>2
      <3>3. \A x \in Events : InFlight(x) => InFlight(x)'
        BY <1>3, <1>4, <3>1, <3>2
      <3> QED
        BY <1>6, <2>2, <2>3, <3>3
    <2>4. CASE cleared[c] /\ index' = Written(work[c])
      BY <1>8, <2>2, <2>4
    <2>5. CASE ops[work[c]] = "delete" /\ index' = NoPoints /\ Applied(c)
      <3>1. HalfBuiltIsRetried'
        BY <1>1, <2>5 DEF HalfBuiltIsRetried, Applied
      <3> QED
        BY <1>7, <2>2, <2>5, <3>1
    <2> QED
      BY <1>14, <2>3, <2>4, <2>5 DEF Fail
  <1>15. CASE ConnectionLost(c) \/ ConsumerCrashes(c)
    <2>1. /\ queue' = inbox[c] \o queue
          /\ UNCHANGED indexVars
          /\ inbox[c] # <<>> \/ work[c] # 0
      BY <1>15 DEF ConnectionLost, ConsumerCrashes
    <2>2. /\ work'[c] # 0 => work'[c] = work[c]
          /\ cleared'[c] => cleared[c]
      <3>1. CASE ConnectionLost(c)
        BY <3>1 DEF ConnectionLost
      <3>2. CASE ConsumerCrashes(c)
        BY <3>2, LoopsAre DEF ConsumerCrashes
      <3> QED
        BY <1>15, <3>1, <3>2
    <2>3. \A x : Holds(inbox[c], x) \/ Holds(queue, x) => Holds(queue', x)
      BY <2>1, LoopsAre, ConcatHolds
    <2>4. work[c] # 0 => Holds(queue', work[c])
      <3>1. CASE inbox[c] = <<>>
        BY <1>2, <2>3, <3>1
      <3>2. CASE inbox[c] # <<>> /\ work[c] # 0
        BY <2>3, <3>2, LoopsAre, TailHolds
      <3> QED
        BY <3>1, <3>2
    <2>5. LoopIsAlone'
      BY <1>2, <1>5, <2>1, <2>2, <2>4 DEF indexVars
    <2>6. \A x \in Events : InFlight(x) => InFlight(x)'
      BY <1>3, <1>4, <2>3, <2>4 DEF Events
    <2> QED
      BY <1>6, <2>1, <2>5, <2>6
  <1> QED
    BY <1>9, <1>10, <1>11, <1>12, <1>13, <1>14, <1>15 DEF ConsumerStep, ConsumeStep

LEMMA ConsumerStepHolds ==
    ASSUME IInv, NEW c \in Consumers, ConsumerStep(c)
    PROVE  IInv'
  <1>1. ArticleRests /\ UNCHANGED publisherVars
    BY DEF ArticleRests, ConsumerStep, Deliver, ConsumeStep, Process,
           DeleteArticle, ClearPoints, PutPoints, Fail, ConnectionLost,
           ConsumerCrashes
  <1>2. TypeOK'
    <2>1. /\ TypeOK /\ UNCHANGED <<life, hidden, seen, ops, moderated, stable>>
          /\ UNCHANGED <<done, batch, sent, broken>>
      BY <1>1 DEF IInv, ArticleRests, articleVars, publisherVars
    <2> QED
      BY <2>1, ConsumerTypes DEF TypeOK, Events
  <1>3. RebuildFits'
    BY <1>1, ConsumerTypes DEF RebuildFits, ArticleRests, articleVars
  <1>4. NewestEventIsTrue' /\ NothingTooEarly'
    BY <1>1, ArticleStays DEF IInv, NothingTooEarly, publisherVars
  <1>5. Alone' => LoopIsAlone' /\ HalfBuiltIsRetried' /\ OneVersionIndexed'
    BY <1>1, LoneLoop DEF Alone
  <1> QED
    BY <1>2, <1>3, <1>4, <1>5 DEF IInv

\* Stabilise and stuttering change nothing the invariant speaks of.
LEMMA RestHolds ==
    ASSUME IInv, Stabilise \/ UNCHANGED vars
    PROVE  IInv'
  <1>1. UNCHANGED <<articleVars, publisherVars, queue, consumerVars, indexVars>>
    BY DEF Stabilise, vars
  <1>2. TypeOK'
    BY <1>1 DEF IInv, TypeOK, Stabilise, vars, articleVars, publisherVars,
                consumerVars, indexVars
  <1>3. NothingTooEarly' /\ RebuildFits' /\ NewestEventIsTrue'
    BY <1>1 DEF IInv, NothingTooEarly, RebuildFits, NewestEventIsTrue,
                articleVars, publisherVars, consumerVars
  <1>4. Alone' => LoopIsAlone' /\ HalfBuiltIsRetried' /\ OneVersionIndexed'
    BY <1>1 DEF IInv, Alone, LoopIsAlone, HalfBuiltIsRetried, InFlight,
                NoPoints, OneVersionIndexed, articleVars, consumerVars, indexVars
  <1> QED
    BY <1>2, <1>3, <1>4 DEF IInv

-----------------------------------------------------------------------------
(* What the index keeps to.                                                *)

\* IInv is inductive: the types, what a loop is in the middle of, and, with
\* one consume loop, what the index holds between any two of its calls.
THEOREM IndexInvariant == Spec => []IInv
  <1>1. Init => IInv
    BY InitHolds
  <1>2. IInv /\ [Next]_vars => IInv'
    <2> SUFFICES ASSUME IInv, [Next]_vars
                 PROVE  IInv'
      OBVIOUS
    <2>1. CASE Edit
      BY <2>1, EditStep
    <2>2. ASSUME NEW p \in Publishers,
                 PublishStep(p) \/ PublishVanishes(p) \/ PublisherCrashes(p)
          PROVE  IInv'
      BY <2>2, PublisherStep
    <2>3. ASSUME NEW c \in Consumers, ConsumerStep(c)
          PROVE  IInv'
      BY <2>3, ConsumerStepHolds
    <2>4. CASE Stabilise \/ UNCHANGED vars
      BY <2>4, RestHolds
    <2> QED
      BY <2>1, <2>2, <2>3, <2>4 DEF Next, Fault, ConsumerStep
  <1> QED
    BY <1>1, <1>2, PTL DEF Spec

\* The newest event of an article nobody has moderated since says whether it
\* is to be found (enqueueIndex in the transactions of ArticleService).
THEOREM EventsSpeakTrue == Spec => []NewestEventIsTrue
  <1>1. IInv => NewestEventIsTrue
    BY DEF IInv
  <1> QED
    BY <1>1, IndexInvariant, PTL

\* With one consume loop, a rebuild that stops between the deletion of the
\* old points and the writing of the new is taken up again (consume
\* acknowledges after process).
THEOREM RebuildIsRetried ==
    ASSUME Alone
    PROVE  Spec => []HalfBuiltIsRetried
  <1>1. IInv => HalfBuiltIsRetried
    BY DEF IInv
  <1> QED
    BY <1>1, IndexInvariant, PTL

\* With one consume loop, the points of the article are all of one version
\* (IndexArticle deletes by article before it writes).
THEOREM VersionsDoNotMix ==
    ASSUME Alone
    PROVE  Spec => []OneVersionIndexed
  <1>1. IInv => OneVersionIndexed
    BY DEF IInv
  <1> QED
    BY <1>1, IndexInvariant, PTL
=============================================================================
