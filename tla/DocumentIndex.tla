---------------------------- MODULE DocumentIndex ----------------------------
(***************************************************************************)
(* How one article reaches the vector index: the events its transactions   *)
(* write to document_index_outbox_events (internal/service/article.go,     *)
(* internal/repo/document_index_outbox.go), the publish and consume loops  *)
(* of internal/service/document_index_mq.go, and the two calls to Qdrant   *)
(* of AIAssistantService.IndexArticle.                                     *)
(*                                                                         *)
(* Articles share nothing but the loops, so one article is enough.  An     *)
(* event is named by its auto-increment id, its place in `ops`; the id of  *)
(* an upsert also names the version of the text it carries.  RabbitMQ is   *)
(* modelled by what the code relies on: a queue in order, an unlimited     *)
(* prefetch (the code sets none), and a requeued message back in front.    *)
(***************************************************************************)
EXTENDS Naturals, Sequences

CONSTANTS
    Publishers,   \* publish loops, one per running process
    Consumers,    \* consume loops, one per running process
    MaxEvents,    \* bound on the events the article's edits write
    MaxQueue,     \* bound on the messages a publish finds waiting
    MaxPrefetch,  \* bound on one loop's inbox
    MaxPoints,    \* bound on the points a version is cut into
    Size          \* Size[v]: how many points version v is cut into

Ids == 1..MaxEvents

ASSUME IndexAssumption == /\ MaxEvents \in Nat
                          /\ MaxQueue \in Nat
                          /\ MaxPrefetch \in Nat
                          /\ MaxPoints \in Nat
                          /\ Size \in [Ids -> 1..MaxPoints]

VARIABLES
    life,       \* the article: "none", "draft", "published" or "deleted"
    hidden,     \* its hidden column
    seen,       \* the hidden column an Update in progress has read, or "none"
    ops,        \* the operations of its outbox rows, in id order
    done,       \* ids of the rows whose published_at is set
    batch,      \* batch[p]: ids of the rows publishBatch has still to send
    sent,       \* sent[p]: the next of them is sent and not yet marked
    broken,     \* broken[p]: the connection of this batch is gone
    queue,      \* messages waiting in RabbitMQ
    inbox,      \* inbox[c]: unacknowledged deliveries of loop c, oldest first
    work,       \* work[c]: the event loop c is processing, 0 if none
    cleared,    \* cleared[c]: it has deleted the article's old points
    index,      \* index[i]: the version of the article's i-th point, 0 if none
    touched,    \* history: the event that wrote or cleared the index last
    newest,     \* history: the newest event ever applied
    moderated,  \* history: hidden or unhidden since the newest event
    stable      \* TRUE once nothing fails any more, perhaps from the start

articleVars == <<life, hidden, seen, ops, moderated>>
publisherVars == <<done, batch, sent, broken>>
consumerVars == <<inbox, work, cleared>>
indexVars == <<index, touched, newest>>
vars == <<articleVars, publisherVars, queue, consumerVars, indexVars, stable>>

Points == 1..MaxPoints

NoPoints == [i \in Points |-> 0]

\* PUT /points over what is there: the ids of a version's points are 1, 2...
Written(v) == [i \in Points |-> IF i <= Size[v] THEN v ELSE index[i]]

Init == /\ life = "none" /\ hidden = FALSE /\ seen = "none"
        /\ ops = <<>> /\ moderated = FALSE
        /\ done = {}
        /\ batch = [p \in Publishers |-> {}]
        /\ sent = [p \in Publishers |-> FALSE]
        /\ broken = [p \in Publishers |-> FALSE]
        /\ queue = <<>>
        /\ inbox = [c \in Consumers |-> <<>>]
        /\ work = [c \in Consumers |-> 0]
        /\ cleared = [c \in Consumers |-> FALSE]
        /\ index = NoPoints /\ touched = 0 /\ newest = 0
        /\ stable \in BOOLEAN

-----------------------------------------------------------------------------
(* The article's own transactions: each writes its event with the row.     *)

\* The bound on events ends all edits.
Editing == Len(ops) < MaxEvents

enqueueIndex(op) == /\ Editing
                    /\ ops' = Append(ops, op)
                    /\ moderated' = FALSE

NothingElse == UNCHANGED <<publisherVars, queue, consumerVars, indexVars, stable>>

\* A draft writes no event.
Create(st) == /\ life = "none"
              /\ life' = st
              /\ IF st = "published" THEN enqueueIndex("upsert")
                 ELSE UNCHANGED <<ops, moderated>>
              /\ UNCHANGED <<hidden, seen>>
              /\ NothingElse

\* Update reads the article before it opens its transaction...
OpenUpdate == /\ Editing
              /\ life \in {"draft", "published"}
              /\ seen = "none"
              /\ seen' = IF hidden THEN "hidden" ELSE "shown"
              /\ UNCHANGED <<life, hidden, ops, moderated>>
              /\ NothingElse

\* Mutant: hidden articles are indexed too.
SaveUpdateShown(st) ==
    /\ seen # "none"
    /\ life' = st
    /\ hidden' = (seen = "hidden")
    /\ seen' = "none"
    /\ enqueueIndex(IF st = "published" THEN "upsert" ELSE "delete")
    /\ NothingElse

\* ...and saves every column in it, the hidden one as it was read.  Saving a
\* row deleted in between writes it again: Save falls back to an upsert.
SaveUpdate(st) ==
    /\ seen # "none"
    /\ life' = st
    /\ hidden' = (seen = "hidden")
    /\ seen' = "none"
    /\ enqueueIndex(IF st = "published" /\ seen = "shown" THEN "upsert"
                    ELSE "delete")
    /\ NothingElse

Delete == /\ life \in {"draft", "published"}
          /\ life' = "deleted"
          /\ enqueueIndex("delete")
          /\ UNCHANGED <<hidden, seen>>
          /\ NothingElse

\* HideArticle, UnhideArticle and a resolved report write no event.
Moderate == /\ Editing
            /\ life \in {"draft", "published"}
            /\ hidden' = ~hidden
            /\ moderated' = TRUE
            /\ UNCHANGED <<life, seen, ops>>
            /\ NothingElse

-----------------------------------------------------------------------------
(* publishBatch.                                                           *)

\* A new connection, and the rows with no published_at.
Pending(p) ==
    LET rows == {i \in 1..Len(ops) : i \notin done}
    IN  /\ batch[p] = {}
        /\ rows # {}
        /\ batch' = [batch EXCEPT ![p] = rows]
        /\ broken' = [broken EXCEPT ![p] = FALSE]
        /\ UNCHANGED <<articleVars, done, sent, queue, consumerVars, indexVars,
                       stable>>

\* Mutant: ORDER BY id DESC.
NewestOf(rows) == CHOOSE i \in rows : \A j \in rows : j <= i

\* Rows come in id order, and one is done with after the other.
NextOf(rows) == CHOOSE i \in rows : \A j \in rows : i <= j
Rest(rows) == rows \ {NextOf(rows)}

\* PublishWithContext returns nil and the broker has the message.
Publish(p) == /\ batch[p] # {} /\ ~sent[p] /\ ~broken[p]
              /\ Len(queue) < MaxQueue
              /\ queue' = Append(queue, NextOf(batch[p]))
              /\ sent' = [sent EXCEPT ![p] = TRUE]
              /\ UNCHANGED <<articleVars, done, batch, broken, consumerVars,
                             indexVars, stable>>

\* It returns nil, but the connection breaks before the broker has read the
\* message: without confirms, nil says only that the frame was written.
PublishVanishes(p) == /\ batch[p] # {} /\ ~sent[p] /\ ~stable
                      /\ sent' = [sent EXCEPT ![p] = TRUE]
                      /\ broken' = [broken EXCEPT ![p] = TRUE]
                      /\ UNCHANGED <<articleVars, done, batch, queue,
                                     consumerVars, indexVars, stable>>

\* It returns an error: the row is skipped and the loop goes on.
PublishFails(p) == /\ batch[p] # {} /\ ~sent[p]
                   /\ ~stable \/ broken[p]
                   /\ batch' = [batch EXCEPT ![p] = Rest(@)]
                   /\ broken' = [broken EXCEPT ![p] = TRUE]
                   /\ UNCHANGED <<articleVars, done, sent, queue, consumerVars,
                                  indexVars, stable>>

\* MarkPublished; its error, if any, is ignored.
MarkPublished(p) == /\ sent[p]
                    /\ \/ done' = done \cup {NextOf(batch[p])}
                       \/ ~stable /\ UNCHANGED done
                    /\ batch' = [batch EXCEPT ![p] = Rest(@)]
                    /\ sent' = [sent EXCEPT ![p] = FALSE]
                    /\ UNCHANGED <<articleVars, broken, queue, consumerVars,
                                   indexVars, stable>>

\* The process stops between two of these steps.
PublisherCrashes(p) == /\ ~stable /\ batch[p] # {}
                       /\ batch' = [batch EXCEPT ![p] = {}]
                       /\ sent' = [sent EXCEPT ![p] = FALSE]
                       /\ UNCHANGED <<articleVars, done, broken, queue,
                                      consumerVars, indexVars, stable>>

-----------------------------------------------------------------------------
(* consume and process.                                                    *)

\* RabbitMQ pushes the next message; a loop whose connection is gone gets
\* none until it has finished what it is at.
Deliver(c) == /\ queue # <<>>
              /\ work[c] # 0 => inbox[c] # <<>>
              /\ Len(inbox[c]) < MaxPrefetch
              /\ inbox' = [inbox EXCEPT ![c] = Append(@, Head(queue))]
              /\ queue' = Tail(queue)
              /\ UNCHANGED <<articleVars, publisherVars, work, cleared,
                             indexVars, stable>>

\* Mutant: a pool takes the deliveries in any order.
ProcessAny(c) == /\ work[c] = 0
                 /\ \E i \in DOMAIN inbox[c] :
                      work' = [work EXCEPT ![c] = inbox[c][i]]
                 /\ UNCHANGED <<articleVars, publisherVars, queue, inbox,
                                cleared, indexVars, stable>>

Process(c) == /\ work[c] = 0 /\ inbox[c] # <<>>
              /\ work' = [work EXCEPT ![c] = Head(inbox[c])]
              /\ UNCHANGED <<articleVars, publisherVars, queue, inbox, cleared,
                             indexVars, stable>>

\* The loop's next delivery: the one it held has been answered for, unless
\* its connection is gone and RabbitMQ has it back already.
Answered(c) == /\ work' = [work EXCEPT ![c] = 0]
               /\ cleared' = [cleared EXCEPT ![c] = FALSE]
               /\ inbox' = [inbox EXCEPT ![c] = IF @ = <<>> THEN @ ELSE Tail(@)]

Applied(c) == /\ touched' = work[c]
              /\ newest' = IF work[c] > newest THEN work[c] ELSE newest

\* Mutant: HTTP 404, the collection is not there yet, is an error.
DeleteNeedsCollection(c) ==
    /\ work[c] # 0 /\ ops[work[c]] = "delete"
    /\ IF touched = 0
       THEN /\ queue' = IF inbox[c] = <<>> THEN queue ELSE <<work[c]>> \o queue
            /\ UNCHANGED indexVars
       ELSE /\ index' = NoPoints
            /\ Applied(c)
            /\ UNCHANGED queue
    /\ Answered(c)
    /\ UNCHANGED <<articleVars, publisherVars, stable>>

\* DeleteArticle, for which a missing collection is no error, and Ack.
DeleteArticle(c) == /\ work[c] # 0 /\ ops[work[c]] = "delete"
                    /\ index' = NoPoints
                    /\ Applied(c)
                    /\ Answered(c)
                    /\ UNCHANGED <<articleVars, publisherVars, queue, stable>>

\* Mutant: the new points are written over the old.
ClearNothing(c) == /\ work[c] # 0 /\ ops[work[c]] = "upsert" /\ ~cleared[c]
                   /\ cleared' = [cleared EXCEPT ![c] = TRUE]
                   /\ UNCHANGED <<articleVars, publisherVars, queue, inbox, work,
                                  indexVars, stable>>

\* IndexArticle has its embeddings and deletes the article's points...
ClearPoints(c) == /\ work[c] # 0 /\ ops[work[c]] = "upsert" /\ ~cleared[c]
                  /\ index' = NoPoints
                  /\ touched' = work[c]
                  /\ cleared' = [cleared EXCEPT ![c] = TRUE]
                  /\ UNCHANGED <<articleVars, publisherVars, queue, inbox, work,
                                 newest, stable>>

\* ...and writes the new ones; Ack.
PutPoints(c) == /\ cleared[c]
                /\ index' = Written(work[c])
                /\ Applied(c)
                /\ Answered(c)
                /\ UNCHANGED <<articleVars, publisherVars, queue, stable>>

\* Mutant: Nack without requeue.
FailDrops(c) == /\ work[c] # 0
                /\ ~stable
                /\ Answered(c)
                /\ UNCHANGED <<articleVars, publisherVars, queue, indexVars,
                               stable>>

\* process returns an error: Nack with requeue.  A call to Qdrant whose
\* answer is lost may have had its effect.
Fail(c) == /\ work[c] # 0
           /\ ~stable
           /\ \/ UNCHANGED indexVars
              \/ cleared[c] /\ index' = Written(work[c]) /\ Applied(c)
              \/ ops[work[c]] = "delete" /\ index' = NoPoints /\ Applied(c)
           /\ queue' = IF inbox[c] = <<>> THEN queue
                       ELSE <<work[c]>> \o queue
           /\ Answered(c)
           /\ UNCHANGED <<articleVars, publisherVars, stable>>

\* The connection breaks: RabbitMQ takes every delivery back, and the loop
\* carries on with the one it is processing.
ConnectionLost(c) == /\ ~stable /\ inbox[c] # <<>>
                     /\ queue' = inbox[c] \o queue
                     /\ inbox' = [inbox EXCEPT ![c] = <<>>]
                     /\ UNCHANGED <<articleVars, publisherVars, work, cleared,
                                    indexVars, stable>>

ConsumerCrashes(c) == /\ ~stable
                      /\ inbox[c] # <<>> \/ work[c] # 0
                      /\ queue' = inbox[c] \o queue
                      /\ inbox' = [inbox EXCEPT ![c] = <<>>]
                      /\ work' = [work EXCEPT ![c] = 0]
                      /\ cleared' = [cleared EXCEPT ![c] = FALSE]
                      /\ UNCHANGED <<articleVars, publisherVars, indexVars,
                                     stable>>

Stabilise == /\ ~stable
             /\ stable' = TRUE
             /\ UNCHANGED <<articleVars, publisherVars, queue, consumerVars,
                            indexVars>>

-----------------------------------------------------------------------------

Edit == \/ \E st \in {"draft", "published"} : Create(st) \/ SaveUpdate(st)
        \/ OpenUpdate \/ Delete \/ Moderate

PublishStep(p) == Pending(p) \/ Publish(p) \/ PublishFails(p) \/ MarkPublished(p)

ConsumeStep(c) == \/ Process(c) \/ DeleteArticle(c) \/ ClearPoints(c)
                  \/ PutPoints(c) \/ Fail(c)

Fault == \/ \E p \in Publishers : PublishVanishes(p) \/ PublisherCrashes(p)
         \/ \E c \in Consumers : ConnectionLost(c) \/ ConsumerCrashes(c)

Next == \/ Edit
        \/ \E p \in Publishers : PublishStep(p)
        \/ \E c \in Consumers : Deliver(c) \/ ConsumeStep(c)
        \/ Fault
        \/ Stabilise

Spec == Init /\ [][Next]_vars

\* The ticker and the loops keep running, RabbitMQ pushes what it has, and
\* failures end, those of a poisonous text excepted.
Fairness == /\ \A p \in Publishers : WF_vars(PublishStep(p))
            /\ \A c \in Consumers : WF_vars(ConsumeStep(c))
            /\ WF_vars(\E c \in Consumers : Deliver(c))
            /\ WF_vars(Stabilise)

FairSpec == Spec /\ Fairness

-----------------------------------------------------------------------------
(* Properties.                                                             *)

\* Types; and the delivery a loop will answer for, the first of its inbox, is
\* the one it is processing (consume works through one channel at a time).
TypeOK ==
    /\ life \in {"none", "draft", "published", "deleted"}
    /\ hidden \in BOOLEAN /\ moderated \in BOOLEAN /\ stable \in BOOLEAN
    /\ seen \in {"none", "shown", "hidden"}
    /\ ops \in Seq({"upsert", "delete"}) /\ Len(ops) <= MaxEvents
    /\ done \subseteq 1..Len(ops)
    /\ batch \in [Publishers -> SUBSET (1..Len(ops))]
    /\ sent \in [Publishers -> BOOLEAN] /\ broken \in [Publishers -> BOOLEAN]
    /\ queue \in Seq(1..Len(ops))
    /\ inbox \in [Consumers -> Seq(1..Len(ops))]
    /\ work \in [Consumers -> 0..Len(ops)]
    /\ cleared \in [Consumers -> BOOLEAN]
    /\ index \in [Points -> 0..Len(ops)]
    /\ {touched, newest} \subseteq 0..Len(ops)
    /\ \A c \in Consumers : work[c] # 0 /\ inbox[c] # <<>> =>
                               work[c] = Head(inbox[c])

\* Row and event share a commit: until somebody moderates the article, its
\* newest event says whether it is to be found, however an update, the
\* hiding it has not seen and a deletion interleave (enqueueIndex in the
\* transactions of ArticleService).
NewestEventIsTrue ==
    ops # <<>> /\ ~moderated =>
        (ops[Len(ops)] = "upsert" <=> life = "published" /\ ~hidden)

InFlight(id) == \/ \E i \in DOMAIN queue : queue[i] = id
                \/ \E c \in Consumers : \/ work[c] = id
                                        \/ \E i \in DOMAIN inbox[c] :
                                             inbox[c][i] = id

\* A rebuild that stops half-way, the old points gone and the new ones not
\* written, is taken up again: its message is still in RabbitMQ or in hand
\* (consume acknowledges after process).
HalfBuiltIsRetried ==
    index = NoPoints /\ touched # 0 /\ ops[touched] = "upsert" =>
        InFlight(touched)

\* With one consume loop the points are all of one version, and all of that
\* version's (IndexArticle deletes by article before it writes).
OneVersionIndexed ==
    \E v \in 0..Len(ops) :
        index = [i \in Points |-> IF v # 0 /\ i <= Size[v] THEN v ELSE 0]

\* Every event is eventually published, marked and done with, across lost
\* marks, failed publishes, requeues and crashes of the loops.
EventsAreHandled ==
    \A id \in Ids : Len(ops) >= id ~> id \in done /\ ~InFlight(id)

Wanted == IF ops # <<>> /\ ops[Len(ops)] = "upsert"
          THEN [i \in Points |-> IF i <= Size[Len(ops)] THEN Len(ops) ELSE 0]
          ELSE NoPoints

\* If nothing ever fails, the index ends up as the newest event wants it when
\* the edits end: with one process the events are published and processed in
\* the order of their commits (ORDER BY id, one queue, one consume loop).
IndexFollowsArticle == stable => <>[](index = Wanted)

-----------------------------------------------------------------------------
(* Why it holds.                                                           *)

\* An article that does not exist yet has written nothing, and nobody has
\* hidden or read it; a row is sent before it is marked.
NothingTooEarly ==
    /\ life = "none" => ops = <<>> /\ ~hidden
    /\ \A p \in Publishers : sent[p] => batch[p] # {}

\* A loop between IndexArticle's two calls.
RebuildFits ==
    \A c \in Consumers : cleared[c] => work[c] # 0 /\ ops[work[c]] = "upsert"

\* With one loop, nobody else touches the index between its calls, and the
\* event it works on after its connection broke waits in the queue.
Alone == \A c, d \in Consumers : c = d
LoopIsAlone ==
    \A c \in Consumers :
        /\ cleared[c] => index = NoPoints
        /\ work[c] # 0 /\ inbox[c] = <<>> =>
              \E i \in DOMAIN queue : queue[i] = work[c]

\* The inductive invariant.
IInv == /\ TypeOK
        /\ NothingTooEarly
        /\ RebuildFits
        /\ NewestEventIsTrue
        /\ Alone => LoopIsAlone /\ HalfBuiltIsRetried /\ OneVersionIndexed

-----------------------------------------------------------------------------
(* What docs/superpowers/specs/2026-09-16-qdrant-rag-design.md says.       *)

\* Line 32: consumers filter repeated and out-of-order events by version, so
\* an older event never replaces what a newer one has written.
StaleEventsAreFiltered ==
    \A i \in Points : index[i] # 0 => index[i] >= newest

\* Line 34: hiding an article writes a delete event.
HidingIsAnEvent == hidden /\ ops # <<>> => ops[Len(ops)] = "delete"
=============================================================================
