# AiDevClub in TLA+

AiDevClub is a Go community site (Gin, GORM on MySQL, Redis, RabbitMQ, Qdrant):
articles, "skills" and MCP servers, comments, likes and favourites, a daily hot
list, notifications, moderation, and an AI assistant over indexed articles.
This directory models the services whose correctness depends on orders of events
that a unit test hardly produces. TLC checks small instances; TLAPS proves the
safety properties of every component for instances of any size, and leaves to TLC
what has to happen eventually. `PROJECT.json`
lists every run, mutant, theorem and hazard, and maps each definition to the
lines it translates.

## 1. Inventory

| Component | State it keeps | Operations | What is hard | What makes it correct |
|---|---|---|---|---|
| **Notification outbox** (`service/notification_outbox.go`, `repo/notification_outbox.go`) | rows of `notification_outbox_events`: status, timers, lease token | `EnqueueInTx`, `ClaimNext`, `Publish`, `MarkPublished`, `MarkRetry`, the replay statement of README.md | several processes, leases that expire under slow loops, crashes between any two steps | one commit boundary; one lease holder; stale loops fenced; every committed row published |
| **Publisher confirms** (`awaitPublishConfirmation`) | two Go channels | publish, wait for a return or a confirm | Go's `select` picks any ready branch; connections break | `nil` only for a routed message; answers never mixed up |
| **Notification consumer** (`consumerLoop`, `retryOrDeadLetter`) | main, retry and dead-letter queues, `notifications` | process, acknowledge, retry, dead-letter | redelivery, lost acknowledgements, duplicate copies | nothing lost, nothing stored twice, everything settles |
| **Document index** (`document_index_mq.go`, `ai_assistant.go`) | `document_index_outbox_events`, a queue, Qdrant points | enqueue, publish a batch, consume, delete and put points | failures reorder; a rebuild is two calls | events match the article; half-built indexes are repaired; the index follows |
| **Articles, skills, MCP servers** | status, hidden, text; links and tags | create, update, submit, withdraw, archive, review, hide, delete | read, check, save of a whole row without a lock; a save revives a deleted row | only vetted text is public; moderation and deletion stand |
| **Lists, search, pages, MCP tools** | none | three or four queries per answer, no transaction | every query repeats the filter by hand, or does not | strangers see what is public, totals and rows agree |
| **Tags** | tag rows, `usage_count` | resolve, take, drop, create, disable, delete | counted from links read before; check then delete | counts match links; links name tags |
| **Interactions** | like and favourite rows, counters | toggles in one transaction with the notification event | concurrent toggles of one user, unique keys, deadlocks | counters agree with rows, until a save or a deletion of the item parts them |
| **Comments, resource comments** | comments, `comments_count` | create, answer, delete, hide, like, list | double deletion; a hide in two statements | counter equals comments, less the repeated deletions; threads hold together |
| **Content ranking** (Redis) | daily sorted set, view keys, a cached first page | add score, record view, remove, list with pruning | calls that are not atomic, may fail, and may be made without an answer; midnight | no empty score nobody knows to remove; a view counts once; public content keeps its score; nothing hidden stays listed |
| **Reports, moderation** | reports, hidden columns | create, resolve | two administrators, a target that changes meanwhile | the verdict recorded is what was done |
| **Accounts, tokens** | users, refresh tokens in Redis | register, login, refresh, logout, profile, password, role, deletion | refresh races, revocation races, full-row saves | nothing outlives a revocation; a token is exchanged once |
| **Rate limiter** | counter per window | allow | fails open | at most `limit` per window |
| **Server life cycle** | HTTP server, loops | start, shut down | nothing a model adds to: one `select` whose branches both return | returns |
| Handlers, wiring, front end, deployment, benchmarks | none of their own | adapters | none for a model checker | not modelled |

How they interact: handlers and MCP tools call services; a service reads, opens a
MySQL transaction, writes its rows *and* its outbox rows, commits, then updates
Redis (best effort) and, in the synchronous mode only, writes the notification.
`cmd/server` starts the notification loops (one publisher and one consumer per
process) and the two index loops; they meet the services only through the
tables and RabbitMQ. The administration acts on the same rows as the authors.

## 2. Modules

```
NotificationPromise            what is promised (abstract)
   ^  refinement
NotificationPipeline           the joint steps of
   |-- NotificationOutbox         MySQL rows and publisher loops (an instance)
   '-- NotificationDelivery       queues and consumer loops (extended)
PublishConfirm                 justifies one atomic step of each of those two
DocumentIndex                  article -> events -> queue -> vector index

Content                        one item from draft to deletion, and its tags
   |-- ContentReading             its readers, query by query
   '-- Reports                    reports on it and their resolution
Engagement                     likes, favourites, comments and counters
ContentRanking                 the hot list of the day in Redis
Accounts                       one account and its refresh tokens
```

One database row is shared by several modules: `Content` has the columns an author
and a moderator decide about, `Engagement` the counters, `DocumentIndex` the index
events of an article's transactions, `NotificationOutbox` the notifications.
They are apart because no decision of one reads what the other changes, except
for `published`, which each of them changes freely, and full-row saves, which each
of them has.

`MC*` modules hold what only a configuration needs; `*_proofs` modules hold
theorems. A definition marked "Mutant" in its comment is a plausible bug: no
specification uses it, and `PROJECT.json` names the property that refutes it.

### NotificationOutbox

A row is `status`, `token` and `ripe`, the last for both of the code's
timers (`next_retry_at <= now`, `locked_until <= now`): ClaimNext only asks
whether they have passed. A timer may fire at any moment relative to the loops,
which covers slow loops and clock skew. A loop (`phase`, `job`, `held`) goes
through `runOne` in the steps another process can observe: `ClaimSelect`
(`FOR UPDATE SKIP LOCKED`, in id order) and `ClaimCommit`, the publish
with its three outcomes, `MarkPublished`, `MarkRetry` or `LeaseLost`.
`PublishUnconfirmed` is the outcome that makes at-least-once delivery necessary:
RabbitMQ has the message and the loop does not know. `Abandon` is a crash, a
MySQL error or a closed connection. `Replay` is the SQL statement of README.md.

### PublishConfirm

The outer `select`, the inner one and the one with `default` of
`awaitPublishConfirmation` are `pc` values; each branch is an action, and all
the ready branches compete. The AMQP reader (`Dispatch`) blocks on a full Go
channel, as the client does. It justifies the atomic publish of the
other modules: `nil` means that the message is stored.

### NotificationDelivery

A message in RabbitMQ is a *copy* with an identity, a body and the retry header.
A copy is in the main queue, in one of the retry queues (three TTLs, one
abstract delay), or taken by a loop. `tag[c]` is the delivery tag: after
`ConnectionLost` it is void although the loop works on, which is how the code
meets its failing `Ack`. A prefetched message that is not being handled counts as
queued.

### NotificationPipeline and NotificationPromise

The pipeline has no definitions of its own for what either side does: a publish
that stores a message is one action of the outbox and one of the delivery, and
every other step is one side's. It extends the delivery, whose names are unqualified in it,
and calls its own `PipelineInit`, `PipelineNext`, `PipelineSpec`. `Promise` is the refinement mapping: `owed` are
the committed interactions, `told` the stored notifications, `parked` the dead
letters.

### DocumentIndex

One article (articles share only the loops), its events `ops` in id order, the
batch of `publishBatch` (the rows still to be sent, `NextOf` the first in id order), the queue, the unacknowledged deliveries of the consume
loop, and the points in Qdrant as the version each one came from. `Update` is
two steps, since the row is read before the transaction, and `Save` falls
back to an upsert when the row has been deleted in between. `PublishVanishes` is
what a publish without confirms may do. IndexArticle is `ClearPoints` and then
`PutPoints`; a failing call may or may not have had its effect. History
variables (`touched`, `newest`, `moderated`) are read by properties and mutants only.
Left out: up to one delivery that the AMQP client may hand out after its
connection has broken.

### Content

The variable `row` is the item's row, `links` its rows in the link table, `tag` and
`usage` the tags. Every handler of the code reads the row, decides, and saves its copy:
`ReadFor` is the first half of all of them, `call[s].copy` what they hold, and
`Commit` and `SaveStatus` the second halves. `Saved` is gorm's `Save`: all
columns, and the soft-deleted row comes back, since an update that matches
nothing is followed by an upsert. `Locked` is the row lock of the transaction
that has written it. The three kinds differ in whom they ask: an article is
published by its author, a skill and an MCP server by an administrator, and
only an article's new tags belong to its transaction. Hiding alone writes one
column (`WriteHidden`).

`standing`, `buried`, `drifted` and `raced` are histories that say precisely which
overlap excuses a property: a hide that no request's copy overlapped is *firm*, and
must stand.

### ContentReading

`view` is one reader, one query per action, beside all writers of `Content`: a list
asks for ids, rows and a total; a search counts, then finds; a page is
one row; then links, then tags. `seen` and `calm` remember what was public since the
request began and whether the row has changed. The MCP tools are the same
queries with a stranger's or the author's eyes.

### Reports

Extends `Content`: `ResolveTx` is one transaction with `WriteHidden` inside it, so a
resolution interleaves with edits, reviews and deletions of the item. The targets
are the item, a comment and a reply to it.

### Engagement

A reaction is a row with a unique key, and a toggle is `InsertRow`, `DeleteRow`
on a duplicate, then `CommitToggle`. What keeps toggles of one user apart is
InnoDB, so its locks are in the model, marked external (`Rivals`, `Deadlock`): an INSERT
holds its key to the end; one that meets a committed duplicate holds it shared, and
two shared holders that want to delete deadlock. Comments are created in order;
`HideComment` and `HideReplies` are the two statements of the handler, the
second of which may fail unnoticed. `item.live` is the item's `deleted_at`: `DeleteItem`
comes at any time, `IncrCount` then updates no row and is content, and `SaveItem` can
bring back both the row and the counters it has read. A reading of a page is `Detail`,
which finds the item, and `IncrViews`, an update that may fail, or find no row, while the
reading goes on; `opened` is the number of readings that came that far.

Histories say which counter may differ and by how much: `astray` has those that a save
set back or whose update found no row, `redeleted` counts the deletions of a deleted
comment, `spoken` has the replies posted or shown under a hidden comment, `missed` those
that a failing second statement left.

### ContentRanking

The sorted set, the view keys and the cached first page, with every Redis call
an action of its own that may fail. `day` moves once; every call works out its key
again. An error of ZINCRBY is `ZIncrByLost`: the increment may have been made, its answer
lost, and no ZREM follows (`stuck`, until an answer tells the score). The service never
tries again, but the Redis client does unless told otherwise, and
`platform/redis.go` does not tell it: `SendAgain` is the same increment, of the same
key, once more. A SETNX sent again answers that the key is there, which is `ViewFails`
after its effect; a ZREM or EXPIRE that was done and not answered is the one that was
done. A comment that is deleted or hidden takes three points off an article in any state.
A first page of articles is refreshed by one request while the others wait
(`flight`).

### Accounts

The row with its full-row saves, and the tokens: `good` are the keys, `index` the set
that a revocation of all of them goes through. `root` follows a session through
its exchanges, so that "revoked" means every descendant too.

## 3. Runs

| Run | Instance | Shows |
|---|---|---|
| `outbox` | 2 rows, 2 loops, 4 tokens | `IInv`, `OneLeaseHolder`, `OneCommitBoundary`, `StaleWorkersAreFenced`, `CommittedIsPublished` |
| `delivery` | 1 event, 2 loops, 3 copies, 1 retry | `IInv`, `NoEventLost`, `AcceptedIsSettled` |
| `pipeline` | 1 event, 1 loop per side, 2 tokens, 2 copies, 1 retry | `CommittedIsNeverLost`, `NotifiedOnceIfCommitted`, `PromiseSafe`, `PromiseKept`, `ReopenedIsNotified` |
| `publish_confirm` | 3 messages, Go channels of 1 | `IInv`, `NilMeansRouted`, `AnswersMatch`, `EveryPublishReturns` |
| `document_index` | 2 events, 2 points, queue of 1, prefetch of 2 | `IInv`, `NewestEventIsTrue`, `HalfBuiltIsRetried`, `OneVersionIndexed`, `EventsAreHandled`, `IndexFollowsArticle` |
| `content` | each kind, 2 requests at a time and a reader, 2 texts, 2 tag rows of one name, 4 requests | `PublicWasVetted`, `ModerationStands`, `DeletedForGood`, `TagsMatchLinks`, `ReadersAgree` |
| `reports` | 2 administrators, a report on the item and one on a comment, a request on the item | `VerdictIsDone`, `OneOutcome` |
| `engagement` | each kind, 2 users, 2 requests at a time, 3 comments, 5 requests, deletions of the item among them | `CountersMatchRows`, `RepliesStayInThread`, `HiddenThreadsAreSilent` |
| `ranking` | each kind, 1 item, 2 requests at a time, 2 that change something, a midnight | `OnlyPositiveScores`, `ViewScoredOnce`, `ScoresStay`, `HiddenLeavesTheTop` |
| `accounts` | 3 requests at a time, 3 tokens, 5 requests | `RevokedIsOver`, `ExchangedOnce`, `AccountStands` |
| `document_index_stale`, `_hiding` | prefetch of 2 | violations, see section 5 |

`IInv` stands among a run's properties where one inductive invariant carries most of what
the run is about. `ReadIInv` (`content`), `ReportsIInv` (`reports`) and the `IInv` of
`Engagement`, `ContentRanking` and `Accounts` were checked on the same instances before they
were proved; to do it again, add the name to `INVARIANTS` in the configuration.

Why the bounds are enough to be of interest:

- *Tokens* of a lease. `newEventID` never repeats; a finite set does. A row and a loop
  can remember one token each, so rows + loops tokens always leave a fresh one.
- *Rows and loops.* Two rows make the order of ClaimNext matter; two loops make
  every takeover. More loops are covered by the theorems.
- *Copies* bounds the messages queued at one time. A publish with no copy free
  waits, or, for a consumer's republish, is refused, as by a full broker. Two
  copies of one event are what every duplicate needs, a third lets both loops
  republish.
- *MaxRetries* is 8 in the code and 1 here: one retry and one dead letter. Nothing
  but the comparison depends on the number.
- *MaxPublishes* = 3: a message can be confused with its predecessor and its
  successor. *Capacity* 1 is the publisher's; the consumer's 16 is looser, and the
  theorems hold for any.
- *MaxEvents* ends the edits (`Editing`), *MaxQueue* holds a publish back,
  *MaxPrefetch* holds RabbitMQ back; requeues are never held back. Two
  events, one of which may be sent twice, produce every overtaking. `MCSize` makes
  the second version shorter, so points can be left over.
- *Sessions* and *MaxCalls*. A race of this code is a read, somebody's write, a save: two
  requests at a time and three or four in all show every one of them, and what follows
  from it. In `accounts` the third request is the one that uses a token another two
  are quarrelling over. MaxCalls in `content` counts the reader's request too.
- *Tags* are two ids of one name, so a tag can be deleted and made again; *Texts* are
  two, one of them complete.
- *NumComments* = 3: a comment, an answer, an answer to the answer.
- In `ranking` *MaxCalls* = 2 counts a command sent again too; with *FirstScores* that is
  an increment and its repetition, or two requests, each with every failure.
- *LastDay* = 2 is one midnight; an item may start with a score (*FirstScores*), so
  what took many requests to earn need not be replayed.

Every run disables the deadlock check: with all events used, or nothing to do,
the system rests.

## 4. Fairness

Loops are goroutines that the runtime schedules: weak fairness on each loop's
progress (`Progress`, `Handle`, `LoopStep`, `PublishStep`, `ConsumeStep`).
Timers and TTLs pass: weak fairness. RabbitMQ delivers each queued message in the
end: strong fairness for a copy, because a loop is busy again and again, and weak
fairness of the push in `DocumentIndex`. Users and operators owe nothing, and
`ContextDone`, failures and crashes are never fair.

`stable` marks the end of faults. Liveness can hold only if a loop gets through a
row once without a fault; a row may fail any number of times before that. After
`stable` a lease outlasts its holder's publish (30 s against a healthy
publish) and runs out only if the holder is gone, and the operator has stopped
replaying (ClaimNext takes the lowest id first, so replays without end would
starve younger rows). In `DocumentIndex` a behaviour may start stable, which is
what `IndexFollowsArticle` is about. Confirms are assumed to come on a live connection:
`awaitPublishConfirmation` has no timeout, so a broker that withholds
them stops the loop, in the code as in the model.

`ContentRanking` has weak fairness on the steps of a list that has begun (a handler
runs to its end, or fails) and on the ten seconds of the cache, and none on
requests. `Content`, `Reports`, `Engagement` and `Accounts` promise no progress: a request
that fails is over, and its caller is told.

## 5. Where code and documents disagree

All of it is about `docs/superpowers/specs/2026-09-16-qdrant-rag-design.md`.

- **Stale events are applied** (line 32 promises a version filter). An article is
  published and deleted; both events are prefetched; the upsert fails once and is
  requeued; the delete is applied; then the upsert is. The deleted article is
  back in the index and stays there. Run `document_index_stale`.
- **Hiding writes no event** (line 34 says it writes a delete). The text of a
  hidden article remains in the assistant's index. Run `document_index_hiding`.
- **Failures are never parked** (line 34 promises the retry and dead-letter
  queues of the notifications). `Nack(false, true)` requeues at once, so a text that
  can never be indexed circulates for ever. It is not run: it takes one look
  at `Fail`, which has no other outcome.

What no document promises, and the properties therefore exempt by a history variable or
a condition, each at its place in the module:

- A publish of the document index has no confirm, and its row is marked anyway; two
  processes publish the same batch (with two publishers `IndexFollowsArticle`
  fails without any fault; the run has the single backend that
  `deploy/docker-compose.prod.yml` starts).
- With two consume loops a rebuild can be lost for good: a loop's connection breaks
  between IndexArticle's two calls, its message goes to the other loop, which rebuilds and
  acknowledges; then a delivery to the first loop, or its own second try, clears the
  points again and fails, and no message is left. `HalfBuiltIsRetried` and
  `OneVersionIndexed` are therefore about one loop (`Alone`), as deployed.
- A stale full-row save undoes a hide, an approval, a deletion or a counter
  (`standing.firm`, `buried`, `astray`), and a profile edit undoes a role or a
  password (`standing.firm` in `Accounts`).
- An approval publishes the row the administrator's handler read, and an edit of a
  published skill is public without a review (`vetted` has both).
- The second query of a list does not repeat the filter of the first: a row that has been
  hidden or turned back into a draft in between is shown as it has become
  (`ReadersAgree` exempts the text of a list, nothing else).
- Two edits that count from the same links let `usage_count` drift (`drifted`), and
  a tag can be taken between the count and its deletion (`raced`).
- Deleting one comment twice at once lowers `comments_count` twice. `CountersMatchRows`
  does not excuse the counter: it is short by exactly that many (`redeleted`).
- A reaction or a comment committed after the item was deleted is not in its counter,
  and a save that revives the row does not put it there (`astray`).
- The error of `IncrViews` is dropped and the page served, so views fall behind the
  readings; a save sets them back further. They never exceed them, which is all that
  `CountersMatchRows` says of views.
- The replies of a hidden comment are hidden by a second statement with no transaction
  around the two: replies posted or shown after the first are not hidden for being under it
  (`spoken`), and if the second fails nobody is told and the replies stay (`missed`).
- Two administrators who hold one report at once both act, and the reporter may hear of
  both outcomes (`contested`).
- A refresh begun before a revocation of all sessions may issue its token after the
  set was read, and that token survives (`strays`); two refreshes past the same
  check both succeed (`shared`).
- A ZREM removes what was added since the ZINCRBY that saw zero (the exemption in
  `ScoresStay`), and one that fails leaves an empty score; so does a ZINCRBY that was made
  and not answered, until the next one that is answered (`stuck`).
- An increment that the Redis client sends again by itself counts twice (`resent`).

## 6. Proofs

All theorems are for arbitrary constants under the named assumptions of the
modules (identifiers differ from the "none" values, numbers are naturals).

- `NotificationOutbox_proofs`: `OutboxInvariant` proves `IInv`: types, the
  commit boundary, `PublishedWasAccepted`, `ClaimIsExclusive`, `WorkerKnows` (a
  confirmed loop's event is accepted) and `TokensAreDistinct` (no two loops hold
  the same token, a row's token is its claimant's). Lease exclusion is not
  inductive by itself: it needs the distinct tokens, which need the freshness of
  `newEventID` against everything anyone remembers. From it follow
  `LeaseIsExclusive`, `CommitBoundaryHolds`, `PublishedIsAccepted`, and
  `FencingHolds`, an action property.
- `NotificationPipeline_proofs`, first part: `DeliveryInvariant`, about the delivery side
  alone (`Spec`). The conjunct that carries it
  is `AckIsSafe`: a loop about to acknowledge is replaced by a stored row, a dead
  letter, or a copy *that has used up more retries*. Without the last clause the
  invariant is not inductive: two loops with two copies of one event could
  each count on the copy the other is about to give up. The retry header is a
  well-founded order that rules the circle out. Then `DeliveryLosesNothing` and
  `DeliveryNotifiesOnce`.
- `NotificationPipeline_proofs`, second part: each joint step is a step of each side or leaves
  it alone, so both invariants hold of the composition (`PipelineInvariant`);
  `NothingIsLost` joins "published means accepted" with "accepted is in custody";
  `PipelineImplementsPromise` is the safety half of the refinement, one case per
  action.
- `PublishConfirm_proofs`: `ConfirmInvariant`, an invariant that lists, for each
  place of the loop, the only contents the wire and the two Go channels can have
  (`InStep`), and that at most one message is outstanding.
- `Content_proofs`: three invariants, each over the one before. `ContentInvariant`: whoever
  will write the row back holds the moderation that stands, and nobody holds a copy of a row
  that is buried (`CopiesAgree`), so no save can undo either; `TagsInHand` says which tags a
  request has counted and not yet written. `ReadInvariant`, for the same item beside a
  reader, adds what a half-built answer owes the rows (`ViewFits`): what it found was public,
  and while the row stays as it is, it is what any other reader would find. It gives
  `PublishedTextWasVetted`, `ModerationIsKept`, `DeletionIsFinal`, `TagsFollowLinks` and
  `ReadersTellTheSame`. `ReportsInvariant` carries the first over to the transactions of
  `Reports` and adds that a verdict saved is the one being carried out (`HandlingFits`), for
  `VerdictsAreDone` and `ReportersHearOnce`.
- `Accounts_proofs`: `AccountsInvariant`. A good token is in the set that revocations go
  through, or a recorded stray (`NoneIsMissed`), and a refresh of an ended session is late
  (`EndedIsLate`): hence `RevocationsReachAll`. One request at a time is past the check that
  a token is good, and after an exchange none is (`OneIsPast`): hence
  `TokensAreExchangedOnce`. Copies of the row agree with the last deliberate change
  (`CopiesAgree`): hence `ChangesAreKept`.
- `Engagement_proofs`: `EngagementInvariant`. A toggle that has flipped its row has the key
  to itself until it commits, and the row is still as it found it (`TogglesHold`), so counter
  and rows move together: `CountersAreTrue`, by the cardinality of a set with one element
  more or less, as long as the row is there; when it is not, the counter joins `astray`. A
  save brings back no more views than it has read, and there were that many readings by then
  (`CopiesAreOld`). `ThreadsAreFlat` says what every comment *and every draft* owes the one it
  answers; nothing refers to an id that is not given out (`UnbornIsUnknown`). `ThreadsHold`
  speaks of `Opener`, a recursive function: since an answer is younger than the
  answered, `Opener` is shown to be the parent, or the comment itself, by taking the least
  comment for which it is not. `HiddenIsSilent`: the first statement of a hiding leaves its request under way
  until the second, which leaves no reply of the thread but those recorded as missed; nothing
  else makes a reply readable there without recording it.
- `DocumentIndex_proofs`: `IndexInvariant`, for any number of loops. `EventsSpeakTrue` holds
  of all of them. The two theorems about the index itself assume `Alone`: between its two
  calls nobody else touches the points, and the event that a loop works on after its
  connection broke is back in the queue (`LoopIsAlone`). The hypothesis is needed: see
  section 5.
- `ContentRanking_proofs`: `RankingInvariant`. A view on its way to a set has its key made,
  by one request, and is not there yet unless the client is sending it again
  (`ViewsAreOwed`): `ViewsCountOnce`. A score brought to zero has its request at the ZREM, or
  nobody knows of it (`stuck`): `SetsHoldPositives`. What is to be removed has not been
  public all along (`OnlyUnsteadyRemoved`): `PublicKeepsItsScore`, an action property.

Model-checked only:

- every liveness property, since neither `ENABLED` nor a fairness argument can be put to
  this prover: `CommittedIsPublished`, `AcceptedIsSettled`, `ReopenedIsNotified`,
  `PromiseKept` (whose safety half, `PromiseSafe`, is proved), `EveryPublishReturns`,
  `EventsAreHandled`, `IndexFollowsArticle` and `HiddenLeavesTheTop`;
- the two violations of section 5, which are counterexamples;
- the duration of a lease or a delay: timers fire when they like, in the proofs as in the
  runs.

## 7. Not modelled

- Handlers, middleware, wiring, configuration: they bind, call one service and render.
- A ZREM that the Redis client sends again after it was done: as a later ZREM it removes
  what was added in between, as the first one may; only the repetition of a ZINCRBY is
  followed.
- The rate limiter is one Redis script, and `ServeHTTP` one `select`; neither shares
  state with anything else here.
- Retrieval, reranking and the chat completion of the assistant, and the user, comment,
  report, notification and announcement lists and the dashboard: read-only, and what they
  read has no invariant of its own. Announcements and the administrators' log are
  appended to; no decision reads them back.
- The synchronous notification mode and the read marks: single statements.
- In the modules: wording, paging, sorting, `pinned`, reasons of a rejection,
  timestamps, uploads, validation of lengths and URLs.
- Front end, deployment scripts, benchmarks.

## 8. Plan

Every safety property that a run checks is a theorem. What remains:

1. A promise for the index, as `NotificationPromise` is one for notifications, with the
   safety half of the refinement proved.
2. `Reports` beside a reader: `ReadIInv` and `ReportsIInv` in one specification.
3. Steps of the liveness arguments that need no fairness (what an action property can say of
   a row on its way), as theorems about each step.
