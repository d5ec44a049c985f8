\* One loop on each side: their races with their own kind are the other two
\* runs' concern, here it is the publish that meets the delivery.
SPECIFICATION PipelineFairSpec
CONSTANTS
    Events = {1}
    Workers = {w1}
    Tokens = {t1, t2}
    Consumers = {c1}
    Copies = {m1, m2}
    MaxRetries = 1
    NoEvent = NoEvent
    NoToken = NoToken
    NoCopy = NoCopy
INVARIANTS
    CommittedIsNeverLost
    NotifiedOnceIfCommitted
PROPERTIES
    PromiseSafe
    PromiseKept
    ReopenedIsNotified
CHECK_DEADLOCK FALSE
