\* A loop may hold two deliveries: requeued messages are overtaken.
SPECIFICATION FairSpec
CONSTANTS
    Publishers = {p1}
    Consumers = {c1}
    MaxEvents = 2
    MaxQueue = 1
    MaxPrefetch = 2
    MaxPoints = 2
    Size <- MCSize
INVARIANTS
    IInv
    NewestEventIsTrue
    HalfBuiltIsRetried
    OneVersionIndexed
PROPERTIES
    EventsAreHandled
    IndexFollowsArticle
CHECK_DEADLOCK FALSE
