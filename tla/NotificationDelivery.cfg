\* One event in up to three copies, two consumer loops: every race of an
\* acknowledgement with a redelivery needs two copies of the same event.
SPECIFICATION FairSpec
CONSTANTS
    Events = {e1}
    Consumers = {c1, c2}
    Copies = {m1, m2, m3}
    MaxRetries = 1
    NoEvent = NoEvent
    NoCopy = NoCopy
INVARIANTS
    IInv
    NoEventLost
PROPERTIES
    AcceptedIsSettled
CHECK_DEADLOCK FALSE
