SPECIFICATION Spec
CONSTANTS
    Publishers = {p1}
    Consumers = {c1}
    MaxEvents = 2
    MaxQueue = 1
    MaxPrefetch = 2
    MaxPoints = 2
    Size <- MCSize
INVARIANTS
    HidingIsAnEvent
CHECK_DEADLOCK FALSE
