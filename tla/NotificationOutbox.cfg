\* Two rows, two loops; a token for each, so an idle loop finds a fresh one.
\* Liveness admits no symmetry.
SPECIFICATION FairSpec
CONSTANTS
    Events = {1, 2}
    Workers = {w1, w2}
    Tokens = {t1, t2, t3, t4}
    NoEvent = NoEvent
    NoToken = NoToken
INVARIANTS
    IInv
    OneLeaseHolder
    OneCommitBoundary
PROPERTIES
    StaleWorkersAreFenced
    CommittedIsPublished
CHECK_DEADLOCK FALSE
