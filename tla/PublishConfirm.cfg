SPECIFICATION FairSpec
CONSTANTS
    MaxPublishes = 3
    Capacity = 1
INVARIANTS
    IInv
    NilMeansRouted
    AnswersMatch
PROPERTIES
    EveryPublishReturns
CHECK_DEADLOCK FALSE
