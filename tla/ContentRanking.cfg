\* Two requests at a time, one item, a midnight; a command sent again counts as
\* a request.
SPECIFICATION Spec
CONSTANTS
    Sessions = {s1, s2}
    Kinds = {"article", "skill", "mcp_server"}
    Items = {i1}
    Viewers = {u1}
    LastDay = 2
    FirstScores = {0, 2}
    MaxCalls = 2
    NoOne = NoOne
INVARIANTS
    OnlyPositiveScores
    ViewScoredOnce
PROPERTIES
    ScoresStay
    HiddenLeavesTheTop
CHECK_DEADLOCK FALSE
