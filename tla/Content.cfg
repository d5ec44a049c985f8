\* Two requests at a time beside a reader; a name whose tag can be deleted and
\* made again.
SPECIFICATION ReadSpec
CONSTANTS
    Sessions = {s1, s2}
    Kinds = {"article", "skill", "mcp_server"}
    Texts = {1, 2}
    Complete = {1}
    Tags = {1, 2}
    Names = {"go"}
    NameOf <- MCNameOf
    MaxCalls = 4
SYMMETRY Symmetry
INVARIANTS
    PublicWasVetted
    ModerationStands
    DeletedForGood
    TagsMatchLinks
    ReadersAgree
CHECK_DEADLOCK FALSE
