\* Two administrators, a report on the item and one on a comment, one request
\* on the item at a time.
SPECIFICATION ReportsSpec
CONSTANTS
    Sessions = {s1}
    Kinds = {"skill"}
    Texts = {1}
    Complete = {1}
    Tags = {}
    Names = {}
    NameOf <- MCNameOf
    MaxCalls = 2
    Admins = {a1, a2}
    ReportIds = {1, 3}
    TargetOf <- MCTargetOf
    None = None
SYMMETRY Symmetry
INVARIANTS
    VerdictIsDone
    OneOutcome
CHECK_DEADLOCK FALSE
