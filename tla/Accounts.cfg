\* Three requests at a time, a login and two exchanges.
SPECIFICATION Spec
CONSTANTS
    Sessions = {s1, s2, s3}
    Passwords = {1, 2}
    NumTokens = 3
    MaxCalls = 5
SYMMETRY Symmetry
INVARIANTS
    RevokedIsOver
    ExchangedOnce
    AccountStands
CHECK_DEADLOCK FALSE
