\* Two requests at a time; a comment, a reply, a reply to the reply.
SPECIFICATION Spec
CONSTANTS
    Sessions = {s1, s2}
    Users = {u1, u2}
    Owner = u1
    Kinds = {"article", "skill", "mcp_server"}
    NumComments = 3
    Likeable = {1}
    MaxCalls = 5
SYMMETRY Symmetry
INVARIANTS
    CountersMatchRows
    RepliesStayInThread
    HiddenThreadsAreSilent
CHECK_DEADLOCK FALSE
