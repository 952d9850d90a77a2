SPECIFICATION Spec
CONSTANTS
    Purchases = {p1}
    Envs <- Demo
    Replies <- ChunkedReplies
    MaxExits = 0
    MaxClock = 0
INVARIANT
    ChunkedFailsMaterialCheck
