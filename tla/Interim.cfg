SPECIFICATION Spec
CONSTANTS
    Purchases = {p1}
    Envs <- Demo
    Replies <- RepliesWithInterim
    MaxExits = 0
    MaxClock = 0
INVARIANT
    HonestRunVerifies
