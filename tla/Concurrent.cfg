SPECIFICATION Spec
CONSTANTS
    Purchases = {p1, p2}
    Envs <- Demo
    Replies <- FewReplies
    MaxExits = 0
    MaxClock = 1
INVARIANT
    HonestRunVerifies
