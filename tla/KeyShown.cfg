SPECIFICATION Spec
CONSTANTS
    Purchases = {p1}
    Envs <- Gateways
    Replies <- ChunkedReplies
    MaxExits = 0
    MaxClock = 0
INVARIANT
    KeyNeverShown
