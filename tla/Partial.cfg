SPECIFICATION Spec
CONSTANTS
    Purchases = {s1}
    Envs <- MCEnvs
    Replies <- FinalReply
    Hosts <- MCHosts
    Requests <- MCRequests
    MaxExits = 0
    MaxClock = 0
INVARIANT
    DigestsCrossed
