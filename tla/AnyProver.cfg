SPECIFICATION Spec
CONSTANTS
    Purchases = {s1}
    Envs <- MCEnvs
    Replies <- MCReplies
    Hosts <- MCHosts
    Requests <- MCRequests
    MaxExits = 1
    MaxClock = 0
INVARIANT
    SignsOnlyWitnessed
