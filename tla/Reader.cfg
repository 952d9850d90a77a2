SPECIFICATION Spec
CONSTANTS
    Purchases = {s1}
    Envs <- MCEnvs
    Replies <- FinalReply
    Hosts <- MCHosts
    Requests <- ShortRequest
    MaxExits = 2
    MaxClock = 0
PROPERTY
    ReaderReachesEof
