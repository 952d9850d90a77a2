SPECIFICATION FairSpec
CONSTANTS
    Purchases = {p1}
    Envs <- Restarts
    Replies <- FewReplies
    MaxExits = 2
    MaxClock = 1
INVARIANTS
    VerifiedIsGenuine
    RejectsForCause
PROPERTY
    PurchasesEnd
