SPECIFICATION FairSpec
CONSTANTS
    Purchases = {p1}
    Envs <- Variants
    Replies <- FinalReplies
    MaxExits = 0
    MaxClock = 1
INVARIANTS
    TypeOK
    VerifiedIsGenuine
    HonestRunVerifies
    PaidLossHasCause
    RejectsForCause
    KeyHidden
    SignedIsWitnessed
    UpstreamSentAsConfigured
PROPERTY
    PurchasesEnd
    ImplementsExchange
