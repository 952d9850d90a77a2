SPECIFICATION FairSpec
CONSTANTS
    Deliveries <- MCDeliveries
INVARIANTS
    DecodesContent
    StatusAsSent
PROPERTY
    DechunkReturns
