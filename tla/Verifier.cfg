SPECIFICATION FairSpec
CONSTANTS
    NodeIds <- MCNodeIds
    Nodes <- MCNodes
    Receipts <- MCReceipts
    Expectations <- MCExpectations
INVARIANTS
    TypeOK
    VerifyDecidesGate
    WalkFindsAncestors
PROPERTY
    VerifyReturns
