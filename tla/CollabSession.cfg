SPECIFICATION FairSpec
CONSTANTS
    d1 = d1
    d2 = d2
    w1 = w1
    Docs <- MCDocs
    Waiters <- MCOneWaiter
    MaxVersion = 7
INVARIANTS
    ProviderHolds
    WaitsHold
    EditsAreSafe
PROPERTIES
    OnlyAcksEraseMarks
    ResolvedMeansSaved
    WaitsEnd
