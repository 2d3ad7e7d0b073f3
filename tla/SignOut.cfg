SPECIFICATION Spec
CONSTANTS
    t1 = t1
    t2 = t2
    Tabs <- MCTwoTabs
    StorageEvents = TRUE
    MaxSession = 1
    MaxGen = 1
    MaxLate = 1
SYMMETRY TabSymmetry
INVARIANTS
    OriginatorIsMarked
