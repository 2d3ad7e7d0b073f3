SPECIFICATION FairSpec
CONSTANTS
    MaxItems = 6
    MaxNotes = 3
    MaxRoots = 2
    MaxMerges = 1
    PersistedIds = {1}
    ListTypes <- MCListTypes
INVARIANTS
    NothingIsLost
    OwnersStay
    FirstNotesKeepIds
PROPERTIES
    RepairsSettle
CHECK_DEADLOCK FALSE
