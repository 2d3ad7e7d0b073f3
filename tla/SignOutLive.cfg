SPECIFICATION FairSpec
CONSTANTS
    t1 = t1
    t2 = t2
    Tabs <- MCTwoTabs
    StorageEvents = FALSE
    MaxSession = 1
    MaxGen = 1
    MaxLate = 0
PROPERTIES
    PeersLeave
    LogOutCompletes
