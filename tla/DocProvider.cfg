SPECIFICATION FairSpec
CONSTANTS
    s1 = s1
    s2 = s2
    Sessions <- MCSessions
    MaxWrites = 2
INVARIANTS
    EndsAreClean
PROPERTIES
    LogoutCanWipe
CHECK_DEADLOCK FALSE
