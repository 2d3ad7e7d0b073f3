SPECIFICATION FairSpec
CONSTANTS
    ann = ann
    bob = bob
    s1 = s1
    s2 = s2
    Users <- MCTwoUsers
    Sources <- MCSources
    NoRow = NoRow
    Null = Null
    Legacy = Legacy
    MaxRequests = 2
    MaxFailures = 2
INVARIANTS
    LinksHold
PROPERTIES
    RegistrationsStay
    QueueDrains
CHECK_DEADLOCK FALSE
