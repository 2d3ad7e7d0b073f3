SPECIFICATION FairSpec
CONSTANTS
    ann = ann
    bob = bob
    s1 = s1
    Nobody = Nobody
    Accounts <- MCTwoAccounts
    Servers <- MCOneServer
    OtherTabs = TRUE
    SessionsEnd = TRUE
    MaxGen = 2
    MaxFetches = 2
    MaxRuntimes = 2
INVARIANTS
    SessionsAreOwned
    LoadsAreTended
    ListsAreTrue
PROPERTIES
    DataComesUp
