SPECIFICATION Spec
CONSTANTS
    ann = ann
    bob = bob
    Users <- MCUsers
    MaxRequests = 3
SYMMETRY UserSymmetry
INVARIANTS
    BootstrapsAgree
    ListedCanBeOpened
PROPERTIES
    RefreshesRepair
CHECK_DEADLOCK FALSE
