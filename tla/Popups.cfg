SPECIFICATION Spec
CONSTANTS
    None = None
    MaxLength = 3
    MaxPresses = 1
    MaxKeys = 14
    Rows <- MCRows
INVARIANTS
    SessionsHold
    PressesOpenOnce
    ShownIsReplaced
PROPERTIES
    TokensFallSelected
