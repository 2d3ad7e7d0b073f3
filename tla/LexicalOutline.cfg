SPECIFICATION Spec
CONSTANTS
    n1 = n1
    n2 = n2
    n3 = n3
    n4 = n4
    Top = Top
    Notes <- MCNotes
SYMMETRY NoteSymmetry
INVARIANTS
    SchemaHolds
    CaretsStayInView
    ArrowsSkipBodies
PROPERTIES
    ImplementsOutline
    ViewHolds
