SPECIFICATION Spec
CONSTANTS
    n1 = n1
    n2 = n2
    n3 = n3
    Top = Top
    None = None
    MaxRungs = 5
    Notes <- MCNotes
SYMMETRY NoteSymmetry
INVARIANTS
    SelectionStaysInView
    ArrowsUndoArrows
    SweepFollowsEdits
