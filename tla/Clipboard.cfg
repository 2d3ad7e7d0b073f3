SPECIFICATION ClipSpec
CONSTANTS
    n1 = n1
    n2 = n2
    n3 = n3
    Top = Top
    None = None
    MaxPayload = 2
    Notes <- MCNotes
SYMMETRY NoteSymmetry
PROPERTIES
    CutStaysWhole
    MoveLosesNothing
    PastedFits
