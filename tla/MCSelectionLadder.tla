-------------------------- MODULE MCSelectionLadder --------------------------
(* Model values and symmetry for checking SelectionLadder with TLC.        *)
EXTENDS SelectionLadder, TLC

CONSTANTS n1, n2, n3

MCNotes == {n1, n2, n3}
NoteSymmetry == Permutations(MCNotes)
=============================================================================
