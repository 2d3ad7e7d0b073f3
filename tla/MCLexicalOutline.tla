-------------------------- MODULE MCLexicalOutline --------------------------
(* Model values and symmetry for checking LexicalOutline with TLC.         *)
EXTENDS LexicalOutline, TLC

CONSTANTS n1, n2, n3, n4

MCNotes == {n1, n2, n3, n4}
NoteSymmetry == Permutations(MCNotes)
=============================================================================
