----------------------------- MODULE MCClipboard -----------------------------
(* Model values and symmetry for checking Clipboard with TLC.              *)
EXTENDS Clipboard, TLC

CONSTANTS n1, n2, n3

MCNotes == {n1, n2, n3}
NoteSymmetry == Permutations(MCNotes)
=============================================================================
