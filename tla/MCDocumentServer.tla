-------------------------- MODULE MCDocumentServer --------------------------
(* Model values for checking DocumentServer with TLC.                      *)
EXTENDS DocumentServer, TLC

CONSTANTS ann, bob

MCUsers == {ann, bob}
UserSymmetry == Permutations(MCUsers)
=============================================================================
