--------------------------- MODULE MCSourceLinks ---------------------------
(* Model values for checking SourceLinks with TLC.                         *)
EXTENDS SourceLinks, TLC

CONSTANTS ann, bob, s1, s2

MCTwoUsers == {ann, bob}
MCSources == {s1, s2}
=============================================================================
