---------------------------- MODULE MCDocProvider ----------------------------
(* Two sessions of one document, for checking DocProvider with TLC.        *)
EXTENDS DocProvider, TLC

CONSTANTS s1, s2

MCSessions == {s1, s2}
=============================================================================
