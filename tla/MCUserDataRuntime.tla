------------------------- MODULE MCUserDataRuntime -------------------------
(* Model values for checking UserDataRuntime with TLC.                     *)
EXTENDS UserDataRuntime, TLC

CONSTANTS ann, bob, s1

MCTwoAccounts == {ann, bob}
MCOneServer == {s1}
=============================================================================
