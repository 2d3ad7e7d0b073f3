----------------------------- MODULE MCSignOut -----------------------------
(* Model values for checking SignOut with TLC.                             *)
EXTENDS SignOut, TLC

CONSTANTS t1, t2

MCTwoTabs == {t1, t2}
TabSymmetry == Permutations(MCTwoTabs)
=============================================================================
