-------------------------- MODULE MCCollabSession --------------------------
(* Model values and symmetry for checking CollabSession with TLC.          *)
EXTENDS CollabSession, TLC

CONSTANTS d1, d2, w1

MCDocs == {d1, d2}
MCOneWaiter == {w1}
=============================================================================
