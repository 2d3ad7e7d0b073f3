------------------------------ MODULE MCPopups ------------------------------
(* The note to begin with, for checking Popups with TLC.                  *)
EXTENDS Popups

MCRows == {<<[c |-> "@", k |-> 1]>>}
=============================================================================
