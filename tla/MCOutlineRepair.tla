--------------------------- MODULE MCOutlineRepair ---------------------------
(***************************************************************************)
(* Every file of up to MaxItems notes, bodies and lists.                   *)
(***************************************************************************)
EXTENDS OutlineRepair

MCListTypes == {"bullet", "number"}
=============================================================================
