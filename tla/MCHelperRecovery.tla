------------------------- MODULE MCHelperRecovery --------------------------
(***************************************************************************)
(* HelperRecovery for TLC.                                                 *)
(***************************************************************************)
EXTENDS HelperRecovery
=============================================================================
