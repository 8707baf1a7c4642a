------------------------ MODULE MCConnectionIntent -------------------------
(***************************************************************************)
(* ConnectionIntent for TLC, and the statement of background.ts that its   *)
(* code does not keep.                                                     *)
(***************************************************************************)
EXTENDS ConnectionIntent

\* A disconnect the user has asked for stays the worker's decision
\* (background.ts:1224: the session flag "ensures an explicit manual
\* disconnect within the same browser session is respected").
DisconnectStands == decided = "down" => mirror = "down"
=============================================================================
