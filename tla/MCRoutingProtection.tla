------------------------ MODULE MCRoutingProtection ------------------------
(***************************************************************************)
(* A small instance of RoutingProtection for TLC.  A working helper may    *)
(* send any number of messages; what the user, the browser, a failing      *)
(* storage and a failing helper do to the worker is counted, and bounded   *)
(* by MaxDisturbances.                                                     *)
(***************************************************************************)
EXTENDS RoutingProtection, TLC

CONSTANT MaxDisturbances
VARIABLE disturbances

\* An account that is running, without or with an exit node, or stopped; a
\* logged-out helper; and the first update of the helper, before its prefs.
MCStatuses ==
    [backendState: {"Running", "Stopped"}, id: Scopes, exitNode: {Null},
     online: {FALSE}]
    \cup [backendState: {"Running"}, id: Scopes, exitNode: ExitNodes,
          online: {TRUE}]
    \cup [backendState: {"NeedsLogin"}, id: {"noSelf"}, exitNode: {Null},
          online: {FALSE}]
    \cup [backendState: {"Running"}, id: {"noPrefs"}, exitNode: {Null},
          online: {FALSE}]

MCInit == Init /\ disturbances = 0

Disturbed ==
    /\ disturbances < MaxDisturbances
    /\ disturbances' = disturbances + 1

MCNext ==
    \/ (Popup \/ Restart \/ RestoreFailed \/ WriteFailed \/ Setback) /\ Disturbed
    \/ (Service \/ RestoreRead \/ WriteDone) /\ UNCHANGED disturbances

MCSpec == MCInit /\ [][MCNext]_<<vars, disturbances>>

Symmetry == Permutations(Scopes)
=============================================================================
