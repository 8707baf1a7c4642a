------------------------- MODULE MCRoutingFindings -------------------------
(***************************************************************************)
(* Two questions about RoutingProtection in which the code and what is     *)
(* said of it disagree.  Each has its own specification, which leaves out  *)
(* everything that the disagreement does not need.                         *)
(***************************************************************************)
EXTENDS RoutingProtection

VARIABLE wanted   \* history: what the user's last click on the toggle asked for

MCStatuses ==
    [backendState: {"Running", "Stopped"}, id: Scopes, exitNode: {Null},
     online: {FALSE}]

\* A worker that starts with a snapshot in storage, whose storage works, and
\* whose user may select an exit node as soon as the popup is open.
EarlyCommandInit ==
    /\ Init
    /\ disk # Null /\ disk.active # Invalid
    /\ wanted = Null
EarlyCommandNext ==
    /\ \/ \E id \in ExitNodes \cup {NoExit} : SelectExitNode(id)
       \/ RestoreRead
       \/ WriteDone
    /\ UNCHANGED wanted
EarlyCommandSpec == EarlyCommandInit /\ [][EarlyCommandNext]_<<vars, wanted>>

\* Storage keeps the protected account once it has one
\* (docs/DOCUMENTATION.md:502, "Both browsers retain a sanitized routing
\* snapshot across restarts").
SnapshotRetained ==
    [][(disk # Null /\ disk.active # Null) => disk'.active # Null]_<<vars, wanted>>

\* The toggle of the popup: down while Running, up while Stopped or NoState.
ToggleInit == Init /\ disk = Null /\ wanted = Null
ToggleNext ==
    \/ /\ state.backendState = "Running"
       /\ RequestDisconnect /\ wanted' = FALSE
    \/ /\ state.backendState \in {"Stopped", "NoState"}
       /\ Reconnect /\ wanted' = TRUE
    \/ /\ RestoreRead \/ WriteDone \/ HostDisconnected
          \/ ProcRunning(TRUE) \/ (\E s \in Statuses : ReceiveStatus(s))
       /\ UNCHANGED wanted
ToggleSpec == ToggleInit /\ [][ToggleNext]_<<vars, wanted>>

\* The browser of a protected account is not opened while the user's last
\* word was to connect (docs/DOCUMENTATION.md:1327, the proxy is removed
\* "immediately for an explicit routing release or after a requested
\* disconnect is confirmed").
NotOpenedWhenWanted ==
    [][(active # Null /\ applied # "direct" /\ applied' = "direct") =>
          wanted' # TRUE]_<<vars, wanted>>
=============================================================================
