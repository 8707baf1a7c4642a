----------------------- MODULE MCNativeHostConnection ----------------------
(***************************************************************************)
(* NativeHostConnection for TLC.  Trouble is limited to MaxTrouble events, *)
(* so that the fair specification can ask whether the connection settles   *)
(* once nothing goes wrong any more.                                       *)
(***************************************************************************)
EXTENDS NativeHostConnection

CONSTANT MaxTrouble
VARIABLE trouble

MCInit == Init /\ trouble = 0

MCNext ==
    \/ Progress /\ UNCHANGED trouble
    \/ Trouble /\ trouble < MaxTrouble /\ trouble' = trouble + 1

\* The browser fires timers, answers storage reads and delivers events; a
\* helper that runs sends procRunning at once.
Fairness ==
    /\ WF_vars(TimerFires)
    /\ WF_vars(ProfileRead)
    /\ WF_vars(PortOpened)
    /\ \A p \in Ports : WF_vars(HandleMessage(p)) /\ WF_vars(Forgotten(p))

MCSpec == MCInit /\ [][MCNext]_<<vars, trouble>> /\ Fairness

\* Once failures stop, the worker ends up with a healthy connection and keeps
\* it, unless its user has disconnected: no timer that was set along the way
\* goes on tearing the connection down.
Settles == <>[](intentionalDisconnect \/ (hostConnected /\ hasReceivedValidMessage))
=============================================================================
