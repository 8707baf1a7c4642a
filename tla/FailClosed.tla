----------------------------- MODULE FailClosed -----------------------------
(***************************************************************************)
(* What routing protection promises of a browser: a gate that is open when *)
(* protected destinations can be reached directly.                         *)
(*                                                                         *)
(*   unsure     nothing is known of what has to be protected               *)
(*   free       there is nothing to protect                                *)
(*   guarded    an account is protected                                    *)
(*   switching  the account is being changed                               *)
(*   released   the user has given up protection                           *)
(*                                                                         *)
(* The gate opens only where nothing is protected, or where the user has   *)
(* given protection up; and an account that is guarded stays guarded until *)
(* the user releases it or switches to another one.  The gate may close    *)
(* late, never open early.                                                 *)
(***************************************************************************)

VARIABLES phase, open

gate == <<phase, open>>

Phases == {"unsure", "free", "guarded", "switching", "released"}
MayOpen == {"free", "released"}

Init == phase = "unsure" /\ open = FALSE

\* The gate may be left as it is, be closed, or be opened where it may be.
GateFollows == open' \in BOOLEAN /\ (open' => open \/ phase' \in MayOpen)

\* A new worker knows nothing, and closes the gate before it does anything.
Restart == phase' = "unsure" /\ open' = FALSE

\* What was stored is read, or could not be read.
Restore ==
    /\ phase = "unsure" /\ phase' \in Phases
    /\ open' \in BOOLEAN /\ (open' => phase' \in MayOpen)

Release == phase' = "released" /\ open' = TRUE

Switch == phase # "unsure" /\ phase' = "switching" /\ GateFollows

\* An account is confirmed after nothing, after a release or after a switch;
\* a switch may also end, and a release be lifted, with nothing to protect.
Guard ==
    /\ phase \in {"free", "released", "switching"} /\ phase' = "guarded"
    /\ GateFollows
Unguarded ==
    /\ phase \in {"released", "switching"} /\ phase' = "free"
    /\ GateFollows

\* Without a change of phase the gate follows it.
Adjust == phase' = phase /\ GateFollows

Next == Restart \/ Restore \/ Release \/ Switch \/ Guard \/ Unguarded \/ Adjust

Spec == Init /\ [][Next]_gate
=============================================================================
