-------------------------- MODULE FailClosedProofs --------------------------
(***************************************************************************)
(* RoutingProtection implements FailClosed, for any accounts, exit nodes,  *)
(* statuses and number of queued writes.                                   *)
(*                                                                         *)
(* Beside the types, the phases need one fact: a release and an account    *)
(* switch exclude each other, in memory, in the queued writes and in       *)
(* storage (Apart).  Otherwise a status that ends the switch would uncover *)
(* a release that nobody has asked for.                                    *)
(***************************************************************************)
EXTENDS RoutingProtectionProofs

\* The gate takes a step or none.
GateStep == [Gate!Next]_(Gate!gate)

\* decorate() connects normally only where the gate may be open.
LEMMA DirectMayOpen == Mode' = "direct" => Phase' \in {"free", "released"}
  BY DEF Mode, Direct, BlockAll, Phase

\* A handler that applies the policy, or leaves the one applied, lets the
\* gate follow the phase.
LEMMA AppliedFollows ==
    ASSUME applied' = Mode' \/ applied' = applied
    PROVE  Gate!GateFollows
  BY DirectMayOpen DEF Gate!GateFollows, Gate!MayOpen

\* The phase stays as long as the fields it is read from do.
LEMMA SamePhase ==
    ASSUME Gate!GateFollows,
           UNCHANGED <<ready, uncertain, transitioning, released>>,
           (active' = Null) = (active = Null)
    PROVE  GateStep
  <1>1. Phase' = Phase
    BY DEF Phase
  <1>. QED
    BY <1>1 DEF GateStep, Gate!Next, Gate!Adjust

\* A release is lifted: protection returns for the account there is.
LEMMA LiftedStep ==
    ASSUME Gate!GateFollows,
           UNCHANGED <<ready, uncertain, transitioning>>,
           (active' = Null) = (active = Null),
           released' => released
    PROVE  GateStep
  <1>1. \/ Phase' = Phase
        \/ Phase = "released" /\ Phase' \in {"guarded", "free"}
    BY DEF Phase
  <1>. QED
    BY <1>1 DEF GateStep, Gate!Next, Gate!Adjust, Gate!Guard, Gate!Unguarded

\* releaseRouting() and the policy after it.
LEMMA ReleasedStep ==
    ASSUME TypeOK, NEW login, ReleaseRouting(login), applied' = Mode'
    PROVE  GateStep
  <1>1. /\ ready' = ready /\ uncertain' = FALSE /\ transitioning' = FALSE
        /\ released' = TRUE
    BY DEF ReleaseRouting
  <1>2. CASE ready
    <2>1. Phase' = "released" /\ Mode' = "direct"
      BY <1>1, <1>2 DEF Phase, Mode, Direct, BlockAll
    <2>. QED
      BY <2>1 DEF GateStep, Gate!Next, Gate!Release
  <1>3. CASE ~ready
    <2>1. Phase' = Phase
      BY <1>1, <1>3 DEF Phase
    <2>. QED
      BY <2>1, AppliedFollows DEF GateStep, Gate!Next, Gate!Adjust
  <1>. QED  BY <1>2, <1>3

\* switchProfile().
LEMMA SwitchedStep ==
    ASSUME TypeOK, SwitchRouting, applied' = Mode' \/ applied' = applied
    PROVE  GateStep
  <1>1. /\ ready' = ready /\ uncertain' = uncertain /\ transitioning' = TRUE
    BY DEF SwitchRouting
  <1>2. \/ Phase' = Phase
        \/ Phase # "unsure" /\ Phase' = "switching"
    BY <1>1 DEF Phase
  <1>. QED
    BY <1>2, AppliedFollows DEF GateStep, Gate!Next, Gate!Adjust, Gate!Switch

-----------------------------------------------------------------------------
(* A release and an account switch exclude each other. *)

Exclusive(v) == ~(v.transitioning /\ v.released)
StoredApart ==
    /\ disk # Null => Exclusive(disk)
    /\ \A i \in 1..Len(writeChain) : Exclusive(writeChain[i])
Apart == ~(transitioning /\ released) /\ StoredApart

\* save() stores what is in memory.
LEMMA SaveApart ==
    ASSUME TypeOK, StoredApart, ~(transitioning' /\ released'),
           Enqueue \/ UNCHANGED storage
    PROVE  Apart'
  <1>1. CASE UNCHANGED storage
    BY <1>1 DEF Apart, StoredApart, storage
  <1>2. CASE Enqueue
    <2>1. /\ writeChain' = Append(writeChain, Value') /\ disk' = disk
          /\ writeChain \in Seq(SavedRouting)
      BY <1>2 DEF Enqueue, TypeOK
    <2>2. Exclusive(Value')
      BY DEF Exclusive, Value
    <2>3. \A i \in 1..Len(writeChain') :
            writeChain'[i] = IF i <= Len(writeChain) THEN writeChain[i] ELSE Value'
      BY <2>1
    <2>4. \A i \in 1..Len(writeChain') : Exclusive(writeChain'[i])
      BY <2>1, <2>2, <2>3 DEF StoredApart
    <2>. QED  BY <2>1, <2>4 DEF Apart, StoredApart
  <1>. QED  BY <1>1, <1>2

\* The worker's start leaves storage as it was, or with the oldest write.
LEMMA WriteApart ==
    ASSUME TypeOK, Apart, writeChain # <<>>
    PROVE  /\ Exclusive(Head(writeChain))
           /\ \A i \in 1..Len(Tail(writeChain)) : Exclusive(Tail(writeChain)[i])
  <1>1. writeChain \in Seq(SavedRouting)
    BY DEF TypeOK
  <1>2. Len(writeChain) \in Nat \ {0} /\ Head(writeChain) = writeChain[1]
    BY <1>1, EmptySeq
  <1>3. /\ Len(Tail(writeChain)) = Len(writeChain) - 1
        /\ \A i \in 1..Len(Tail(writeChain)) :
             Tail(writeChain)[i] = writeChain[i + 1]
    BY <1>1, HeadTailProperties
  <1>. QED
    BY <1>2, <1>3 DEF Apart, StoredApart

\* Every step keeps them apart.
LEMMA NextApart == Inv /\ Apart /\ [Next]_vars => Apart'
  <1>. SUFFICES ASSUME Inv, Apart, [Next]_vars PROVE Apart'
    OBVIOUS
  <1>0. TypeOK /\ StoredApart
    BY DEF Inv, Apart
  <1>1. ASSUME Save PROVE Enqueue \/ UNCHANGED storage
    BY <1>1 DEF Save
  <1>2. ASSUME NEW login, ReleaseRouting(login) PROVE Apart'
    BY <1>0, <1>1, <1>2, SaveApart DEF ReleaseRouting
  <1>3. CASE Popup
    <2>1. ASSUME NEW id \in ExitNodes \cup {NoExit}, SelectExitNode(id) PROVE Apart'
      BY <1>0, <1>1, <2>1, SaveApart DEF SelectExitNode
    <2>2. CASE RequestDisconnect
      BY <1>0, <1>1, <2>2, SaveApart DEF RequestDisconnect, Apart
    <2>3. CASE Reconnect
      BY <1>0, <2>3, SaveApart DEF Reconnect, Reconnected, Apart
    <2>4. CASE Release \/ DisconnectAndLogin
      BY <1>2, <2>4 DEF Release, DisconnectAndLogin
    <2>5. CASE SwitchProfile \/ ChangeControlServer
      BY <1>0, <1>1, <2>5, SaveApart DEF SwitchProfile, ChangeControlServer, SwitchRouting
    <2>6. CASE SetDomainSplit
      BY <1>0, <2>6, SaveApart DEF SetDomainSplit, Apart
    <2>. QED
      BY <1>3, <2>1, <2>2, <2>3, <2>4, <2>5, <2>6 DEF Popup
  <1>4. ASSUME NEW s \in Statuses, ReceiveStatus(s) PROVE Apart'
    <2>1. CASE ReleaseRouting(FALSE)
      BY <1>2, <2>1
    <2>2. CASE ~ReleaseRouting(FALSE)
      <3>1. /\ ~(transitioning' /\ released')
            /\ Save \/ UNCHANGED storage
        BY <1>4, <2>2 DEF ReceiveStatus, ConfirmStatus, Apart
      <3>. QED  BY <1>0, <1>1, <3>1, SaveApart
    <2>. QED  BY <2>1, <2>2
  <1>5. ASSUME NEW new, StoreUpdate(new) PROVE Apart'
    BY <1>0, <1>5, SaveApart DEF StoreUpdate, memory, Apart
  <1>6. CASE GetWantRunning
    BY <1>0, <1>6, SaveApart DEF GetWantRunning, Reconnected, Apart
  <1>7. CASE RestoreRead
    <2>1. ~(transitioning' /\ released') /\ UNCHANGED storage
      BY <1>7 DEF RestoreRead, Apart, StoredApart, Exclusive
    <2>. QED  BY <1>0, <2>1, SaveApart
  <1>8. CASE RestoreFailed
    BY <1>0, <1>8, SaveApart DEF RestoreFailed, Apart
  <1>9. CASE WriteDone \/ WriteFailed
    <2>1. /\ writeChain # <<>> /\ writeChain' = Tail(writeChain)
          /\ disk' = disk \/ disk' = Head(writeChain)
          /\ UNCHANGED <<transitioning, released>>
      BY <1>9 DEF WriteDone, WriteFailed, memory
    <2>. QED
      BY <1>0, <2>1, WriteApart DEF Apart, StoredApart
  <1>10. CASE Restart
    <2>1. /\ transitioning' = FALSE /\ writeChain' = <<>>
          /\ disk' = disk \/ (writeChain # <<>> /\ disk' = Head(writeChain))
      BY <1>10 DEF Restart
    <2>2. \A i \in 1..Len(writeChain') : Exclusive(writeChain'[i])
      BY <2>1
    <2>. QED
      BY <1>0, <2>1, <2>2, WriteApart DEF Apart, StoredApart
  <1>11. CASE UNCHANGED vars
    BY <1>0, <1>11, SaveApart DEF vars, memory, Apart
  <1>. QED
    BY <1>3, <1>4, <1>5, <1>6, <1>7, <1>8, <1>9, <1>10, <1>11
    DEF Next, Helper, Service, Setback, Storage, ProcRunning, InitReply,
        HostDisconnected, ExitNodeError, OtherUpdate

\* They are apart in what an earlier version may have left, too.
LEMMA InitApart == Init => Apart
  <1>. SUFFICES ASSUME Init PROVE Apart
    OBVIOUS
  <1>1. disk # Null => Exclusive(disk)
    <2>1. Exclusive([FirstRun EXCEPT !.active = Invalid])
      BY DEF FirstRun, Exclusive
    <2>2. ASSUME NEW s \in Scopes, NEW e \in Selection
          PROVE  Exclusive(OlderFile(s, e))
      BY DEF OlderFile, FirstRun, Exclusive
    <2>. QED
      BY <2>1, <2>2 DEF Init, InitialDisks
  <1>2. transitioning = FALSE /\ writeChain = <<>>
    BY DEF Init
  <1>. QED  BY <1>1, <1>2 DEF Apart, StoredApart

-----------------------------------------------------------------------------
(* The remaining steps, and the theorem. *)

\* confirmStatus(): an account that is protected stays so, or another one is.
LEMMA StatusStep ==
    ASSUME Inv, Apart, NEW s \in Statuses, ReceiveStatus(s)
    PROVE  GateStep
  <1>0. TypeOK /\ ready /\ ConfirmStatus(s) /\ applied' = Mode' /\ s \in StatusUpdate
    BY StatusesAssumption DEF Inv, ReceiveStatus
  <1>1. CASE ReleaseRouting(FALSE)
    BY <1>0, <1>1, ReleasedStep
  <1>2. CASE ~ReleaseRouting(FALSE)
    <2>1. /\ ready' = ready /\ uncertain' = uncertain
          /\ released' => released
          /\ transitioning' => transitioning
      BY <1>0, <1>2 DEF ConfirmStatus
    <2>2. active' = active \/ active' # Null
      <3>1. active' = active \/ active' \in Snapshot
        BY <1>0, ConfirmStatusStep
      <3>. QED  BY <3>1, ExitAssumption
    <2>3. \/ Phase' = Phase
          \/ Phase \in {"free", "released", "switching"} /\ Phase' = "guarded"
          \/ Phase \in {"released", "switching"} /\ Phase' = "free"
      BY <2>1, <2>2 DEF Phase, Apart
    <2>. QED
      BY <1>0, <2>3, AppliedFollows
      DEF GateStep, Gate!Next, Gate!Adjust, Gate!Guard, Gate!Unguarded
  <1>. QED  BY <1>1, <1>2

\* restore() ends, with or without an answer of storage.
LEMMA RestoredStep ==
    ASSUME RestoreRead \/ RestoreFailed
    PROVE  GateStep
  <1>1. Phase = "unsure" /\ applied' = Mode'
    BY DEF RestoreRead, RestoreFailed, Phase
  <1>2. Phase' \in {"unsure", "free", "guarded", "switching", "released"}
    BY DEF Phase
  <1>. QED
    BY <1>1, <1>2, DirectMayOpen
    DEF GateStep, Gate!Next, Gate!Restore, Gate!Phases, Gate!MayOpen

\* Every step of routing protection is a step of the gate, or none.
LEMMA NextGate == Inv /\ Apart /\ [Next]_vars => GateStep
  <1>. SUFFICES ASSUME Inv, Apart, [Next]_vars PROVE GateStep
    OBVIOUS
  <1>0. TypeOK
    BY DEF Inv
  <1>1. CASE Popup
    <2>1. ASSUME NEW id \in ExitNodes \cup {NoExit}, SelectExitNode(id) PROVE GateStep
      <3>1. (active' = Null) = (active = Null)
        BY <1>0, <2>1, ExitAssumption DEF SelectExitNode, TypeOK, Snapshot, Selection
      <3>2. /\ UNCHANGED <<ready, uncertain, transitioning>> /\ released' = FALSE
            /\ applied' = Mode' \/ applied' = applied
        BY <2>1 DEF SelectExitNode
      <3>. QED  BY <1>0, <3>1, <3>2, AppliedFollows, LiftedStep
    <2>2. CASE RequestDisconnect
      BY <2>2, AppliedFollows, SamePhase DEF RequestDisconnect
    <2>3. CASE Reconnect
      BY <1>0, <2>3, AppliedFollows, LiftedStep DEF Reconnect, Reconnected
    <2>4. CASE Release \/ DisconnectAndLogin
      BY <1>0, <2>4, ReleasedStep DEF Release, DisconnectAndLogin
    <2>5. CASE SwitchProfile \/ ChangeControlServer
      BY <1>0, <2>5, SwitchedStep DEF SwitchProfile, ChangeControlServer
    <2>6. CASE SetDomainSplit
      BY <2>6, AppliedFollows, SamePhase DEF SetDomainSplit
    <2>. QED
      BY <1>1, <2>1, <2>2, <2>3, <2>4, <2>5, <2>6 DEF Popup
  <1>2. ASSUME NEW s \in Statuses, ReceiveStatus(s) PROVE GateStep
    BY <1>2, StatusStep
  <1>3. ASSUME NEW new, StoreUpdate(new) PROVE GateStep
    BY <1>3, AppliedFollows, SamePhase DEF StoreUpdate, memory
  <1>4. CASE GetWantRunning
    <2>1. /\ UNCHANGED <<active, ready, uncertain, transitioning>>
          /\ released' => released
          /\ applied' = Mode' \/ applied' = applied
      BY <1>4 DEF GetWantRunning, Reconnected
    <2>. QED  BY <1>0, <2>1, AppliedFollows, LiftedStep
  <1>5. CASE RestoreRead \/ RestoreFailed
    BY <1>5, RestoredStep
  <1>6. CASE WriteDone \/ WriteFailed
    BY <1>6, AppliedFollows, SamePhase DEF WriteDone, WriteFailed, memory
  <1>7. CASE Restart
    <2>1. Phase' = "unsure" /\ applied' = "blockAll"
      BY <1>7 DEF Restart, Phase
    <2>. QED
      BY <2>1 DEF GateStep, Gate!Next, Gate!Restart
  <1>8. CASE UNCHANGED vars
    BY <1>8, AppliedFollows, SamePhase DEF vars, memory
  <1>. QED
    BY <1>1, <1>2, <1>3, <1>4, <1>5, <1>6, <1>7, <1>8
    DEF Next, Helper, Service, Setback, Storage, ProcRunning, InitReply,
        HostDisconnected, ExitNodeError, OtherUpdate

\* RoutingProtection implements FailClosed: no handler, answer of storage or
\* restart opens the browser early, and an account that is protected stays so
\* until the user releases it or switches to another.
THEOREM Refinement == Spec => ImplementsFailClosed
  <1>1. Init => Gate!Init
    BY DEF Init, Gate!Init, Phase
  <1>2. Spec => []Apart
    <2>1. Inv /\ Apart /\ [Next]_vars => Apart'
      BY NextApart
    <2>. QED
      BY <2>1, InitApart, Invariance, PTL DEF Spec
  <1>3. Inv /\ Apart /\ [Next]_vars => [Gate!Next]_(Gate!gate)
    BY NextGate DEF GateStep
  <1>. QED
    BY <1>1, <1>2, <1>3, Invariance, PTL DEF Spec, ImplementsFailClosed, Gate!Spec
=============================================================================
