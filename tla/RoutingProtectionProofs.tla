---------------------- MODULE RoutingProtectionProofs ----------------------
(***************************************************************************)
(* The safety properties of RoutingProtection, for any accounts, exit      *)
(* nodes, statuses and number of queued writes.                            *)
(*                                                                         *)
(* What each action does to the saved value is one of two things: it ends  *)
(* with save(), after which the value that will be stored is the one in    *)
(* memory (SaveStep), or it does not save, and then it only gives up       *)
(* protection that storage still has (WeakensStep).                        *)
(***************************************************************************)
EXTENDS RoutingProtection, SequenceTheorems, TLAPS

\* The fields of RoutingProtection other than profiles, and storage.
FieldsOK ==
    /\ active \in Snapshot \cup {Null}
    /\ ready \in BOOLEAN /\ uncertain \in BOOLEAN /\ released \in BOOLEAN
    /\ transitioning \in BOOLEAN
    /\ transitionScope \in Scopes \cup {Null}
    /\ pendingExit \in Selection \cup {NoExit}
    /\ pendingDisconnect \in BOOLEAN /\ pendingLogin \in BOOLEAN
    /\ revised \in BOOLEAN
ProfilesOK == profiles \in [Scopes -> Selection \cup {"absent"}]
StorageOK ==
    /\ writeChain \in Seq(SavedRouting)
    /\ disk \in SavedRouting \cup {Null}
    /\ keyed \in BOOLEAN /\ premature \in BOOLEAN

\* Nothing that is saved before restore() has finished counts as complete.
PrematureUntilReady == ~ready /\ keyed => premature

Inv ==
    /\ TypeOK
    /\ TransitionBlocks
    /\ PrematureUntilReady
    /\ SavedIsNoWeaker

\* A value saved is well-formed when the fields are.
LEMMA ValueType == FieldsOK' /\ ProfilesOK' => Value' \in SavedRouting
  BY DEF FieldsOK, ProfilesOK, Value, SavedRouting

\* save() remembers the active account in the table of profiles.
LEMMA RememberedType ==
    ASSUME TypeOK, FieldsOK', profiles' = Remembered(profiles, active')
    PROVE  ProfilesOK'
  BY DEF TypeOK, FieldsOK, ProfilesOK, Remembered, Snapshot, Selection

\* A write that is queued becomes the value that storage will have.
LEMMA EnqueueStep ==
    ASSUME StorageOK, FieldsOK', ProfilesOK', Enqueue
    PROVE  /\ StorageOK'
           /\ Latest' = Value' /\ keyed' /\ premature' = ~ready
  <1>1. Value' \in SavedRouting
    BY ValueType
  <1>2. /\ writeChain' = Append(writeChain, Value')
        /\ keyed' = TRUE /\ premature' = ~ready /\ disk' = disk
    BY DEF Enqueue
  <1>3. /\ writeChain' \in Seq(SavedRouting) /\ writeChain' # <<>>
        /\ writeChain'[Len(writeChain')] = Value'
    BY <1>1, <1>2 DEF StorageOK
  <1>4. Latest' = Value'
    BY <1>3 DEF Latest
  <1>. QED
    BY <1>2, <1>3, <1>4 DEF StorageOK

\* What holds after every save().
LEMMA SaveStep ==
    ASSUME TypeOK, PrematureUntilReady, FieldsOK', ready' = ready,
           profiles' = Remembered(profiles, active'),
           (keyed /\ Value' = Latest /\ UNCHANGED storage) \/ Enqueue
    PROVE  ProfilesOK' /\ StorageOK' /\ PrematureUntilReady' /\ SavedIsNoWeaker'
  <1>1. ProfilesOK'
    BY RememberedType
  <1>2. StorageOK
    BY DEF TypeOK, StorageOK
  <1>3. StorageOK' /\ PrematureUntilReady' /\ Latest' = Value'
    <2>1. CASE Enqueue
      BY <1>1, <1>2, <2>1, EnqueueStep DEF PrematureUntilReady, FieldsOK
    <2>2. CASE keyed /\ Value' = Latest /\ UNCHANGED storage
      BY <1>2, <2>2 DEF StorageOK, PrematureUntilReady, storage, Latest
    <2>. QED  BY <2>1, <2>2
  <1>4. SavedIsNoWeaker'
    BY <1>1, <1>3, ValueType DEF SavedIsNoWeaker, Value
  <1>. QED  BY <1>1, <1>3, <1>4

\* An action that does not save only gives up what storage has.
Weakens ==
    /\ UNCHANGED <<active, profiles, ready, storage>>
    /\ transitioning' => transitioning /\ transitionScope' = transitionScope
    /\ released' => released /\ pendingLogin' = pendingLogin
    /\ pendingDisconnect' => pendingDisconnect
    /\ pendingExit' # Null => pendingExit' = pendingExit

\* Such an action keeps what is saved no weaker than what is in memory.
LEMMA WeakensStep ==
    ASSUME TypeOK, PrematureUntilReady, SavedIsNoWeaker, Weakens
    PROVE  ProfilesOK' /\ StorageOK' /\ PrematureUntilReady' /\ SavedIsNoWeaker'
  <1>1. Latest' = Latest
    BY DEF Weakens, storage, Latest
  <1>2. SavedIsNoWeaker'
    BY <1>1 DEF Weakens, storage, SavedIsNoWeaker
  <1>. QED
    BY <1>2 DEF Weakens, storage, TypeOK, ProfilesOK, StorageOK, PrematureUntilReady

\* decorate() of an account switch in progress blocks everything.
LEMMA ModeStep == Mode' \in Modes /\ (transitioning' => Mode' = "blockAll")
  BY DEF Mode, Modes, BlockAll

\* So does whatever is applied.
LEMMA ApplyStep == applied' = Mode' => applied' \in Modes /\ TransitionBlocks'
  BY ModeStep DEF TransitionBlocks

\* The parts of TypeOK put together again.
LEMMA TypeParts ==
    ASSUME FieldsOK', ProfilesOK', StorageOK', state' \in TailscaleState, applied' \in Modes
    PROVE  TypeOK'
  BY DEF FieldsOK, ProfilesOK, StorageOK, TypeOK

-----------------------------------------------------------------------------
(* The actions *)

\* A worker that starts satisfies Inv, whatever an earlier one has stored.
LEMMA InitInv == Init => Inv
  <1>. SUFFICES ASSUME Init PROVE Inv
    OBVIOUS
  <1>1. profiles \in [Scopes -> Selection \cup {"absent"}]
    BY DEF Init, FirstRun
  <1>2. state \in TailscaleState
    BY DEF Init, InitialState, TailscaleState, Identities, Backends, Selection
  <1>3. disk \in SavedRouting \cup {Null}
    <2>1. FirstRun \in SavedRouting
      BY DEF FirstRun, SavedRouting, Selection
    <2>2. [FirstRun EXCEPT !.active = Invalid] \in SavedRouting
      BY <2>1 DEF SavedRouting
    <2>3. ASSUME NEW s \in Scopes, NEW e \in Selection
          PROVE  OlderFile(s, e) \in SavedRouting
      <3>1. [scope |-> s, selectedExitNodeID |-> e] \in Snapshot
        BY DEF Snapshot
      <3>2. [FirstRun.profiles EXCEPT ![s] = e] \in [Scopes -> Selection \cup {"absent"}]
        BY <2>1 DEF SavedRouting
      <3>. QED  BY <2>1, <3>1, <3>2 DEF OlderFile, SavedRouting
    <2>4. disk \in InitialDisks
      BY DEF Init
    <2>5. \/ disk = Null \/ disk = [FirstRun EXCEPT !.active = Invalid]
          \/ \E s \in Scopes, e \in Selection : disk = OlderFile(s, e)
      BY <2>4 DEF InitialDisks
    <2>. QED  BY <2>2, <2>3, <2>5
  <1>4. FieldsOK /\ ProfilesOK
    BY <1>1 DEF Init, FieldsOK, ProfilesOK, Selection
  <1>5. StorageOK
    <2>1. writeChain \in Seq(SavedRouting)
      BY EmptySeq DEF Init
    <2>. QED  BY <1>3, <2>1 DEF Init, StorageOK
  <1>6. applied \in Modes
    BY DEF Init, Modes
  <1>7. TypeOK
    BY <1>2, <1>4, <1>5, <1>6 DEF TypeOK, FieldsOK, ProfilesOK, StorageOK
  <1>. QED
    BY <1>7 DEF Init, Inv, TransitionBlocks, PrematureUntilReady, SavedIsNoWeaker

\* A new worker after the browser has stopped this one.
LEMMA RestartStep == Inv /\ Restart => Inv'
  <1>. SUFFICES ASSUME Inv, Restart PROVE Inv'
    OBVIOUS
  <1>. USE DEF Inv
  <1>1. profiles' \in [Scopes -> Selection \cup {"absent"}]
    BY DEF Restart, FirstRun
  <1>2. state' \in TailscaleState
    BY DEF Restart, InitialState, TailscaleState, Identities, Backends, Selection
  <1>3. disk' \in SavedRouting \cup {Null} /\ writeChain' \in Seq(SavedRouting)
    BY DEF Restart, TypeOK
  <1>4. TypeOK'
    BY <1>1, <1>2, <1>3 DEF Restart, TypeOK, Selection, Modes
  <1>. QED
    BY <1>4 DEF Restart, TransitionBlocks, PrematureUntilReady, SavedIsNoWeaker

\* restore() reads what is stored.
LEMMA RestoreReadStep == Inv /\ RestoreRead => Inv'
  <1>. SUFFICES ASSUME Inv, RestoreRead PROVE Inv'
    OBVIOUS
  <1>. USE DEF Inv
  <1>1. /\ ready' = TRUE /\ revised' = revised /\ UNCHANGED storage
        /\ state' = state /\ applied' = Mode' /\ ~ready
    BY DEF RestoreRead
  <1>2. FieldsOK' /\ ProfilesOK'
    <2>1. CASE revised \/ disk = Null
      BY <1>1, <2>1 DEF RestoreRead, TypeOK, FieldsOK, ProfilesOK
    <2>2. CASE ~(revised \/ disk = Null)
      <3>1. disk \in SavedRouting
        BY <2>2 DEF TypeOK
      <3>2. active' \in Snapshot \cup {Null}
        BY <2>2, <3>1 DEF RestoreRead, SavedRouting
      <3>3. transitionScope' \in Scopes \cup {Null}
        BY <2>2, <3>1, <3>2 DEF RestoreRead, SavedRouting, Snapshot
      <3>4. /\ released' \in BOOLEAN /\ pendingLogin' \in BOOLEAN
            /\ transitioning' \in BOOLEAN /\ uncertain' \in BOOLEAN
            /\ pendingDisconnect' \in BOOLEAN
            /\ pendingExit' \in Selection \cup {NoExit}
        BY <2>2, <3>1 DEF RestoreRead, SavedRouting, TypeOK
      <3>5. ProfilesOK'
        BY <2>2, <3>1 DEF RestoreRead, SavedRouting, TypeOK, ProfilesOK
      <3>. QED
        BY <1>1, <3>2, <3>3, <3>4, <3>5 DEF FieldsOK, TypeOK
    <2>. QED  BY <2>1, <2>2
  <1>3. StorageOK'
    BY <1>1 DEF storage, TypeOK, StorageOK
  <1>4. TypeOK'
    BY <1>1, <1>2, <1>3, ModeStep, TypeParts DEF TypeOK
  <1>5. TransitionBlocks'
    BY <1>1, ModeStep DEF TransitionBlocks
  <1>6. PrematureUntilReady' /\ SavedIsNoWeaker'
    BY <1>1 DEF storage, PrematureUntilReady, SavedIsNoWeaker
  <1>. QED  BY <1>4, <1>5, <1>6

\* restore() cannot read storage.
LEMMA RestoreFailedStep == Inv /\ RestoreFailed => Inv'
  <1>. SUFFICES ASSUME Inv, RestoreFailed PROVE Inv'
    OBVIOUS
  <1>. USE DEF Inv
  <1>1. TypeOK'
    BY ModeStep DEF RestoreFailed, storage, TypeOK
  <1>2. TransitionBlocks'
    BY ModeStep DEF RestoreFailed, TransitionBlocks
  <1>3. PrematureUntilReady' /\ SavedIsNoWeaker'
    BY DEF RestoreFailed, storage, PrematureUntilReady, SavedIsNoWeaker
  <1>. QED  BY <1>1, <1>2, <1>3

\* The newest of several queued writes stays the newest when the oldest ends.
LEMMA TailLast ==
    ASSUME NEW S, NEW q \in Seq(S), q # <<>>, Len(q) # 1
    PROVE  Tail(q) # <<>> /\ Tail(q)[Len(Tail(q))] = q[Len(q)]
  <1>1. Len(q) \in Nat \ {0}
    BY EmptySeq
  <1>2. /\ Len(Tail(q)) = Len(q) - 1
        /\ \A i \in 1 .. Len(Tail(q)) : Tail(q)[i] = q[i + 1]
    BY HeadTailProperties
  <1>3. Len(Tail(q)) \in 1 .. Len(Tail(q)) /\ Len(Tail(q)) + 1 = Len(q)
    BY <1>1, <1>2
  <1>4. Tail(q) # <<>>
    BY <1>3, EmptySeq
  <1>. QED
    BY <1>2, <1>3, <1>4

\* A queued write ends, well or not.
LEMMA WriteStep == Inv /\ (WriteDone \/ WriteFailed) => Inv'
  <1>. SUFFICES ASSUME Inv, WriteDone \/ WriteFailed PROVE Inv'
    OBVIOUS
  <1>. USE DEF Inv
  <1>1. /\ ready /\ ready' = ready /\ UNCHANGED <<memory, premature, state, applied>>
        /\ writeChain # <<>> /\ writeChain' = Tail(writeChain)
        /\ writeChain \in Seq(SavedRouting)
    BY DEF WriteDone, WriteFailed, memory, TypeOK
  <1>2. writeChain' \in Seq(SavedRouting) /\ Head(writeChain) \in SavedRouting
    BY <1>1
  <1>. FieldsOK' /\ ProfilesOK' /\ state' \in TailscaleState /\ applied' \in Modes
    BY <1>1 DEF memory, TypeOK, FieldsOK, ProfilesOK
  <1>. StorageOK'
    BY <1>1, <1>2 DEF WriteDone, WriteFailed, TypeOK, StorageOK
  <1>3. TypeOK'
    BY TypeParts
  <1>4. WriteDone => Latest' = Latest
    <2>1. CASE Len(writeChain) = 1
      <3>1. writeChain' = <<>> /\ Head(writeChain) = writeChain[Len(writeChain)]
        BY <1>1, <1>2, <2>1
      <3>. QED
        BY <1>1, <3>1 DEF WriteDone, Latest
    <2>2. CASE Len(writeChain) # 1
      BY <1>1, <2>2, TailLast DEF Latest
    <2>. QED  BY <2>1, <2>2
  <1>5. SavedIsNoWeaker'
    <2>1. CASE WriteDone
      BY <1>1, <1>4, <2>1 DEF WriteDone, memory, SavedIsNoWeaker
    <2>2. CASE WriteFailed
      BY <2>2 DEF WriteFailed, SavedIsNoWeaker
    <2>. QED  BY <2>1, <2>2
  <1>. QED
    BY <1>1, <1>3, <1>5 DEF memory, TransitionBlocks, PrematureUntilReady

\* The commands and messages that end with save(), or that would but for an
\* early return: what they leave behind.
Outcome ==
    /\ FieldsOK
    /\ ProfilesOK /\ StorageOK /\ PrematureUntilReady /\ SavedIsNoWeaker

\* Inv from the outcome of a handler and what it applies.
LEMMA OutcomeInv ==
    ASSUME Outcome', state' \in TailscaleState, applied' \in Modes, TransitionBlocks'
    PROVE  Inv'
  BY TypeParts DEF Outcome, Inv

\* set-exit-node and clear-exit-node.
LEMMA SelectExitNodeStep ==
    ASSUME Inv, NEW id \in ExitNodes \cup {NoExit}, SelectExitNode(id)
    PROVE  Inv'
  <1>. USE DEF Inv
  <1>1. active' \in Snapshot \cup {Null}
    BY ExitAssumption DEF SelectExitNode, TypeOK, Snapshot, Selection
  <1>2. FieldsOK' /\ ready' = ready /\ Save
    BY <1>1 DEF SelectExitNode, TypeOK, FieldsOK, Selection
  <1>3. Outcome'
    BY <1>2, SaveStep DEF Save, Outcome
  <1>4. state' \in TailscaleState /\ state'.urlDropped = state.urlDropped
    BY DEF SelectExitNode, TypeOK, TailscaleState, Selection
  <1>5. applied' \in Modes /\ TransitionBlocks'
    <2>1. CASE state' = state
      BY <1>4, <2>1 DEF SelectExitNode, TypeOK, TransitionBlocks
    <2>2. CASE state' # state
      BY <2>2, ApplyStep DEF SelectExitNode
    <2>. QED  BY <2>1, <2>2
  <1>. QED  BY <1>3, <1>4, <1>5, OutcomeInv

\* toggle while Running, and logout.
LEMMA RequestDisconnectStep == Inv /\ RequestDisconnect => Inv'
  <1>. SUFFICES ASSUME Inv, RequestDisconnect PROVE Inv'
    OBVIOUS
  <1>. USE DEF Inv
  <1>1. FieldsOK' /\ ready' = ready /\ Save
    BY DEF RequestDisconnect, TypeOK, FieldsOK
  <1>2. Outcome'
    BY <1>1, SaveStep DEF Save, Outcome
  <1>3. state' \in TailscaleState /\ applied' \in Modes /\ TransitionBlocks'
    BY DEF RequestDisconnect, TypeOK, TransitionBlocks
  <1>. QED  BY <1>2, <1>3, OutcomeInv

\* reconnect(), by itself or before the decision that init carries.
LEMMA ReconnectStep == Inv /\ (Reconnect \/ GetWantRunning) => Inv'
  <1>. SUFFICES ASSUME Inv, Reconnect \/ GetWantRunning PROVE Inv'
    OBVIOUS
  <1>. USE DEF Inv
  <1>1. /\ released' \in BOOLEAN /\ (released' => released)
        /\ UNCHANGED <<active, profiles, ready, uncertain, transitioning,
                       transitionScope, pendingExit, pendingDisconnect,
                       pendingLogin, revised, storage, state>>
    BY DEF Reconnect, GetWantRunning, Reconnected, TypeOK
  <1>2. FieldsOK' /\ Weakens
    BY <1>1 DEF TypeOK, FieldsOK, Weakens
  <1>3. Outcome'
    BY <1>2, WeakensStep DEF Outcome
  <1>4. applied' = Mode' \/ applied' = applied
    BY DEF Reconnect, GetWantRunning
  <1>5. applied' \in Modes /\ TransitionBlocks'
    BY <1>1, <1>4, ApplyStep DEF TypeOK, TransitionBlocks
  <1>. QED  BY <1>1, <1>3, <1>5, OutcomeInv DEF TypeOK

\* releaseRouting().
LEMMA ReleaseRoutingStep ==
    ASSUME Inv, NEW login \in BOOLEAN, ReleaseRouting(login)
    PROVE  Outcome'
  <1>1. FieldsOK' /\ ready' = ready /\ Save
    BY DEF Inv, ReleaseRouting, TypeOK, FieldsOK, Selection
  <1>. QED
    BY <1>1, SaveStep DEF Inv, Save, Outcome

\* "Disconnect and browse normally", and the login that comes with it.
LEMMA ReleaseStep == Inv /\ (Release \/ DisconnectAndLogin) => Inv'
  <1>. SUFFICES ASSUME Inv, Release \/ DisconnectAndLogin PROVE Inv'
    OBVIOUS
  <1>1. Outcome'
    BY ReleaseRoutingStep DEF Release, DisconnectAndLogin
  <1>2. state' \in TailscaleState
    BY DEF Inv, TypeOK, Release, DisconnectAndLogin
  <1>3. applied' = Mode'
    BY DEF Release, DisconnectAndLogin
  <1>. QED  BY <1>1, <1>2, <1>3, ApplyStep, OutcomeInv

\* Account switches, and the change of coordination server.
LEMMA SwitchStep == Inv /\ (SwitchProfile \/ ChangeControlServer) => Inv'
  <1>. SUFFICES ASSUME Inv, SwitchProfile \/ ChangeControlServer PROVE Inv'
    OBVIOUS
  <1>. USE DEF Inv
  <1>1. SwitchRouting
    BY DEF SwitchProfile, ChangeControlServer
  <1>2. transitionScope' \in Scopes \cup {Null}
    BY <1>1 DEF SwitchRouting, TypeOK, Snapshot
  <1>3. FieldsOK' /\ ready' = ready /\ Save
    BY <1>1, <1>2 DEF SwitchRouting, TypeOK, FieldsOK, Selection
  <1>4. Outcome'
    BY <1>3, SaveStep DEF Save, Outcome
  <1>5. CASE SwitchProfile
    BY <1>4, <1>5, ApplyStep, OutcomeInv DEF SwitchProfile, TypeOK
  <1>6. CASE ChangeControlServer
    <2>1. state' \in TailscaleState /\ state'.urlDropped
      BY <1>6 DEF ChangeControlServer, TypeOK, TailscaleState
    <2>2. applied' \in Modes
      BY <1>6, ModeStep DEF ChangeControlServer, TypeOK
    <2>. QED
      BY <1>4, <2>1, <2>2, OutcomeInv DEF TransitionBlocks
  <1>. QED  BY <1>5, <1>6

\* set-domain-split.
LEMMA SetDomainSplitStep == Inv /\ SetDomainSplit => Inv'
  <1>. SUFFICES ASSUME Inv, SetDomainSplit PROVE Inv'
    OBVIOUS
  <1>. USE DEF Inv
  <1>1. FieldsOK' /\ ready' = ready
    BY DEF SetDomainSplit, TypeOK, FieldsOK
  <1>2. Outcome'
    <2>1. CASE BlockAll \/ released \/ active = Null
      <3>1. Weakens
        BY <2>1 DEF SetDomainSplit, Weakens
      <3>. QED  BY <1>1, <3>1, WeakensStep DEF Outcome
    <2>2. CASE ~(BlockAll \/ released \/ active = Null)
      <3>1. profiles' = Remembered(profiles, active') /\ Enqueue
        BY <2>2 DEF SetDomainSplit
      <3>. QED  BY <1>1, <3>1, SaveStep DEF Outcome
    <2>. QED  BY <2>1, <2>2
  <1>. QED
    BY <1>2, ApplyStep, OutcomeInv DEF SetDomainSplit, TypeOK

\* The exit node that confirmStatus() protects is one, or none; never the
\* empty string of a request for none.
LEMMA SelectedType ==
    ASSUME NEW exit \in Selection \cup {NoExit}, NEW node \in Selection,
           NEW prior \in Selection \cup {"absent"}
    PROVE  Selected(exit, node, prior) \in Selection
  BY DEF Selected, Selection

\* confirmStatus() of any status.
LEMMA ConfirmStatusStep ==
    ASSUME Inv, NEW s \in StatusUpdate, ConfirmStatus(s)
    PROVE  Outcome' /\ (active' = active \/ active' \in Snapshot)
  <1>. USE DEF Inv
  <1>. DEFINE
         incoming == ScopeOf(s.id)
         loggedIn == pendingLogin /\ s.backendState = "Running" /\ incoming # Null
         other == /\ incoming # Null
                  /\ active = Null \/ incoming # active.scope
         exit == IF other THEN Null ELSE pendingExit
         disconnect == pendingDisconnect /\ ~other
         prior == IF incoming = Null THEN "absent"
                  ELSE IF ~other THEN active.selectedExitNodeID
                  ELSE profiles[incoming]
         selected == Selected(exit, s.exitNode, prior)
         keep == \/ (released /\ ~loggedIn) \/ incoming = Null
                 \/ prior = "absent" /\ selected = Null /\ s.backendState # "Running"
  <1>1. CASE ConfirmsDisconnect(disconnect, s.backendState)
    <2>1. ReleaseRouting(FALSE)
      BY <1>1 DEF ConfirmStatus
    <2>. QED  BY <2>1, ReleaseRoutingStep DEF ReleaseRouting
  <1>2. CASE ~ConfirmsDisconnect(disconnect, s.backendState)
    <2>1. /\ pendingLogin' = (pendingLogin /\ ~loggedIn)
          /\ released' = (released /\ ~loggedIn)
          /\ pendingDisconnect' = disconnect
          /\ IF EndsTransition(incoming)
             THEN transitioning' = FALSE /\ transitionScope' = Null
             ELSE UNCHANGED <<transitioning, transitionScope>>
          /\ pendingExit' = IF ~released' /\ incoming # Null /\ Confirms(s.exitNode, exit)
                            THEN Null ELSE exit
          /\ UNCHANGED <<ready, uncertain, revised>>
          /\ IF keep
             THEN UNCHANGED <<active, profiles, storage>>
             ELSE /\ active' = [scope |-> incoming, selectedExitNodeID |-> selected]
                  /\ Save
      BY <1>2 DEF ConfirmStatus
    <2>2. /\ incoming \in Scopes \cup {Null} /\ s.exitNode \in Selection
          /\ exit \in Selection \cup {NoExit}
      BY DEF ScopeOf, StatusUpdate, TypeOK, Selection
    <2>3. prior \in Selection \cup {"absent"}
      BY <2>2 DEF TypeOK, Snapshot
    <2>4. selected \in Selection
      BY <2>2, <2>3, SelectedType
    <2>5. active' = active \/ active' \in Snapshot
      <3>1. CASE keep
        BY <2>1, <3>1
      <3>2. CASE ~keep
        BY <2>1, <2>2, <2>4, <3>2 DEF Snapshot
      <3>. QED  BY <3>1, <3>2
    <2>6. FieldsOK' /\ ready' = ready
      <3>1. /\ pendingLogin' \in BOOLEAN /\ released' \in BOOLEAN
            /\ pendingDisconnect' \in BOOLEAN
        BY <2>1, Zenon
      <3>2. transitioning' \in BOOLEAN /\ transitionScope' \in Scopes \cup {Null}
        BY <2>1 DEF TypeOK
      <3>3. pendingExit' \in Selection \cup {NoExit}
        BY <2>1, <2>2 DEF Selection
      <3>. QED
        BY <2>1, <2>5, <3>1, <3>2, <3>3 DEF TypeOK, FieldsOK
    <2>7. CASE keep
      <3>1. Weakens
        BY <2>1, <2>7 DEF Weakens, TypeOK
      <3>. QED  BY <2>5, <2>6, <3>1, WeakensStep DEF Outcome
    <2>8. CASE ~keep
      <3>1. Save
        BY <2>1, <2>8
      <3>. QED  BY <2>5, <2>6, <3>1, SaveStep DEF Save, Outcome
    <2>. QED  BY <2>7, <2>8
  <1>. QED  BY <1>1, <1>2

\* A status of the helper.
LEMMA ReceiveStatusStep ==
    ASSUME Inv, NEW s \in Statuses, ReceiveStatus(s)
    PROVE  Inv'
  <1>1. s \in StatusUpdate
    BY StatusesAssumption
  <1>2. Outcome'
    BY <1>1, ConfirmStatusStep DEF ReceiveStatus
  <1>3. state' \in TailscaleState
    BY <1>1 DEF Inv, TypeOK, ReceiveStatus, StatusUpdate, TailscaleState, Selection
  <1>. QED
    BY <1>2, <1>3, ApplyStep, OutcomeInv DEF ReceiveStatus

\* The other messages and events only change the state that is shown.
LEMMA StoreUpdateStep ==
    ASSUME Inv, NEW new \in TailscaleState, StoreUpdate(new)
    PROVE  Inv'
  <1>1. FieldsOK' /\ Weakens
    BY DEF Inv, TypeOK, StoreUpdate, memory, storage, FieldsOK, Weakens
  <1>2. Outcome'
    BY <1>1, WeakensStep DEF Inv, Outcome
  <1>3. applied' \in Modes /\ TransitionBlocks'
    <2>1. CASE applied' = Mode'
      BY <2>1, ApplyStep
    <2>2. CASE new = state /\ UNCHANGED applied
      BY <2>2 DEF StoreUpdate, memory, Inv, TypeOK, TransitionBlocks
    <2>. QED  BY <2>1, <2>2 DEF StoreUpdate
  <1>. QED
    BY <1>2, <1>3, OutcomeInv DEF StoreUpdate

\* The messages of the helper.
LEMMA HelperStep == Inv /\ Helper => Inv'
  <1>. SUFFICES ASSUME Inv, Helper PROVE Inv'
    OBVIOUS
  <1>0. state \in TailscaleState
    BY DEF Inv, TypeOK
  <1>1. ASSUME NEW s \in Statuses, ReceiveStatus(s) PROVE Inv'
    BY <1>1, ReceiveStatusStep
  <1>2. ASSUME NEW ok \in BOOLEAN, ProcRunning(ok) \/ InitReply(ok) PROVE Inv'
    <2>1. /\ [state EXCEPT !.hostConnected = TRUE, !.proxyEnabled = ok] \in TailscaleState
          /\ [state EXCEPT !.initialized = ok] \in TailscaleState
      BY <1>0 DEF TailscaleState
    <2>. QED  BY <1>2, <2>1, StoreUpdateStep DEF ProcRunning, InitReply
  <1>3. CASE HostDisconnected \/ ExitNodeError \/ OtherUpdate
    <2>1. [state EXCEPT !.hostConnected = FALSE, !.initialized = FALSE,
                        !.proxyEnabled = FALSE, !.backendState = "NoState"]
            \in TailscaleState
      BY <1>0 DEF TailscaleState, Backends
    <2>2. [state EXCEPT !.pendingExitNodeID = Null] \in TailscaleState
      BY <1>0 DEF TailscaleState, Selection
    <2>. QED
      BY <1>0, <1>3, <2>1, <2>2, StoreUpdateStep
      DEF HostDisconnected, ExitNodeError, OtherUpdate
  <1>4. CASE GetWantRunning
    BY <1>4, ReconnectStep
  <1>. QED
    BY <1>1, <1>2, <1>3, <1>4 DEF Helper, Service, Setback

\* Every step keeps Inv.
LEMMA NextInv == Inv /\ [Next]_vars => Inv'
  <1>. SUFFICES ASSUME Inv, [Next]_vars PROVE Inv'
    OBVIOUS
  <1>1. CASE Popup
    BY <1>1, SelectExitNodeStep, RequestDisconnectStep, ReconnectStep,
       ReleaseStep, SwitchStep, SetDomainSplitStep DEF Popup
  <1>2. CASE Helper
    BY <1>2, HelperStep
  <1>3. CASE Storage
    BY <1>3, RestoreReadStep, RestoreFailedStep, WriteStep DEF Storage
  <1>4. CASE Restart
    BY <1>4, RestartStep
  <1>5. CASE UNCHANGED vars
    <2>1. FieldsOK' /\ Weakens
      BY <1>5 DEF vars, memory, Inv, TypeOK, FieldsOK, Weakens
    <2>2. Outcome'
      BY <2>1, WeakensStep DEF Inv, Outcome
    <2>. QED
      BY <1>5, <2>2, OutcomeInv DEF vars, Inv, TypeOK, TransitionBlocks, memory
  <1>. QED
    BY <1>1, <1>2, <1>3, <1>4, <1>5 DEF Next

\* Inv holds in every reachable state.
LEMMA Invariance == Spec => []Inv
  BY InitInv, NextInv, PTL DEF Spec

-----------------------------------------------------------------------------
(* The theorems *)

\* Every field, queued write and stored value has its type; in particular the
\* empty string of a request for no exit node never gets into a snapshot.
THEOREM TypeCorrect == Spec => []TypeOK
  BY Invariance, PTL DEF Inv

\* While accounts are switched, what was applied last blocks everything.
THEOREM TransitionBlocksAlways == Spec => []TransitionBlocks
  BY Invariance, PTL DEF Inv

\* With the latest value written, a restart restores all that is protected.
THEOREM SavedIsNoWeakerAlways == Spec => []SavedIsNoWeaker
  BY Invariance, PTL DEF Inv

\* What a status can do to a switch and to a release.
LEMMA ConfirmStatusEffects ==
    ASSUME Inv, NEW s \in Statuses, ReceiveStatus(s)
    PROVE  /\ state'.id = s.id /\ state'.backendState = s.backendState
           /\ transitioning /\ ~transitioning' =>
                released' \/ (s.id \in Scopes /\ s.id # transitionScope)
           /\ ~released /\ released' =>
                pendingDisconnect /\ s.backendState \in {"Stopped", "NeedsLogin"}
           /\ active # Null => active' # Null
  <1>1. s \in StatusUpdate
    BY StatusesAssumption
  <1>2. state'.id = s.id /\ state'.backendState = s.backendState
    BY DEF Inv, TypeOK, ReceiveStatus, TailscaleState
  <1>3. transitioning /\ ~transitioning' =>
          released' \/ (s.id \in Scopes /\ s.id # transitionScope)
    BY <1>1 DEF ReceiveStatus, ConfirmStatus, ReleaseRouting, EndsTransition, ScopeOf
  <1>4. ~released /\ released' =>
          pendingDisconnect /\ s.backendState \in {"Stopped", "NeedsLogin"}
    BY DEF ReceiveStatus, ConfirmStatus, ConfirmsDisconnect
  <1>5. ASSUME active # Null PROVE active' # Null
    <2>1. active' = active \/ active' \in Snapshot
      BY <1>1, ConfirmStatusStep DEF ReceiveStatus
    <2>. QED  BY <1>5, <2>1, ExitAssumption
  <1>. QED  BY <1>2, <1>3, <1>4, <1>5

\* A switch ends only with another account's status or by a release, however
\* long statuses of the old account keep coming.
THEOREM TransitionHeldAlways == Spec => TransitionHeld
  <1>. DEFINE Held == (ready /\ transitioning /\ ready' /\ ~transitioning') =>
                         \/ released'
                         \/ state'.id \in Scopes /\ state'.id # transitionScope
  <1>1. Inv /\ [Next]_vars => [Held]_vars
    <2>. SUFFICES ASSUME Inv, Next, ready, transitioning, ready', ~transitioning'
                  PROVE  \/ released'
                         \/ state'.id \in Scopes /\ state'.id # transitionScope
      OBVIOUS
    <2>1. CASE Popup
      BY <2>1 DEF Popup, SelectExitNode, RequestDisconnect, Reconnect, Release,
                  DisconnectAndLogin, ReleaseRouting, SwitchProfile,
                  ChangeControlServer, SwitchRouting, SetDomainSplit
    <2>2. ASSUME NEW s \in Statuses, ReceiveStatus(s)
          PROVE  released' \/ (state'.id \in Scopes /\ state'.id # transitionScope)
      BY <2>2, ConfirmStatusEffects
    <2>3. CASE Helper
      BY <2>2, <2>3 DEF Helper, Service, Setback, ProcRunning, InitReply,
                        HostDisconnected, ExitNodeError, OtherUpdate, StoreUpdate,
                        GetWantRunning, memory
    <2>4. CASE Storage \/ Restart
      BY <2>4 DEF Storage, RestoreRead, RestoreFailed, WriteDone, WriteFailed,
                  memory, Restart
    <2>. QED  BY <2>1, <2>3, <2>4 DEF Next
  <1>. QED
    BY <1>1, Invariance, PTL DEF Spec, TransitionHeld

\* A protected browser is opened only by a release, by a login, or by a status
\* that confirms a requested disconnect.
THEOREM OpenedOnRequestAlways == Spec => OpenedOnRequest
  <1>. DEFINE Closed == ready /\ active # Null /\ ~released /\ applied # "direct"
              Asked == \/ Release \/ DisconnectAndLogin
                       \/ /\ pendingDisconnect
                          /\ state'.backendState \in {"Stopped", "NeedsLogin"}
  <1>1. Mode' = "direct" => released' \/ active' = Null
    BY DEF Mode, Direct
  <1>2. Inv /\ [Next]_vars =>
          [(ready /\ ready' /\ active # Null /\ ~released
              /\ applied # "direct" /\ applied' = "direct") => Asked]_vars
    <2>. SUFFICES ASSUME Inv, Next, ready', Closed, applied' = "direct"
                  PROVE  Asked
      OBVIOUS
    <2>1. CASE Release \/ DisconnectAndLogin
      BY <2>1
    <2>2. ASSUME NEW id \in ExitNodes \cup {NoExit}, SelectExitNode(id) PROVE Asked
      <3>1. ~released' /\ (applied' = applied \/ applied' = Mode')
        BY <2>2 DEF SelectExitNode
      <3>2. active' # Null
        BY <2>2, ExitAssumption DEF SelectExitNode, Inv, TypeOK, Snapshot, Selection
      <3>. QED  BY <1>1, <3>1, <3>2
    <2>3. CASE RequestDisconnect \/ Reconnect
      BY <2>3 DEF RequestDisconnect, Reconnect
    <2>4. CASE SwitchProfile \/ ChangeControlServer
      <3>1. transitioning' /\ (applied' = applied \/ applied' = Mode')
        BY <2>4 DEF SwitchProfile, ChangeControlServer, SwitchRouting
      <3>. QED  BY <3>1, ModeStep
    <2>5. CASE SetDomainSplit
      BY <1>1, <2>5 DEF SetDomainSplit
    <2>6. ASSUME NEW s \in Statuses, ReceiveStatus(s) PROVE Asked
      <3>1. applied' = Mode'
        BY <2>6 DEF ReceiveStatus
      <3>. QED  BY <1>1, <2>6, <3>1, ConfirmStatusEffects
    <2>7. ASSUME NEW new, StoreUpdate(new) PROVE Asked
      BY <1>1, <2>7 DEF StoreUpdate, memory
    <2>8. CASE GetWantRunning
      BY <1>1, <2>8 DEF GetWantRunning, Reconnected
    <2>9. CASE Storage \/ Restart
      BY <2>9 DEF Storage, RestoreRead, RestoreFailed, WriteDone, WriteFailed, Restart
    <2>. QED
      BY <2>1, <2>2, <2>3, <2>4, <2>5, <2>6, <2>7, <2>8, <2>9
      DEF Next, Popup, Helper, Service, Setback, ProcRunning, InitReply,
          HostDisconnected, ExitNodeError, OtherUpdate
  <1>. QED
    BY <1>2, Invariance, PTL DEF Spec, OpenedOnRequest

-----------------------------------------------------------------------------
(* The exit node of the active account, in the table of profiles *)

\* The entry of the account that is active is its exit node: in memory, in
\* storage and in every value on its way there.
Consistent(v) ==
    v.active \in Snapshot \ {Invalid} =>
      v.profiles[v.active.scope] = v.active.selectedExitNodeID
EntryOfActive ==
    /\ active # Null => profiles[active.scope] = active.selectedExitNodeID
    /\ disk # Null => Consistent(disk)
    /\ \A i \in DOMAIN writeChain : Consistent(writeChain[i])

\* save() makes it so, whatever was in the table before.
LEMMA SaveEntry ==
    ASSUME Inv, EntryOfActive, FieldsOK',
           profiles' = Remembered(profiles, active'), UNCHANGED storage \/ Enqueue
    PROVE  EntryOfActive'
  <1>1. active' # Null => profiles'[active'.scope] = active'.selectedExitNodeID
    BY DEF Inv, TypeOK, FieldsOK, Remembered, Snapshot
  <1>2. CASE UNCHANGED storage
    BY <1>1, <1>2 DEF storage, EntryOfActive
  <1>3. CASE Enqueue
    <2>1. /\ writeChain' = Append(writeChain, Value') /\ disk' = disk
          /\ writeChain \in Seq(SavedRouting)
      BY <1>3 DEF Enqueue, Inv, TypeOK
    <2>2. Value' \in SavedRouting
      BY RememberedType, ValueType DEF Inv
    <2>3. Consistent(Value')
      BY <1>1, ExitAssumption DEF Consistent, Value
    <2>4. \A i \in DOMAIN writeChain' :
            writeChain'[i] = Value' \/ (i \in DOMAIN writeChain
                                        /\ writeChain'[i] = writeChain[i])
      BY <2>1, <2>2
    <2>. QED
      BY <1>1, <2>1, <2>3, <2>4 DEF EntryOfActive
  <1>. QED  BY <1>2, <1>3

\* Whatever an earlier version has stored.
LEMMA InitEntry == Init => EntryOfActive
  <1>. SUFFICES ASSUME Init PROVE EntryOfActive
    OBVIOUS
  <1>1. active = Null /\ writeChain = <<>> /\ disk \in InitialDisks
    BY DEF Init
  <1>2. CASE disk = [FirstRun EXCEPT !.active = Invalid]
    <2>1. disk.active = Invalid
      BY <1>2 DEF FirstRun
    <2>. QED  BY <1>1, <2>1 DEF EntryOfActive, Consistent
  <1>3. ASSUME NEW s \in Scopes, NEW e \in Selection, disk = OlderFile(s, e)
        PROVE  EntryOfActive
    <2>1. /\ disk.active = [scope |-> s, selectedExitNodeID |-> e]
          /\ disk.profiles[s] = e
      BY <1>3 DEF OlderFile, FirstRun
    <2>. QED  BY <1>1, <2>1 DEF EntryOfActive, Consistent
  <1>. QED  BY <1>1, <1>2, <1>3 DEF InitialDisks, EntryOfActive

\* What a step does to the table: it saves, or leaves it alone, or only ends
\* a write, or reads storage.
Saves == /\ profiles' = Remembered(profiles, active')
         /\ UNCHANGED storage \/ Enqueue
TableKept == UNCHANGED <<active, profiles, storage>>

LEMMA StepKinds ==
    ASSUME Inv, [Next]_vars
    PROVE  \/ Saves \/ TableKept
           \/ WriteDone \/ WriteFailed \/ RestoreRead \/ Restart
  <1>. USE DEF Saves, TableKept
  <1>1. CASE Popup
    BY <1>1 DEF Popup, SelectExitNode, RequestDisconnect, Reconnect, Release,
                DisconnectAndLogin, ReleaseRouting, SwitchProfile,
                ChangeControlServer, SwitchRouting, SetDomainSplit, Save
  <1>2. ASSUME NEW s \in Statuses, ReceiveStatus(s) PROVE Saves \/ TableKept
    BY <1>2 DEF ReceiveStatus, ConfirmStatus, ReleaseRouting, Save
  <1>3. CASE Helper
    BY <1>2, <1>3 DEF Helper, Service, Setback, ProcRunning, InitReply,
                      HostDisconnected, ExitNodeError, OtherUpdate, StoreUpdate,
                      GetWantRunning, memory
  <1>4. CASE RestoreFailed
    BY <1>4 DEF RestoreFailed
  <1>5. CASE UNCHANGED vars
    BY <1>5 DEF vars, memory
  <1>. QED  BY <1>1, <1>3, <1>4, <1>5 DEF Next, Storage

\* Every step keeps the entry of the active account.
LEMMA NextEntry == Inv /\ EntryOfActive /\ [Next]_vars => EntryOfActive'
  <1>. SUFFICES ASSUME Inv, EntryOfActive, [Next]_vars PROVE EntryOfActive'
    OBVIOUS
  <1>0. FieldsOK'
    BY NextInv DEF Inv, TypeOK, FieldsOK
  <1>1. CASE Saves
    BY <1>0, <1>1, SaveEntry DEF Saves
  <1>2. CASE TableKept
    BY <1>2 DEF TableKept, storage, EntryOfActive
  <1>3. CASE WriteDone \/ WriteFailed
    <2>1. /\ active' = active /\ profiles' = profiles
          /\ writeChain # <<>> /\ writeChain' = Tail(writeChain)
          /\ disk' = disk \/ disk' = writeChain[1]
          /\ writeChain \in Seq(SavedRouting)
      BY <1>3 DEF WriteDone, WriteFailed, memory, Inv, TypeOK
    <2>2. /\ 1 \in DOMAIN writeChain
          /\ \A i \in DOMAIN Tail(writeChain) :
               i + 1 \in DOMAIN writeChain /\ Tail(writeChain)[i] = writeChain[i + 1]
      BY <2>1
    <2>. QED  BY <2>1, <2>2 DEF EntryOfActive
  <1>4. CASE RestoreRead
    <2>1. UNCHANGED <<writeChain, disk>>
      BY <1>4 DEF RestoreRead, storage
    <2>2. CASE revised \/ disk = Null
      BY <1>4, <2>1, <2>2 DEF RestoreRead, EntryOfActive
    <2>3. CASE ~(revised \/ disk = Null)
      <3>1. /\ disk \in SavedRouting /\ Consistent(disk)
            /\ active' = IF disk.active = Invalid THEN Null ELSE disk.active
            /\ profiles' = [s \in Scopes |-> IF disk.profiles[s] # "absent"
                                             THEN disk.profiles[s] ELSE profiles[s]]
        BY <1>4, <2>3 DEF RestoreRead, EntryOfActive, Inv, TypeOK
      <3>2. ASSUME active' # Null
            PROVE  profiles'[active'.scope] = active'.selectedExitNodeID
        <4>1. active' = disk.active /\ disk.active \in Snapshot \ {Invalid}
          BY <3>1, <3>2 DEF SavedRouting
        <4>2. disk.profiles[active'.scope] = active'.selectedExitNodeID
          BY <3>1, <4>1 DEF Consistent
        <4>3. active'.scope \in Scopes /\ active'.selectedExitNodeID # "absent"
          BY <4>1, ExitAssumption DEF Snapshot, Selection
        <4>. QED  BY <3>1, <4>2, <4>3
      <3>. QED  BY <2>1, <3>2 DEF EntryOfActive
    <2>. QED  BY <2>2, <2>3
  <1>5. CASE Restart
    <2>1. /\ active' = Null /\ writeChain' = <<>>
          /\ \/ disk' = disk
             \/ writeChain # <<>> /\ disk' = writeChain[1]
          /\ writeChain \in Seq(SavedRouting)
      BY <1>5 DEF Restart, Inv, TypeOK
    <2>2. writeChain # <<>> => 1 \in DOMAIN writeChain
      BY <2>1
    <2>. QED  BY <2>1, <2>2 DEF EntryOfActive
  <1>. QED  BY <1>1, <1>2, <1>3, <1>4, <1>5, StepKinds

\* Inv and the entry of the active account hold in every reachable state.
LEMMA EntryInvariance == Spec => [](Inv /\ EntryOfActive)
  BY InitInv, NextInv, InitEntry, NextEntry, PTL DEF Spec

\* A status that takes the exit node away from the entry of an account.
LEMMA ConfirmStatusForgets ==
    ASSUME Inv, EntryOfActive, NEW s \in Statuses, ReceiveStatus(s),
           NEW scope \in Scopes, profiles[scope] \in ExitNodes, profiles'[scope] = Null
    PROVE  /\ pendingExit = NoExit
           /\ active # Null /\ active.scope = scope
           /\ s.id = scope /\ s.exitNode = Null
  <1>. DEFINE
         incoming == ScopeOf(s.id)
         loggedIn == pendingLogin /\ s.backendState = "Running" /\ incoming # Null
         other == /\ incoming # Null
                  /\ active = Null \/ incoming # active.scope
         exit == IF other THEN Null ELSE pendingExit
         disconnect == pendingDisconnect /\ ~other
         prior == IF incoming = Null THEN "absent"
                  ELSE IF ~other THEN active.selectedExitNodeID
                  ELSE profiles[incoming]
         selected == Selected(exit, s.exitNode, prior)
         keep == \/ (released /\ ~loggedIn) \/ incoming = Null
                 \/ prior = "absent" /\ selected = Null /\ s.backendState # "Running"
  <1>1. /\ profiles \in [Scopes -> Selection \cup {"absent"}]
        /\ active \in Snapshot \cup {Null} /\ pendingExit \in Selection \cup {NoExit}
        /\ active # Null => profiles[active.scope] = active.selectedExitNodeID
        /\ s.exitNode \in Selection /\ Null \notin ExitNodes
    BY StatusesAssumption, ExitAssumption
    DEF Inv, TypeOK, EntryOfActive, StatusUpdate
  <1>2. \/ profiles' = Remembered(profiles, active)
        \/ profiles' = profiles
        \/ /\ ~keep
           /\ active' = [scope |-> incoming, selectedExitNodeID |-> selected]
           /\ profiles' = Remembered(profiles, active')
    BY DEF ReceiveStatus, ConfirmStatus, ReleaseRouting, Save
  <1>3. profiles' # profiles /\ profiles' # Remembered(profiles, active)
    BY <1>1 DEF Remembered, Snapshot
  <1>4. /\ ~keep /\ incoming \in Scopes /\ s.id = incoming
        /\ profiles' = [profiles EXCEPT ![incoming] = selected]
    <2>1. /\ ~keep
          /\ active' = [scope |-> incoming, selectedExitNodeID |-> selected]
          /\ profiles' = Remembered(profiles, active')
      BY <1>2, <1>3
    <2>2. incoming \in Scopes /\ s.id = incoming
      BY <2>1 DEF ScopeOf
    <2>3. active' \in Snapshot
      <3>1. prior \in Selection \cup {"absent"} /\ exit \in Selection \cup {NoExit}
        BY <1>1, <2>2 DEF Snapshot, Selection
      <3>. QED  BY <1>1, <2>1, <2>2, <3>1, SelectedType DEF Snapshot
    <2>. QED
      BY <2>1, <2>2, <2>3, ExitAssumption DEF Remembered
  <1>5. incoming = scope /\ selected = Null
    BY <1>1, <1>4
  <1>6. prior = profiles[scope]
    BY <1>1, <1>4, <1>5 DEF Snapshot
  <1>7. s.exitNode = Null /\ exit = NoExit
    BY <1>1, <1>5, <1>6, ExitAssumption DEF Selected
  <1>8. ~other /\ pendingExit = NoExit
    BY <1>7, ExitAssumption
  <1>9. active # Null /\ active.scope = scope
    BY <1>4, <1>5, <1>8, ScopesAssumption
  <1>. QED  BY <1>4, <1>5, <1>7, <1>8, <1>9

\* A protected exit node is forgotten only when the user asked for none and a
\* status without an exit node has confirmed it for that very account.
THEOREM SelectionKeptAlways == Spec => SelectionKept
  <1>. DEFINE Kept(s) ==
         (ready /\ ready' /\ profiles[s] \in ExitNodes /\ profiles'[s] = Null) =>
            /\ pendingExit = NoExit
            /\ active # Null /\ active.scope = s
            /\ state'.id = s /\ state'.exitNode = Null
  <1>1. Inv /\ EntryOfActive /\ [Next]_vars => [\A s \in Scopes : Kept(s)]_vars
    <2>. SUFFICES ASSUME Inv, EntryOfActive, Next, NEW s \in Scopes, ready, ready',
                         profiles[s] \in ExitNodes, profiles'[s] = Null
                  PROVE  /\ pendingExit = NoExit
                         /\ active # Null /\ active.scope = s
                         /\ state'.id = s /\ state'.exitNode = Null
      OBVIOUS
    <2>1. /\ profiles \in [Scopes -> Selection \cup {"absent"}]
          /\ active \in Snapshot \cup {Null} /\ state \in TailscaleState
          /\ active # Null => profiles[active.scope] = active.selectedExitNodeID
          /\ Null \notin ExitNodes
      BY ExitAssumption DEF Inv, TypeOK, EntryOfActive
    <2>2. profiles' # profiles /\ profiles' # Remembered(profiles, active)
      BY <2>1 DEF Remembered, Snapshot
    <2>3. Saves /\ active' # active
      BY <2>2, StepKinds
      DEF Saves, TableKept, WriteDone, WriteFailed, memory, RestoreRead, Restart
    <2>4. ASSUME NEW id \in ExitNodes \cup {NoExit}, SelectExitNode(id)
          PROVE  FALSE
      <3>1. /\ active # Null /\ id \in ExitNodes
            /\ active' = [active EXCEPT !.selectedExitNodeID = id]
        BY <2>3, <2>4 DEF SelectExitNode
      <3>2. active' # Null /\ active'.selectedExitNodeID = id
        BY <2>1, <3>1, ExitAssumption DEF Snapshot, Selection
      <3>3. profiles' = [profiles EXCEPT ![active'.scope] = id]
        BY <2>3, <3>2 DEF Saves, Remembered
      <3>. QED  BY <2>1, <3>1, <3>3
    <2>5. PICK m \in Statuses : ReceiveStatus(m)
      BY <2>3, <2>4 DEF Next, Popup, Helper, Service, Setback, Storage,
            RequestDisconnect, Reconnect, Release, DisconnectAndLogin,
            ReleaseRouting, SwitchProfile, ChangeControlServer, SwitchRouting,
            SetDomainSplit, ProcRunning, InitReply, HostDisconnected,
            ExitNodeError, OtherUpdate, StoreUpdate, memory, GetWantRunning,
            RestoreRead, RestoreFailed, WriteDone, WriteFailed, Restart
    <2>6. state'.id = m.id /\ state'.exitNode = m.exitNode
      BY <2>1, <2>5 DEF ReceiveStatus, TailscaleState
    <2>. QED  BY <2>5, <2>6, ConfirmStatusForgets
  <1>. QED
    BY <1>1, EntryInvariance, PTL DEF Spec, SelectionKept
=============================================================================
