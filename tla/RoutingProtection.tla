------------------------- MODULE RoutingProtection -------------------------
(***************************************************************************)
(* The browser's routing protection                                        *)
(* (packages/shared/src/background/routing-protection.ts) with the         *)
(* handlers of background.ts that drive it.                                *)
(*                                                                         *)
(* RoutingProtection remembers, for the account that was last confirmed by *)
(* the helper, what has to stay protected, and turns every state of the    *)
(* extension into a routing policy: traffic goes through the helper        *)
(* ("active"), protected destinations are blocked ("blocked"), everything  *)
(* is blocked ("blockAll"), or the browser connects normally ("direct").   *)
(* What it knows is written to chrome.storage.local by a chain of          *)
(* asynchronous writes and read back when the service worker starts again. *)
(*                                                                         *)
(* An account ("scope") is a coordination server and a node ID.  The       *)
(* route lists of a snapshot are left out: they take no part in the choice *)
(* between the four modes.                                                 *)
(***************************************************************************)
EXTENDS Naturals, Sequences, FiniteSets

CONSTANTS
    Scopes,      \* accounts: [prefs.controlURL, selfNode.id]
    ExitNodes,   \* IDs of exit nodes
    Null,        \* JavaScript's null (and undefined)
    Invalid,     \* a stored snapshot that fails validation
    NoExit,      \* the empty string: the user chose "None"
    Statuses,    \* the status messages that the helper may send
    MaxWrites    \* bound: storage writes queued at any one time

Selection == ExitNodes \cup {Null}
Identities == Scopes \cup {"noSelf", "noPrefs"}
Backends == {"NoState", "Stopped", "Starting", "Running", "NeedsLogin"}
Modes == {"direct", "active", "blocked", "blockAll"}

\* A StatusUpdate. id is the account when both selfNode and prefs are there;
\* exitNode is prefs.exitNodeID || exitNode.id, online whether that node is.
StatusUpdate ==
    {s \in [backendState: Backends, id: Identities,
            exitNode: Selection, online: BOOLEAN] :
        s.online => s.exitNode # Null}

\* The part of TailscaleState that routing depends on. urlDropped: browseToURL
\* is the empty string that a coordination server change leaves there.
TailscaleState ==
    [backendState: Backends, id: Identities, exitNode: Selection,
     online: BOOLEAN, hostConnected: BOOLEAN, initialized: BOOLEAN,
     proxyEnabled: BOOLEAN, urlDropped: BOOLEAN,
     pendingExitNodeID: Selection \cup {NoExit}]

Snapshot == [scope: Scopes, selectedExitNodeID: Selection]

\* What is stored. "missing" is a field that versions before transitionScope
\* did not write, and "absent" an account without an entry in profiles.
SavedRouting ==
    [active: Snapshot \cup {Null, Invalid},
     released: BOOLEAN, transitioning: BOOLEAN,
     transitionScope: Scopes \cup {Null, "missing"},
     pendingExit: Selection \cup {NoExit},
     pendingDisconnect: BOOLEAN, pendingLogin: BOOLEAN,
     profiles: [Scopes -> Selection \cup {"absent"}]]

MaxProfiles == 32

ASSUME ScopesAssumption ==
    /\ Scopes # {} /\ IsFiniteSet(Scopes)
    /\ Cardinality(Scopes) <= MaxProfiles   \* save() keeps 32 profiles
    /\ {Null, "noSelf", "noPrefs", "missing"} \cap Scopes = {}
ASSUME ExitAssumption ==
    /\ {Null, NoExit, "absent"} \cap ExitNodes = {}
    /\ NoExit # Null /\ Null \notin {"absent", Invalid, "missing"}
    /\ Null \notin Snapshot
ASSUME StatusesAssumption == Statuses \subseteq StatusUpdate
ASSUME MaxWritesAssumption == MaxWrites \in Nat \ {0}

VARIABLES
    \* fields of RoutingProtection
    active, profiles, ready, uncertain, released, transitioning,
    transitionScope, pendingExit, pendingDisconnect, pendingLogin,
    revised,     \* revision has changed since restore() read it
    writeChain,  \* values whose write has not finished, oldest first
    keyed,       \* savedKey is not ""; it is then the key of Latest
    \* the rest of the background worker, the browser and its storage
    state,       \* StateStore's TailscaleState
    applied,     \* mode of the policy last given to the proxy manager
    disk,        \* chrome.storage.local, or Null when nothing is stored
    premature    \* history: Latest was built before restore() had finished

memory == <<active, profiles, ready, uncertain, released, transitioning,
            transitionScope, pendingExit, pendingDisconnect, pendingLogin,
            revised>>
storage == <<writeChain, keyed, disk, premature>>
vars == <<memory, storage, state, applied>>

-----------------------------------------------------------------------------
(* decorate(): the policy for the current state *)

ScopeOf(id) == IF id \in Scopes THEN id ELSE Null

ShouldProxyState == state.proxyEnabled /\ state.backendState = "Running"

BlockAllIgnoresSwitch ==
    \/ ~ready \/ uncertain
    \/ /\ ~released /\ active = Null
       /\ state.backendState = "Running" /\ state.id \notin Scopes
BlockAll ==
    \/ ~ready \/ uncertain \/ transitioning
    \/ /\ ~released /\ active = Null
       /\ state.backendState = "Running" /\ state.id \notin Scopes

DirectWithoutHelper == ~BlockAll /\ (released \/ ~ShouldProxyState)
Direct ==
    /\ ~BlockAll
    /\ released \/ (active = Null /\ ~ShouldProxyState)

\* Traffic may use the helper: it serves the protected account, and the
\* selected exit node is there and online.
Live ==
    IF active # Null
    THEN /\ ShouldProxyState
         /\ ScopeOf(state.id) = active.scope
         /\ \/ active.selectedExitNodeID = Null
            \/ state.online /\ state.exitNode = active.selectedExitNodeID
    ELSE LET selected == IF state.pendingExitNodeID \in ExitNodes  \* policyFromState
                         THEN state.pendingExitNodeID ELSE state.exitNode
         IN  selected = Null \/ (state.online /\ state.exitNode = selected)

Mode ==
    IF BlockAll THEN "blockAll"
    ELSE IF Direct THEN "direct"
    ELSE IF Live THEN "active" ELSE "blocked"

-----------------------------------------------------------------------------
(* save(): remember the active snapshot and queue a write, unless the value *)
(* is the one that was queued last.                                         *)

Value ==
    [active |-> active, released |-> released,
     transitioning |-> transitioning, transitionScope |-> transitionScope,
     pendingExit |-> pendingExit, pendingDisconnect |-> pendingDisconnect,
     pendingLogin |-> pendingLogin, profiles |-> profiles]

\* The value stored once every queued write has succeeded.
Latest == IF writeChain = <<>> THEN disk ELSE writeChain[Len(writeChain)]

Remembered(p, a) ==
    IF a = Null THEN p ELSE [p EXCEPT ![a.scope] = a.selectedExitNodeID]

Enqueue ==
    /\ Len(writeChain) < MaxWrites
    /\ writeChain' = Append(writeChain, Value')
    /\ keyed' = TRUE
    /\ premature' = ~ready
    /\ UNCHANGED disk

Save ==
    /\ profiles' = Remembered(profiles, active')
    /\ IF keyed /\ Value' = Latest THEN UNCHANGED storage ELSE Enqueue

-----------------------------------------------------------------------------
(* Start of the service worker, and restore() *)

InitialState ==
    [backendState |-> "NoState", id |-> "noSelf", exitNode |-> Null,
     online |-> FALSE, hostConnected |-> FALSE, initialized |-> FALSE,
     proxyEnabled |-> FALSE, urlDropped |-> FALSE,
     pendingExitNodeID |-> Null]

FirstRun ==
    [active |-> Null, released |-> FALSE, transitioning |-> FALSE,
     transitionScope |-> Null, pendingExit |-> Null,
     pendingDisconnect |-> FALSE, pendingLogin |-> FALSE,
     profiles |-> [s \in Scopes |-> "absent"]]

\* The file of an older version that was in the middle of an account switch.
OlderFile(s, e) ==
    [FirstRun EXCEPT !.active = [scope |-> s, selectedExitNodeID |-> e],
                     !.profiles = [FirstRun.profiles EXCEPT ![s] = e],
                     !.transitioning = TRUE, !.transitionScope = "missing"]

\* Nothing stored; a snapshot that does not pass validation; an older file.
InitialDisks ==
    {Null, [FirstRun EXCEPT !.active = Invalid]} \cup
    {OlderFile(s, e) : s \in Scopes, e \in Selection}

Init ==
    /\ active = Null /\ profiles = FirstRun.profiles
    /\ ready = FALSE /\ uncertain = FALSE /\ released = FALSE
    /\ transitioning = FALSE /\ transitionScope = Null
    /\ pendingExit = Null /\ pendingDisconnect = FALSE /\ pendingLogin = FALSE
    /\ revised = FALSE
    /\ writeChain = <<>> /\ keyed = FALSE /\ premature = FALSE
    /\ state = InitialState
    /\ applied = "blockAll"
    /\ disk \in InitialDisks

\* The browser stops the worker. The write in flight may have been done; the
\* ones queued behind it are lost. The next worker starts from its defaults,
\* and only the two storage areas carry over.
Restart ==
    /\ active' = Null /\ profiles' = FirstRun.profiles
    /\ ready' = FALSE /\ uncertain' = FALSE /\ released' = FALSE
    /\ transitioning' = FALSE /\ transitionScope' = Null
    /\ pendingExit' = Null /\ pendingDisconnect' = FALSE /\ pendingLogin' = FALSE
    /\ revised' = FALSE
    /\ writeChain' = <<>> /\ keyed' = FALSE /\ premature' = FALSE
    /\ state' = InitialState
    /\ applied' = "blockAll"
    /\ \/ UNCHANGED disk
       \/ writeChain # <<>> /\ disk' = Head(writeChain)

\* Keep what was read, unless a decision has been made in the meantime.
RestoreRead ==
    /\ ~ready /\ ready' = TRUE
    /\ IF revised \/ disk = Null
       THEN UNCHANGED <<active, profiles, uncertain, released, transitioning,
                        transitionScope, pendingExit, pendingDisconnect,
                        pendingLogin>>
       ELSE /\ released' = disk.released
            /\ pendingLogin' = (disk.released /\ disk.pendingLogin)
            /\ transitioning' = disk.transitioning
            /\ active' = IF disk.active = Invalid THEN Null ELSE disk.active
            /\ transitionScope' =
                 IF disk.transitionScope # "missing" THEN disk.transitionScope
                 ELSE IF active' # Null THEN active'.scope ELSE Null
            /\ pendingExit' = IF active' # Null THEN disk.pendingExit
                              ELSE pendingExit
            /\ pendingDisconnect' = IF active' # Null THEN disk.pendingDisconnect
                                    ELSE pendingDisconnect
            /\ uncertain' = (disk.active # Null /\ active' = Null)
            /\ profiles' = [s \in Scopes |->
                              IF disk.profiles[s] # "absent"
                              THEN disk.profiles[s] ELSE profiles[s]]
    /\ UNCHANGED <<revised, storage, state>>
    /\ applied' = Mode'

RestoreFailed ==
    /\ ~ready /\ ready' = TRUE
    /\ uncertain' = (uncertain \/ ~revised)
    /\ UNCHANGED <<active, profiles, released, transitioning, transitionScope,
                   pendingExit, pendingDisconnect, pendingLogin, revised,
                   storage, state>>
    /\ applied' = Mode'

\* The write at the head of the chain ends. Storage answers in order, so no
\* write is done before the read of restore().
WriteDone ==
    /\ ready /\ writeChain # <<>>
    /\ disk' = Head(writeChain)
    /\ writeChain' = Tail(writeChain)
    /\ UNCHANGED <<memory, keyed, premature, state, applied>>

WriteFailedKeepsKey ==
    /\ ready /\ writeChain # <<>>
    /\ writeChain' = Tail(writeChain)
    /\ UNCHANGED <<memory, keyed, disk, premature, state, applied>>
WriteFailed ==
    /\ ready /\ writeChain # <<>>
    /\ writeChain' = Tail(writeChain)
    /\ keyed' = FALSE
    /\ UNCHANGED <<memory, disk, premature, state, applied>>

-----------------------------------------------------------------------------
(* Commands of the popup *)

\* set-exit-node and clear-exit-node. The store notifies the proxy manager
\* unless pendingExitNodeID already had this value.
SelectExitNode(id) ==
    /\ revised' = TRUE
    /\ pendingExit' = id
    /\ released' = FALSE
    /\ active' = IF id # NoExit /\ active # Null
                 THEN [active EXCEPT !.selectedExitNodeID = id] ELSE active
    /\ UNCHANGED <<ready, uncertain, transitioning, transitionScope,
                   pendingDisconnect, pendingLogin>>
    /\ Save
    /\ state' = [state EXCEPT !.pendingExitNodeID = id]
    /\ applied' = IF state' = state THEN applied ELSE Mode'

\* toggle while Running, and logout.
RequestDisconnect ==
    /\ pendingDisconnect' = TRUE
    /\ UNCHANGED <<active, ready, uncertain, released, transitioning,
                   transitionScope, pendingExit, pendingLogin, revised,
                   state, applied>>
    /\ Save

\* reconnect(): neither saved nor applied by itself.
Reconnected == released' = (released /\ pendingLogin)

\* toggle while Stopped or NoState, login, and auto-connect.
Reconnect ==
    /\ Reconnected
    /\ UNCHANGED <<active, profiles, ready, uncertain, transitioning,
                   transitionScope, pendingExit, pendingDisconnect,
                   pendingLogin, revised, storage, state, applied>>

\* The decision that init carries, taken once restore() is done. The choice
\* itself (the session's intent, or a default) is left open. Only the first
\* decision of a worker re-applies the policy.
GetWantRunning ==
    /\ ready
    /\ \E wantRunning \in BOOLEAN :
         IF wantRunning THEN Reconnected ELSE UNCHANGED released
    /\ UNCHANGED <<active, profiles, ready, uncertain, transitioning,
                   transitionScope, pendingExit, pendingDisconnect,
                   pendingLogin, revised, storage, state>>
    /\ applied' = Mode' \/ UNCHANGED applied

ReleaseRouting(login) ==
    /\ revised' = TRUE
    /\ transitioning' = FALSE /\ transitionScope' = Null
    /\ uncertain' = FALSE
    /\ pendingExit' = Null /\ pendingDisconnect' = FALSE
    /\ pendingLogin' = login
    /\ released' = TRUE
    /\ UNCHANGED <<active, ready>>
    /\ Save

\* release-routing: "Disconnect and browse normally".
Release ==
    /\ ReleaseRouting(FALSE)
    /\ UNCHANGED state
    /\ applied' = Mode'

\* disconnect-and-login.
DisconnectAndLogin ==
    /\ state.backendState = "NeedsLogin"
    /\ ReleaseRouting(TRUE)
    /\ UNCHANGED state
    /\ applied' = Mode'

SwitchRouting ==
    /\ released' = FALSE /\ pendingLogin' = FALSE
    /\ pendingExit' = Null /\ pendingDisconnect' = FALSE
    /\ transitioning' = TRUE
    /\ transitionScope' =
         IF state.id \in Scopes THEN state.id
         ELSE IF /\ state.backendState = "NeedsLogin" /\ state.id = "noSelf"
                 /\ state.hostConnected /\ state.initialized
         THEN Null
         ELSE IF active # Null THEN active.scope ELSE Null
    /\ UNCHANGED <<active, ready, uncertain, revised>>
    /\ Save

\* switch-profile, new-profile, and delete-profile of the current profile.
SwitchProfile ==
    /\ SwitchRouting
    /\ UNCHANGED state
    /\ applied' = Mode'

\* set-pref of another coordination server. The store notifies the proxy
\* manager only when browseToURL was not "" before.
ChangeControlServer ==
    /\ SwitchRouting
    /\ state' = [state EXCEPT !.urlDropped = TRUE]
    /\ applied' = IF state.urlDropped THEN applied ELSE Mode'

\* set-domain-split: decorate() stores the new split in the active snapshot.
SetDomainSplit ==
    /\ UNCHANGED <<active, ready, uncertain, released, transitioning,
                   transitionScope, pendingExit, pendingDisconnect,
                   pendingLogin, revised, state>>
    /\ IF BlockAll \/ released \/ active = Null
       THEN UNCHANGED <<profiles, storage>>
       ELSE profiles' = Remembered(profiles, active') /\ Enqueue
    /\ applied' = Mode'

-----------------------------------------------------------------------------
(* Messages of the helper. It is started only after restore() has finished. *)
(* A message may come while the helper counts as disconnected: when opening *)
(* a new port fails before the old one is closed, the old one is still heard. *)

\* The helper uses the exit node that was asked for ("" asks for none).
Confirms(node, asked) == node = IF asked = NoExit THEN Null ELSE asked

\* The exit node to protect: the one asked for, else the one in use, else the
\* account's previous one unless the user asked for none.
SelectedEmptyKept(exit, node, prior) ==
    IF exit # Null THEN exit
    ELSE IF node # Null THEN node
    ELSE IF prior # "absent" THEN prior ELSE Null
SelectedForgetful(exit, node, prior) ==
    IF exit \in ExitNodes THEN exit ELSE node
Selected(exit, node, prior) ==
    IF exit \in ExitNodes THEN exit
    ELSE IF node # Null THEN node
    ELSE IF exit # NoExit /\ prior # "absent" THEN prior
    ELSE Null

\* A status of an account other than the one being left ends the switch.
EndsTransitionEarly(incoming) == incoming # Null
EndsTransition(incoming) == incoming # Null /\ incoming # transitionScope

\* The helper has done what requestDisconnect() was waiting for.
ConfirmsAnyStop(asked, backendState) == backendState \in {"Stopped", "NeedsLogin"}
ConfirmsDisconnect(asked, backendState) ==
    asked /\ backendState \in {"Stopped", "NeedsLogin"}

ConfirmStatus(s) ==
    LET incoming == ScopeOf(s.id)
        loggedIn == pendingLogin /\ s.backendState = "Running" /\ incoming # Null
        other == /\ incoming # Null
                 /\ active = Null \/ incoming # active.scope
        exit == IF other THEN Null ELSE pendingExit
        disconnect == pendingDisconnect /\ ~other
        prior == IF incoming = Null THEN "absent"
                 ELSE IF ~other THEN active.selectedExitNodeID
                 ELSE profiles[incoming]
        selected == Selected(exit, s.exitNode, prior)
        keep == \/ (released /\ ~loggedIn) \/ incoming = Null
                \/ prior = "absent" /\ selected = Null /\ s.backendState # "Running"
    IN  IF ConfirmsDisconnect(disconnect, s.backendState)
        THEN ReleaseRouting(FALSE)
        ELSE /\ pendingLogin' = (pendingLogin /\ ~loggedIn)
             /\ released' = (released /\ ~loggedIn)
             /\ pendingDisconnect' = disconnect
             /\ IF EndsTransition(incoming)
                THEN transitioning' = FALSE /\ transitionScope' = Null
                ELSE UNCHANGED <<transitioning, transitionScope>>
             /\ pendingExit' = IF ~released' /\ incoming # Null /\ Confirms(s.exitNode, exit)
                               THEN Null ELSE exit
             /\ UNCHANGED <<ready, uncertain, revised>>
             /\ IF keep
                THEN UNCHANGED <<active, profiles, storage>>
                ELSE /\ active' = [scope |-> incoming,
                                   selectedExitNodeID |-> selected]
                     /\ Save

ReceiveStatus(s) ==
    /\ ready
    /\ ConfirmStatus(s)
    /\ state' = [state EXCEPT !.backendState = s.backendState, !.id = s.id,
                              !.exitNode = s.exitNode, !.online = s.online,
                              !.urlDropped = FALSE,
                              !.pendingExitNodeID =
                                IF Confirms(s.exitNode, @) THEN Null ELSE @]
    /\ applied' = Mode'

\* The store passes on an update only if something has changed by it, which
\* may be a part of the state that is left out here.
StoreUpdate(new) ==
    /\ ready
    /\ state' = new
    /\ UNCHANGED <<memory, storage>>
    /\ applied' = Mode' \/ (new = state /\ UNCHANGED applied)

\* procRunning, with or without a usable proxy session.
ProcRunning(ok) ==
    StoreUpdate([state EXCEPT !.hostConnected = TRUE, !.proxyEnabled = ok])

InitReply(ok) == StoreUpdate([state EXCEPT !.initialized = ok])

\* The port closes; the account shown last stays in the state.
HostDisconnected ==
    StoreUpdate([state EXCEPT !.hostConnected = FALSE, !.initialized = FALSE,
                              !.proxyEnabled = FALSE, !.backendState = "NoState"])

\* The reply to set-exit-node is an error.
ExitNodeError ==
    StoreUpdate([state EXCEPT !.pendingExitNodeID = Null])

\* Any other store update (profiles, diagnostics, routing health).
OtherUpdate == StoreUpdate(state)

-----------------------------------------------------------------------------
Popup ==
    \/ \E id \in ExitNodes \cup {NoExit} : SelectExitNode(id)
    \/ RequestDisconnect
    \/ Reconnect
    \/ Release
    \/ DisconnectAndLogin
    \/ SwitchProfile
    \/ ChangeControlServer
    \/ SetDomainSplit

\* A helper that works as it should.
Service ==
    \/ \E s \in Statuses : ReceiveStatus(s)
    \/ ProcRunning(TRUE) \/ InitReply(TRUE)
    \/ OtherUpdate

\* A helper that ends, reports a failure or is started again.
Setback ==
    \/ ProcRunning(FALSE) \/ InitReply(FALSE)
    \/ HostDisconnected
    \/ ExitNodeError
    \/ GetWantRunning

Helper == Service \/ Setback

Storage == RestoreRead \/ RestoreFailed \/ WriteDone \/ WriteFailed

Next == Popup \/ Helper \/ Storage \/ Restart

Spec == Init /\ [][Next]_vars

-----------------------------------------------------------------------------
(* Properties *)

TypeOK ==
    /\ active \in Snapshot \cup {Null}
    /\ profiles \in [Scopes -> Selection \cup {"absent"}]
    /\ ready \in BOOLEAN /\ uncertain \in BOOLEAN /\ released \in BOOLEAN
    /\ transitioning \in BOOLEAN
    /\ transitionScope \in Scopes \cup {Null}
    /\ pendingExit \in Selection \cup {NoExit}
    /\ pendingDisconnect \in BOOLEAN /\ pendingLogin \in BOOLEAN
    /\ revised \in BOOLEAN /\ keyed \in BOOLEAN /\ premature \in BOOLEAN
    /\ writeChain \in Seq(SavedRouting)
    /\ disk \in SavedRouting \cup {Null}
    /\ state \in TailscaleState
    /\ applied \in Modes

\* What a restart would find is never weaker than what this worker protects.
\* Every early return of confirmStatus() and every handler that forgets to
\* save could break it: with the latest value written, the account, the
\* account switch in progress, the release and the unconfirmed requests of
\* the user are all in storage. (reconnect() lifts a release in memory only,
\* and a value saved before restore() finished is not built from storage.)
SavedIsNoWeaker ==
    (ready /\ keyed /\ ~premature) =>
        /\ Latest \in SavedRouting /\ Latest.active = active
        /\ Latest.profiles = profiles
        /\ transitioning => /\ Latest.transitioning
                            /\ Latest.transitionScope = transitionScope
        /\ released => Latest.released /\ Latest.pendingLogin = pendingLogin
        /\ pendingDisconnect => Latest.pendingDisconnect
        /\ pendingExit # Null => Latest.pendingExit = pendingExit

\* While accounts are switched the browser has been told to block everything.
\* Excepted is a second coordination server change without a status between,
\* which the store does not pass on to the proxy manager.
TransitionBlocks ==
    transitioning => applied = "blockAll" \/ state.urlDropped

\* A switch ends only with the status of an account other than the one that
\* was left, however many statuses of the old account are still on their way,
\* or by an explicit release (routing-protection.ts:275).
TransitionHeld ==
    [][(ready /\ transitioning /\ ready' /\ ~transitioning') =>
          \/ released'
          \/ state'.id \in Scopes /\ state'.id # transitionScope]_vars

\* As long as the worker lives, a browser that protects an account is opened
\* only by a release, by a login, or by a status that confirms a disconnect
\* which had been requested.
OpenedOnRequest ==
    [][(ready /\ ready' /\ active # Null /\ ~released
          /\ applied # "direct" /\ applied' = "direct") =>
          \/ Release \/ DisconnectAndLogin
          \/ pendingDisconnect /\ state'.backendState \in {"Stopped", "NeedsLogin"}]_vars

\* A protected exit node is forgotten only when the user asked for none and a
\* status without an exit node has confirmed it for that account; statuses in
\* which the node has disappeared, other accounts and logins never do it.
SelectionKept ==
    [][\A s \in Scopes :
          (ready /\ ready' /\ profiles[s] \in ExitNodes /\ profiles'[s] = Null) =>
             /\ pendingExit = NoExit
             /\ active # Null /\ active.scope = s
             /\ state'.id = s /\ state'.exitNode = Null]_vars

\* Routing protection as the gate of FailClosed: whatever the order of
\* statuses, commands, storage answers and restarts, no handler opens the
\* browser early and none but a release or a switch takes protection away.
Phase ==
    IF ~ready \/ uncertain THEN "unsure"
    ELSE IF transitioning THEN "switching"
    ELSE IF released THEN "released"
    ELSE IF active # Null THEN "guarded" ELSE "free"
Gate == INSTANCE FailClosed WITH phase <- Phase, open <- (applied = "direct")
ImplementsFailClosed == Gate!Spec

=============================================================================
