------------------------- MODULE ConnectionIntent --------------------------
(***************************************************************************)
(* Whether the node should be connected: the decision the background       *)
(* worker keeps in memory, the two copies it keeps in browser storage, and *)
(* the commands it sends on its own (background.ts: recordIntent,          *)
(* clearIntent, the wantRunning callback, maybeAutoConnect,                *)
(* maybeAutoDisconnect, the lifecycle listeners; auto-connect.ts).         *)
(*                                                                         *)
(* Every storage access is an await.  The worker may be restarted, the     *)
(* extension updated (which wipes session storage) or the browser          *)
(* restarted between any two steps, and onStartup / onInstalled may be     *)
(* delivered long after the decision they should have influenced.          *)
(* Routing, which the same handlers also change, is RoutingProtection.     *)
(***************************************************************************)
EXTENDS Naturals, Sequences

CONSTANTS
    MaxEvents,    \* bound: what the user does, restarts of the worker, the
                  \* extension or the browser, lost connections and rejected
                  \* storage calls, together
    MaxPending    \* bound: calls waiting for the same storage read

ASSUME BoundsAssumption ==
    /\ MaxEvents \in Nat
    /\ MaxPending \in Nat \ {0}

None == "none"
Decisions == {"up", "down"}
NodeStates == {"Stopped", "Running", "NeedsLogin"}
BackendStates == NodeStates \cup {"NoState"}   \* what a status may say

NoResolution == [pref |-> None, persisted |-> None, usedRecovery |-> FALSE]
NotRead == [pref |-> None, persisted |-> None]

VARIABLES
    mirror,      \* sessionIntentMirror
    explicit,    \* intentExplicitlyDecided
    attempted,   \* autoDisconnectAttempted
    resolution,  \* startupResolution; NoResolution until it is set
    saw,         \* which of sawBrowserStartup, sawExtensionUpdate hold
    chain,       \* intentWriteChain: the jobs that have not ended
    connecting,  \* where connect() is: "off", an await, or "open"
    local,       \* the constants pref, persisted of the wantRunning callback
    autoConnect, \* state.autoConnectOnStart; None until hydrated
    latest,      \* latestBackendState
    shown,       \* state.backendState
    checks,      \* maybeAutoConnect() calls per await
    reads,       \* maybeAutoDisconnect() calls that read the session intent
    session, persisted, handled, pref,   \* browser storage
    events,      \* lifecycle events the browser has not delivered yet
    node,        \* backend state of the node behind the helper
    toHost, inbox,
    decided,     \* history: the user's newest decision in this worker's life
    corrections, \* history: corrective downs sent on this connection
    lost,        \* history: a storage call was rejected in this worker's life,
                 \* or the last worker was stopped with work in flight
    budget       \* what is left of MaxEvents

worker == <<mirror, explicit, attempted, resolution, saw, chain, connecting,
            local, autoConnect, latest, shown, checks, reads>>
storage == <<session, persisted, handled, pref>>
world == <<events, node, toHost, inbox>>
history == <<decided, corrections, lost, budget>>
vars == <<worker, storage, world, history>>

Spend == budget > 0 /\ budget' = budget - 1
-----------------------------------------------------------------------------
(* The chain of storage writes.                                            *)

Job(op) == [op |-> op, value |-> None]

\* What is left of the chain after one await of its first job.  The value
\* is read from the mirror when the job begins, not when it is queued.
AfterStep ==
    CASE Head(chain).op = "writeBoth" /\ mirror # None ->
           <<[op |-> "persist", value |-> mirror]>> \o Tail(chain)
      [] Head(chain).op = "clear" /\ mirror = None ->
           <<Job("clearPersisted")>> \o Tail(chain)
      [] OTHER -> Tail(chain)

\* writeSessionIntent, writePersistedIntent, clearSessionIntent and
\* clearPersistedIntent, as enqueueIntentWrite, clearIntent and
\* handleBrowserStartup call them.
StepSession ==
    CASE Head(chain).op \in {"write", "writeAwaited", "writeBoth"}
         /\ mirror # None -> mirror
      [] Head(chain).op = "clear" /\ mirror = None -> None
      [] OTHER -> session
StepPersisted ==
    CASE Head(chain).op = "persist" -> Head(chain).value
      [] Head(chain).op = "clearPersisted" -> None
      [] OTHER -> persisted

ChainStep ==
    /\ chain # <<>>
    /\ chain' = AfterStep
    /\ session' = StepSession
    /\ persisted' = StepPersisted
    /\ UNCHANGED <<mirror, explicit, attempted, resolution, saw, connecting,
                   local, autoConnect, latest, shown, checks, reads,
                   handled, pref, world, history>>

\* Each await has its own catch: a rejected call does not stop the job.
ChainStepFails ==
    /\ chain # <<>>
    /\ AfterStep # chain
    /\ Spend
    /\ chain' = AfterStep
    /\ lost' = TRUE
    /\ UNCHANGED <<mirror, explicit, attempted, resolution, saw, connecting,
                   local, autoConnect, latest, shown, checks, reads,
                   storage, world, decided, corrections>>
-----------------------------------------------------------------------------
(* Decisions.                                                              *)

\* nativeHost.send(): false when there is no port.
Sends(cmd) ==
    IF connecting = "open"
    THEN toHost' = Append(toHost, cmd)
    ELSE UNCHANGED toHost

RecordIntentForSession(value) ==
    /\ mirror' = value
    /\ explicit' = TRUE
    /\ chain' = Append(chain, Job("write"))
RecordIntent(value) ==
    /\ mirror' = value
    /\ explicit' = TRUE
    /\ chain' = Append(chain, Job("writeBoth"))

\* A decision of the user, and the command that goes with it.
Decide(value, cmd) ==
    /\ Spend
    /\ RecordIntent(value)
    /\ Sends(cmd)
    /\ decided' = value

\* "toggle": disconnect when Running, connect when Stopped or unknown.
\* Only the disconnect marks auto-connect as handled.
Toggle ==
    /\ shown # "NeedsLogin"
    /\ IF shown = "Running"
       THEN Decide("down", "down") /\ handled' = TRUE
       ELSE Decide("up", "up") /\ UNCHANGED handled
    /\ UNCHANGED <<attempted, resolution, saw, connecting, local,
                   autoConnect, latest, shown, checks, reads, session,
                   persisted, pref, events, node, inbox, corrections, lost>>

\* "release-routing" and "logout".
ReleaseOrLogout ==
    /\ \E cmd \in {"down", "logout"} : Decide("down", cmd)
    /\ UNCHANGED <<attempted, resolution, saw, connecting, local,
                   autoConnect, latest, shown, checks, reads, storage,
                   events, node, inbox, corrections, lost>>

\* requestLogin(): asking for a login asks for a connection.
RequestLogin ==
    /\ shown = "NeedsLogin"
    /\ Decide("up", "login")
    /\ UNCHANGED <<attempted, resolution, saw, connecting, local,
                   autoConnect, latest, shown, checks, reads, storage,
                   events, node, inbox, corrections, lost>>

\* "switch-profile", "new-profile", "delete-profile" of the current one:
\* clearIntent() forgets the decision and closes the corrective window.  The
\* popup offers them while the helper is connected (canRunCommand).
SwitchProfile ==
    /\ connecting = "open"
    /\ Spend
    /\ mirror' = None
    /\ explicit' = TRUE
    /\ attempted' = TRUE
    /\ chain' = Append(chain, Job("clear"))
    /\ Sends("switch")
    /\ decided' = None
    /\ UNCHANGED <<resolution, saw, connecting, local, autoConnect, latest,
                   shown, checks, reads, storage, events, node, inbox,
                   corrections, lost>>

\* "set-auto-connect-on-start".
SetPref ==
    /\ Spend
    /\ autoConnect # None
    /\ autoConnect' = IF autoConnect = "up" THEN "down" ELSE "up"
    /\ pref' = autoConnect'
    /\ UNCHANGED <<mirror, explicit, attempted, resolution, saw, chain,
                   connecting, local, latest, shown, checks, reads, session,
                   persisted, handled, world, decided, corrections, lost>>
-----------------------------------------------------------------------------
(* connect(): the wantRunning callback, then the port.                     *)

ToStage(at) == connecting' = at

\* A decision of this lifetime is fresher than storage.
BeginConnect ==
    /\ connecting = "off"
    /\ ToStage(IF mirror # None THEN "ready" ELSE "session")
    /\ UNCHANGED <<mirror, explicit, attempted, resolution, saw, chain,
                   local, autoConnect, latest, shown, checks, reads,
                   storage, world, history>>

\* ??=: a user action that landed while the resolution was in flight wins.
ResolveOverwrites(value) ==
    /\ mirror' = value
    /\ chain' = Append(chain, Job("writeAwaited"))
    /\ ToStage("ready")
Resolve(value) ==
    /\ mirror' = IF mirror = None THEN value ELSE mirror
    /\ chain' = Append(chain, Job("writeAwaited"))
    /\ ToStage("ready")

ReadSessionIntent ==
    /\ connecting = "session"
    /\ IF session # None
       THEN Resolve(session)
       ELSE ToStage("prefs") /\ UNCHANGED <<mirror, chain>>
    /\ UNCHANGED <<explicit, attempted, resolution, saw, local, autoConnect,
                   latest, shown, checks, reads, storage, world, history>>

\* A rejected read: init is sent without the hint.
ReadFails ==
    /\ connecting \in {"session", "prefs"}
    /\ Spend
    /\ ToStage("ready")
    /\ lost' = TRUE
    /\ UNCHANGED <<mirror, explicit, attempted, resolution, saw, chain,
                   local, autoConnect, latest, shown, checks, reads,
                   storage, world, decided, corrections>>

\* readAutoConnectPref() and readPersistedIntent().  When there is a
\* persisted intent the callback then waits 250 ms for the lifecycle events,
\* which may come before or after that: FinishResolution takes any time.
ReadPrefs ==
    /\ connecting = "prefs"
    /\ local' = [pref |-> pref, persisted |-> persisted]
    /\ ToStage("startup")
    /\ UNCHANGED <<mirror, explicit, attempted, resolution, saw, chain,
                   autoConnect, latest, shown, checks, reads, storage,
                   world, history>>

\* After a browser start, the persisted copy is cleared first.  The intent
\* survives an update only: otherwise the preference decides.
RecoverUpdateIntent ==
    /\ local.persisted # None
    /\ "update" \in saw
    /\ "startup" \notin saw
FinishResolution ==
    /\ connecting = "startup"
    /\ "startup" \in saw =>
         \A i \in DOMAIN chain : chain[i].op # "clearPersisted"
    /\ Resolve(IF RecoverUpdateIntent THEN local.persisted ELSE local.pref)
    /\ resolution' = [pref |-> local.pref, persisted |-> local.persisted,
                      usedRecovery |-> RecoverUpdateIntent]
    /\ local' = NotRead
    /\ UNCHANGED <<explicit, attempted, saw, autoConnect, latest,
                   shown, checks, reads, storage, world, history>>

\* init carries the decision.  A fresh helper brings the node up unless the
\* hint says otherwise; helpers that predate the field ignore it.
HintedStates(hint) ==
    IF node = "NeedsLogin" THEN {"NeedsLogin"}
    ELSE IF hint = "down" THEN {"Stopped", "Running"} ELSE {"Running"}
OpenPort ==
    /\ connecting = "ready"
    /\ \A i \in DOMAIN chain : chain[i].op # "writeAwaited"
    /\ ToStage("open")
    /\ node' \in HintedStates(mirror)
    /\ inbox' \in {<<node'>>, <<"NoState", node'>>}
    /\ toHost' = <<>>
    /\ corrections' = 0
    /\ UNCHANGED <<mirror, explicit, attempted, resolution, saw, chain,
                   local, autoConnect, latest, shown, checks, reads,
                   storage, events, decided, lost, budget>>

\* handleNativeConnectionEvent, "disconnected": the next connection gets a
\* corrective window of its own.  The helper ends with its port.
CloseKeepingLatch == shown' = "NoState" /\ UNCHANGED attempted
CloseForgettingState == shown' = None /\ attempted' = FALSE
CloseConnection == shown' = "NoState" /\ attempted' = FALSE
PortDrops ==
    /\ connecting = "open"
    /\ Spend
    /\ ToStage("off")
    /\ CloseConnection
    /\ toHost' = <<>>
    /\ inbox' = <<>>
    /\ UNCHANGED <<mirror, explicit, resolution, saw, chain, local,
                   autoConnect, latest, checks, reads, storage, events,
                   node, decided, corrections, lost>>
-----------------------------------------------------------------------------
(* Commands the worker sends on its own.                                   *)

\* sendCorrectiveDown(): the latch stays open when there is no port.
SendUnlatchedDown ==
    /\ Sends("down")
    /\ UNCHANGED attempted
    /\ corrections' = IF connecting = "open" THEN corrections + 1
                                             ELSE corrections
SendCorrectiveDown ==
    /\ Sends("down")
    /\ attempted' = (connecting = "open")
    /\ corrections' = IF connecting = "open" THEN corrections + 1
                                             ELSE corrections
NoCorrection == UNCHANGED <<toHost, attempted, corrections>>

\* maybeAutoDisconnect(): against a stay-down decision, once per connection.
MaybeAutoDisconnect(state, intent) ==
    IF state # "Running" \/ attempted
    THEN NoCorrection /\ UNCHANGED reads
    ELSE IF intent # None
         THEN /\ IF intent = "down" THEN SendCorrectiveDown ELSE NoCorrection
              /\ UNCHANGED reads
         ELSE NoCorrection /\ reads < MaxPending /\ reads' = reads + 1

\* The session intent it read, when the mirror did not hold a decision.
CorrectsAfterRead(intent) ==
    intent = "down" /\ ~attempted /\ mirror # "up"
AutoDisconnectReads ==
    /\ reads > 0
    /\ reads' = reads - 1
    /\ IF CorrectsAfterRead(session)
       THEN mirror' = "down" /\ SendCorrectiveDown
       ELSE NoCorrection /\ UNCHANGED mirror
    /\ UNCHANGED <<explicit, resolution, saw, chain, connecting, local,
                   autoConnect, latest, shown, checks, storage, events,
                   node, inbox, decided, lost, budget>>

\* maybeAutoConnect(): `up` once per browser session, unless decided against.
StartsAutoConnect(state, enabled) ==
    enabled = "up" /\ state \in {"Stopped", "NoState"} /\ mirror # "down"
MaybeAutoConnect(state, enabled) ==
    IF StartsAutoConnect(state, enabled)
    THEN /\ checks.reading < MaxPending
         /\ checks' = [checks EXCEPT !.reading = @ + 1]
    ELSE UNCHANGED checks

\* isAutoConnectHandled(), then markAutoConnectHandled().
AutoConnectReads ==
    /\ checks.reading > 0
    /\ checks.marking < MaxPending
    /\ checks' = [reading |-> checks.reading - 1,
                  marking |-> checks.marking + (IF handled THEN 0 ELSE 1)]
    /\ UNCHANGED <<mirror, explicit, attempted, resolution, saw, chain,
                   connecting, local, autoConnect, latest, shown, reads,
                   storage, world, history>>
AutoConnectGoesUp ==
    /\ checks.marking > 0
    /\ checks' = [checks EXCEPT !.marking = @ - 1]
    /\ handled' = TRUE
    /\ RecordIntent("up")
    /\ Sends("up")
    /\ UNCHANGED <<attempted, resolution, saw, connecting, local,
                   autoConnect, latest, shown, reads, session, persisted,
                   pref, events, node, inbox, history>>

\* The preference is hydrated once; a status may have come first.
HydratePref ==
    /\ autoConnect = None
    /\ autoConnect' = pref
    /\ IF latest # None THEN MaybeAutoConnect(latest, pref)
                        ELSE UNCHANGED checks
    /\ UNCHANGED <<mirror, explicit, attempted, resolution, saw, chain,
                   connecting, local, latest, shown, reads, storage, world,
                   history>>

\* A status: maybeAutoConnect(), then maybeAutoDisconnect().
ReceiveStatus ==
    /\ connecting = "open"
    /\ inbox # <<>>
    /\ inbox' = Tail(inbox)
    /\ latest' = Head(inbox)
    /\ shown' = Head(inbox)
    /\ MaybeAutoConnect(Head(inbox), autoConnect)
    /\ MaybeAutoDisconnect(Head(inbox), mirror)
    /\ UNCHANGED <<mirror, explicit, resolution, saw, chain, connecting,
                   local, autoConnect, storage, events, node, decided,
                   lost, budget>>
-----------------------------------------------------------------------------
(* Lifecycle events.                                                       *)

\* handleBrowserStartup(): clear the persisted copy; a resolution that
\* restored it was wrong, unless the user has decided since.
RederivesPref ==
    /\ resolution.usedRecovery
    /\ ~explicit
    /\ mirror # resolution.pref
HandleBrowserStartup ==
    /\ "startup" \in events
    /\ events' = events \ {"startup"}
    /\ saw' = saw \cup {"startup"}
    /\ IF RederivesPref
       THEN /\ mirror' = resolution.pref
            /\ chain' = chain \o <<Job("clearPersisted"), Job("write")>>
            /\ IF latest # None THEN MaybeAutoDisconnect(latest, mirror')
                                ELSE NoCorrection /\ UNCHANGED reads
       ELSE /\ chain' = Append(chain, Job("clearPersisted"))
            /\ UNCHANGED mirror
            /\ NoCorrection
            /\ UNCHANGED reads
    /\ UNCHANGED <<explicit, resolution, connecting, local, autoConnect,
                   latest, shown, checks, storage, node, inbox, decided,
                   lost, budget>>

\* handleInstalled("update"): a resolution that fell back to the preference
\* gives way to a persisted decision to run.
RestoresRecoveredRun ==
    /\ resolution.usedRecovery
    /\ resolution.persisted = "up"
    /\ "startup" \notin saw
    /\ ~explicit
RestoresRun ==
    /\ ~resolution.usedRecovery
    /\ resolution.persisted = "up"
    /\ "startup" \notin saw
    /\ ~explicit
HandleInstalled ==
    /\ "update" \in events
    /\ events' = events \ {"update"}
    /\ saw' = saw \cup {"update"}
    /\ IF RestoresRun
       THEN /\ resolution' = [resolution EXCEPT !.usedRecovery = TRUE]
            /\ mirror' = "up"
            /\ chain' = Append(chain, Job("writeBoth"))
            /\ IF latest \in {None, "Stopped", "NoState"} THEN Sends("up")
                                               ELSE UNCHANGED toHost
       ELSE UNCHANGED <<resolution, mirror, chain, toHost>>
    /\ UNCHANGED <<explicit, attempted, connecting, local, autoConnect,
                   latest, shown, checks, reads, storage, node, inbox,
                   history>>

\* A fresh worker: everything in memory is gone, and the helper's port.
FreshWorker ==
    /\ mirror' = None
    /\ explicit' = FALSE
    /\ attempted' = FALSE
    /\ resolution' = NoResolution
    /\ saw' = {}
    /\ chain' = <<>>
    /\ connecting' = "off"
    /\ local' = NotRead
    /\ autoConnect' = None
    /\ latest' = None
    /\ shown' = "NoState"
    /\ checks' = [reading |-> 0, marking |-> 0]
    /\ reads' = 0
    /\ toHost' = <<>>
    /\ inbox' = <<>>
    /\ decided' = None
    /\ corrections' = 0

\* The browser stops an idle worker, never one it has an event for.
WorkerRestarts ==
    /\ events = {}
    /\ Spend
    /\ FreshWorker
    /\ lost' = ~(chain = <<>> /\ connecting = "open")
    /\ UNCHANGED <<storage, events, node>>

\* An update or a reload of the extension wipes storage.session; a browser
\* start does too, and may apply an update at the same time.
ExtensionUpdates ==
    /\ events = {}
    /\ Spend
    /\ FreshWorker
    /\ lost' = FALSE
    /\ session' = None
    /\ handled' = FALSE
    /\ events' = {"update"}
    /\ UNCHANGED <<persisted, pref, node>>
BrowserStarts ==
    /\ events = {}
    /\ Spend
    /\ FreshWorker
    /\ lost' = FALSE
    /\ session' = None
    /\ handled' = FALSE
    /\ events' \in {{"startup"}, {"startup", "update"}}
    /\ UNCHANGED <<persisted, pref, node>>
-----------------------------------------------------------------------------
(* The helper (external): commands in order, a status after each change.   *)

NodeAfter(cmd) ==
    IF cmd = "logout" THEN {"NeedsLogin"}
    ELSE IF cmd = "switch" THEN NodeStates
    ELSE IF node = "NeedsLogin"
    THEN {"NeedsLogin"} \cup (IF cmd = "login" THEN {"Running"} ELSE {})
    ELSE IF cmd = "up" THEN {"Running"}
    ELSE IF cmd = "down" THEN {"Stopped"}
    ELSE {node}
HostHandles ==
    /\ connecting = "open"
    /\ toHost # <<>>
    /\ toHost' = Tail(toHost)
    /\ node' \in NodeAfter(Head(toHost))
    /\ inbox' = Append(inbox, node')
    /\ UNCHANGED <<worker, storage, events, history>>
-----------------------------------------------------------------------------
\* The extension has just been installed or enabled: session storage is
\* empty, a decision of an earlier time may be persisted.
Init ==
    /\ mirror = None /\ explicit = FALSE /\ attempted = FALSE
    /\ resolution = NoResolution /\ saw = {} /\ chain = <<>>
    /\ connecting = "off"
    /\ local = NotRead
    /\ autoConnect = None /\ latest = None /\ shown = "NoState"
    /\ checks = [reading |-> 0, marking |-> 0]
    /\ reads = 0
    /\ session = None /\ handled = FALSE
    /\ persisted \in {None, "up"}
    /\ pref \in Decisions
    /\ events = {}
    /\ node = "Stopped" /\ toHost = <<>> /\ inbox = <<>>
    /\ decided = None /\ corrections = 0 /\ lost = FALSE
    /\ budget = MaxEvents

User == Toggle \/ ReleaseOrLogout \/ RequestLogin \/ SwitchProfile \/ SetPref
Connects == BeginConnect \/ ReadSessionIntent \/ ReadPrefs
            \/ FinishResolution \/ OpenPort
Automatic == AutoDisconnectReads \/ AutoConnectReads \/ AutoConnectGoesUp
             \/ HydratePref
Lifecycle == HandleBrowserStartup \/ HandleInstalled
Faults == ReadFails \/ ChainStepFails \/ PortDrops
          \/ WorkerRestarts \/ ExtensionUpdates \/ BrowserStarts
Answers == ChainStep \/ Connects \/ Automatic \/ ReceiveStatus \/ Lifecycle
           \/ HostHandles
Next == User \/ Answers \/ Faults

\* Storage, timers, the browser's events and the helper all answer in the
\* end.  Their steps cannot go on forever, so that fairness of the whole is
\* enough.
Fairness == WF_vars(Answers)

Spec == Init /\ [][Next]_vars /\ Fairness
-----------------------------------------------------------------------------
(* Properties.                                                             *)

Ops == {"write", "writeAwaited", "writeBoth", "persist", "clear",
        "clearPersisted"}
Stages == {"off", "session", "prefs", "startup", "ready", "open"}
Commands == {"up", "down", "logout", "login", "switch"}

\* Every variable has its type; the chain holds known jobs only.
TypeOK ==
    /\ {mirror, session, persisted, decided, autoConnect, pref}
         \subseteq Decisions \cup {None}
    /\ {explicit, attempted, handled, lost} \subseteq BOOLEAN
    /\ resolution.usedRecovery \in BOOLEAN
    /\ {saw, events} \subseteq SUBSET {"startup", "update"}
    /\ \A i \in DOMAIN chain : chain[i].op \in Ops
    /\ connecting \in Stages
    /\ latest \in BackendStates \cup {None}
    /\ shown \in BackendStates
    /\ node \in NodeStates
    /\ \A i \in DOMAIN toHost : toHost[i] \in Commands
    /\ \A i \in DOMAIN inbox : inbox[i] \in BackendStates

\* Once the write chain has drained, both stored copies hold the newest
\* decision and never an older one, however toggles, a profile switch, a
\* startup resolution and lifecycle events interleaved with the writes
\* (enqueueIntentWrite reads the mirror when its turn comes).
StoredIsNewest ==
    chain = <<>> /\ ~lost =>
      /\ mirror # None => session = mirror
      /\ decided # None => persisted \in {mirror, None}
      /\ explicit /\ mirror = None => session = None /\ persisted = None

\* A connection the user has asked for stays the worker's decision: no late
\* event, resolution or storage read turns it into a disconnect
\* ("never lag behind a click and yank down a node").
ConnectStands == decided = "up" => mirror = "up"

\* One corrective down per connection: the worker corrects an old helper,
\* it does not fight one (autoDisconnectAttempted).
OneCorrection == corrections <= 1

\* A running connection survives an update of the extension, even when
\* onInstalled is delivered after the startup resolution gave up on it;
\* unless the user decides, storage fails or the browser restarts.
UpdateRestoresRun ==
    (events = {"update"} /\ saw = {} /\ persisted = "up" /\ ~explicit)
      ~> (mirror = "up" \/ explicit \/ "startup" \in events \/ lost)

\* A node that is to stay down does not keep running: the hint or, with a
\* helper that ignores it, the corrective down brings it down, over lost
\* connections and restarts.  Excepted is a browser start that also updated
\* the extension and whose two events both came late: the correction of
\* this connection may then be spent.
StayDownHolds ==
    <>[](mirror = "down" /\ saw # {"startup", "update"})
      => []<>(node # "Running")
=============================================================================
