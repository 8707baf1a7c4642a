----------------------- MODULE NativeHostConnection ------------------------
(***************************************************************************)
(* The extension's connection to the helper                                *)
(* (packages/shared/src/background/native-host.ts, NativeHostConnection),  *)
(* with the timer that reconnects and what the background worker shows of  *)
(* the connection.                                                         *)
(*                                                                         *)
(* Opening a port starts a helper process; closing it ends the process.    *)
(* connect() awaits the profile ID and then the wantRunning decision, so   *)
(* that ports may drop, timers fire and callers ask again in between.      *)
(***************************************************************************)
EXTENDS Naturals, FiniteSets

CONSTANTS
    Ports,    \* identities of port objects; bound: ports known at any one time
    Null,
    RECONNECT_BASE_MS,
    RECONNECT_MAX_MS

ASSUME PortsAssumption == Null \notin Ports
ASSUME DelayAssumption ==
    /\ RECONNECT_BASE_MS \in Nat \ {0}
    /\ RECONNECT_MAX_MS \in Nat
    /\ RECONNECT_BASE_MS <= RECONNECT_MAX_MS

Stages == {"profile", "wantRunning"}   \* the two awaits of performConnect()

VARIABLES
    port, reconnectDelay, intentionalDisconnect, hasReceivedValidMessage,
    attempts,       \* performConnect() calls that wait, per stage
    timer,          \* the "reconnect" timer is set
    open,           \* ports that neither side has closed: running helpers
    lingering,      \* ports closed here whose queued events may still arrive
    hostConnected   \* what the background worker believes (state.hostConnected)

vars == <<port, reconnectDelay, intentionalDisconnect, hasReceivedValidMessage,
          attempts, timer, open, lingering, hostConnected>>

-----------------------------------------------------------------------------
Connecting == \E stage \in Stages : attempts[stage] > 0   \* connectPromise

Advance(from, to) ==
    attempts' = [stage \in Stages |->
                   IF stage = from THEN attempts[stage] - 1
                   ELSE IF stage = to THEN attempts[stage] + 1
                   ELSE attempts[stage]]

\* disconnect() of the port that was there, if any; it ends that helper.
ClosePortKeepsHealth ==
    /\ port' = Null
    /\ open' = open \ {port}
    /\ lingering' = lingering \cup ({port} \ {Null})
    /\ UNCHANGED hasReceivedValidMessage
ClosePort ==
    /\ port' = Null
    /\ open' = open \ {port}
    /\ lingering' = lingering \cup ({port} \ {Null})
    /\ hasReceivedValidMessage' = FALSE

\* backoffAndReconnect(): (re)set the timer and double the next delay.
BackoffUncapped ==
    /\ timer' = TRUE
    /\ reconnectDelay' = 2 * reconnectDelay
BackoffAndReconnect ==
    /\ timer' = TRUE
    /\ reconnectDelay' = IF 2 * reconnectDelay < RECONNECT_MAX_MS
                         THEN 2 * reconnectDelay ELSE RECONNECT_MAX_MS

\* handleStartFailure(): the worker is told, and a new attempt is scheduled.
HandleStartFailureOnce ==
    /\ hostConnected' = FALSE
    /\ UNCHANGED <<timer, reconnectDelay>>
HandleStartFailure == hostConnected' = FALSE /\ BackoffAndReconnect

\* connect(): a call while another one waits joins that one.
StartAlways ==
    /\ attempts' = [attempts EXCEPT !["profile"] = @ + 1]
    /\ intentionalDisconnect' = FALSE
StartOrJoin ==
    IF Connecting
    THEN UNCHANGED <<attempts, intentionalDisconnect>>
    ELSE /\ attempts' = [attempts EXCEPT !["profile"] = 1]
         /\ intentionalDisconnect' = FALSE

Init ==    \* once the worker has made its first connect()
    /\ port = Null
    /\ reconnectDelay = RECONNECT_BASE_MS
    /\ intentionalDisconnect = FALSE
    /\ hasReceivedValidMessage = FALSE
    /\ attempts = [stage \in Stages |-> IF stage = "profile" THEN 1 ELSE 0]
    /\ timer = FALSE
    /\ open = {} /\ lingering = {}
    /\ hostConnected = FALSE

-----------------------------------------------------------------------------
\* A caller's connect(): the retries after an installation, or a retry that
\* the user asked for.
RequestConnect ==
    /\ StartOrJoin
    /\ timer' = (timer /\ Connecting)   \* performConnect() clears it
    /\ UNCHANGED <<port, reconnectDelay, hasReceivedValidMessage, open,
                   lingering, hostConnected>>

\* The timer service forgets the timer, then runs the callback: connect().
TimerFires ==
    /\ timer /\ timer' = FALSE
    /\ StartOrJoin
    /\ UNCHANGED <<port, reconnectDelay, hasReceivedValidMessage, open,
                   lingering, hostConnected>>

\* getOrCreateProfileID() answers; the previous port is closed only now.
ProfileRead ==
    /\ attempts["profile"] > 0
    /\ Advance("profile", "wantRunning")
    /\ ClosePort
    /\ UNCHANGED <<reconnectDelay, intentionalDisconnect, timer, hostConnected>>

\* It fails: the previous port stays as it is.
ProfileReadFailed ==
    /\ attempts["profile"] > 0
    /\ Advance("profile", "done")
    /\ HandleStartFailure
    /\ UNCHANGED <<port, intentionalDisconnect, hasReceivedValidMessage,
                   open, lingering>>

\* getWantRunning() has settled, connectNative() returns a port, and init is
\* sent on it.
PortOpened ==
    /\ attempts["wantRunning"] > 0
    /\ Advance("wantRunning", "done")
    /\ \E p \in Ports \ (open \cup lingering) :
         port' = p /\ open' = open \cup {p}
    /\ UNCHANGED <<reconnectDelay, intentionalDisconnect,
                   hasReceivedValidMessage, timer, lingering, hostConnected>>

\* connectNative() throws, or sending init does and the port is closed again.
OpenFailed ==
    /\ attempts["wantRunning"] > 0
    /\ Advance("wantRunning", "done")
    /\ \/ UNCHANGED <<port, lingering>>
       \/ /\ port' = Null
          /\ \E p \in Ports \ (open \cup lingering) :
               lingering' = lingering \cup {p}
    /\ HandleStartFailure
    /\ UNCHANGED <<intentionalDisconnect, hasReceivedValidMessage, open>>

\* disconnect(). A connect() that waits is not cancelled.
Disconnect ==
    /\ ClosePort
    /\ intentionalDisconnect' = TRUE
    /\ timer' = FALSE
    /\ hostConnected' = FALSE
    /\ UNCHANGED <<reconnectDelay, attempts>>

\* handleMessage() of a valid reply.
HandleMessageOfAnyPort(p) ==
    /\ p \in open \cup lingering
    /\ reconnectDelay' = RECONNECT_BASE_MS
    /\ hasReceivedValidMessage' = TRUE
    /\ hostConnected' = (hostConnected \/ ~hasReceivedValidMessage)
    /\ UNCHANGED <<port, intentionalDisconnect, attempts, timer, open, lingering>>
HandleMessage(p) ==
    /\ p \in open \cup lingering
    /\ IF p # port
       THEN UNCHANGED <<reconnectDelay, hasReceivedValidMessage, hostConnected>>
       ELSE /\ reconnectDelay' = RECONNECT_BASE_MS
            /\ hasReceivedValidMessage' = TRUE
            /\ hostConnected' = (hostConnected \/ ~hasReceivedValidMessage)
    /\ UNCHANGED <<port, intentionalDisconnect, attempts, timer, open, lingering>>

\* handleDisconnect(): the helper has ended, or could not be started.
HandleDisconnect(p) ==
    /\ p \in open \cup lingering
    /\ open' = open \ {p} /\ lingering' = lingering \ {p}
    /\ IF p # port
       THEN UNCHANGED <<port, hasReceivedValidMessage>>
       ELSE port' = Null /\ hasReceivedValidMessage' = FALSE
    /\ IF p # port \/ intentionalDisconnect
       THEN UNCHANGED <<hostConnected, timer, reconnectDelay>>
       ELSE hostConnected' = FALSE /\ BackoffAndReconnect
    /\ UNCHANGED <<intentionalDisconnect, attempts>>

\* The queue of events of a port closed here has run dry.
Forgotten(p) ==
    /\ p \in lingering
    /\ lingering' = lingering \ {p}
    /\ UNCHANGED <<port, reconnectDelay, intentionalDisconnect,
                   hasReceivedValidMessage, attempts, timer, open, hostConnected>>

-----------------------------------------------------------------------------
\* What the browser and a working helper keep doing.
Progress ==
    \/ TimerFires
    \/ ProfileRead
    \/ PortOpened
    \/ \E p \in Ports : HandleMessage(p) \/ Forgotten(p)

\* What may go wrong, or be asked for.
Trouble ==
    \/ RequestConnect
    \/ ProfileReadFailed
    \/ OpenFailed
    \/ Disconnect
    \/ \E p \in Ports : HandleDisconnect(p)

Next == Progress \/ Trouble

Spec == Init /\ [][Next]_vars

-----------------------------------------------------------------------------
(* Properties *)

TypeOK ==
    /\ port \in Ports \cup {Null}
    /\ reconnectDelay \in RECONNECT_BASE_MS .. RECONNECT_MAX_MS
    /\ intentionalDisconnect \in BOOLEAN
    /\ hasReceivedValidMessage \in BOOLEAN
    /\ attempts \in [Stages -> Nat]
    /\ timer \in BOOLEAN
    /\ open \subseteq Ports /\ lingering \subseteq Ports
    /\ hostConnected \in BOOLEAN

\* No helper process is left behind: the only running helper is the one of
\* the current port, in whatever order callers, timers, failures and events
\* of earlier ports come (native-host.ts:79, "connect() is serialized, so
\* another caller cannot create a second live port here").
OneHelper == open \subseteq {port}

\* The extension never waits for something that will not come: unless
\* disconnect() was called, a worker without a port, or one that hears a
\* helper it believes to be gone, is connecting or has its timer set.
NeverStranded ==
    (~intentionalDisconnect /\ ~hostConnected
       /\ (port = Null \/ hasReceivedValidMessage)) =>
        timer \/ Connecting

\* What counts as a healthy connection is one: a message of a port that has
\* been replaced never speaks for the port that replaced it.
HealthyHasPort == hasReceivedValidMessage => port \in open
=============================================================================
