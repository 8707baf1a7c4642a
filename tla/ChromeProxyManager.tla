------------------------ MODULE ChromeProxyManager -------------------------
(***************************************************************************)
(* How a routing policy becomes Chrome's proxy setting                     *)
(* (packages/extension/src/background/chrome-proxy-manager.ts and          *)
(* chrome-proxy-auth.ts).                                                  *)
(*                                                                         *)
(* apply() and clear() only note what is wanted; flush() makes Chrome      *)
(* adopt it in a chain of callbacks: read the setting, set or clear it,    *)
(* read it back, and, the first time a helper session is used, install a   *)
(* temporary PAC that lets only the authentication probe through.  New     *)
(* policies, new sessions, errors of proxied requests and changes made by  *)
(* other extensions arrive between any two callbacks.                      *)
(***************************************************************************)
EXTENDS Naturals

CONSTANTS
    HelperPorts,   \* ports on which a helper's proxy listens
    Credentials,   \* user names and passwords of proxy sessions
    Routes,        \* what a PAC protects
    Null,
    Clear,         \* the key "clear": no setting of this extension
    Blocked        \* BLOCKED_PROXY_PORT: nothing listens there

ASSUME PortAssumption == Blocked \notin HelperPorts /\ Null \notin HelperPorts

\* What the manager may want: a PAC, or Clear. A PAC is its own key; the empty
\* key is Null.
PACs == [port: HelperPorts \cup {Blocked}, routes: Routes]
Keys == PACs \cup {Clear}

\* What Chrome may have been given: probe marks the temporary PAC.
Settings == [key: PACs, probe: BOOLEAN] \cup {Clear}

Sessions == [port: HelperPorts, credential: Credentials]
Healths == {"inactive", "active", "blocked", "conflicted", "unavailable"}
Steps == {"get", "set", "verify", "probe"}

VARIABLES
    desired,       \* desiredKey, and with it desired and desiredHealth
    appliedKey, errorKey,
    authRoutingPending,
    inFlight,      \* the flush() under way, or Null
    session,       \* ChromeProxyAuth: the helper's credentials
    readyPort,     \* ChromeProxyAuth: the port whose probe has succeeded
    health,        \* what was reported last
    setting,       \* Chrome: the setting of this extension
    other,         \* Chrome: another extension or a policy is in control
    changes,       \* Chrome: onChange events on their way
    failing        \* Chrome: an onProxyError event is on its way

auth == <<session, readyPort>>
browser == <<setting, other, changes, failing>>
vars == <<desired, appliedKey, errorKey, authRoutingPending, inFlight, auth,
          health, browser>>

\* A flush() remembers its key and whether it installs the temporary PAC.
\* The flags tell whether sessionEpoch moved since it began, changeEpoch
\* since it last read the setting back, and the session since the probe began.
Flights == [key: Keys, warming: BOOLEAN, step: Steps,
            sessionMoved: BOOLEAN, changed: BOOLEAN, aborted: BOOLEAN]

\* Null and Clear are told apart from everything they stand beside.
ASSUME SentinelAssumption ==
    /\ Null \notin Keys \cup Sessions \cup Flights
    /\ Clear \notin PACs \cup [key: PACs, probe: BOOLEAN]

-----------------------------------------------------------------------------
IsActive(key) == key # Clear /\ key.port # Blocked

HealthOf(key) ==
    IF key = Clear THEN "inactive" ELSE IF IsActive(key) THEN "active" ELSE "blocked"

HasSession(port) == session # Null /\ session.port = port
IsReadyFor(port) == readyPort = port /\ HasSession(port)

\* The setting that a flush() asks for.
ValueAlwaysPAC(flight) == [key |-> flight.key, probe |-> flight.warming]
Value(flight) ==
    IF flight.key = Clear THEN Clear
    ELSE [key |-> flight.key, probe |-> flight.warming]

\* The helper session on the PAC's port still needs its probe.
WarmingNever(key) == FALSE
Warming(key) ==
    /\ IsActive(key)
    /\ ~(readyPort' = key.port /\ session' # Null /\ session'.port = key.port)

NewFlight(key) ==
    [key |-> key, warming |-> Warming(key), step |-> "get",
     sessionMoved |-> FALSE, changed |-> FALSE, aborted |-> FALSE]

Begin(key, pending) ==
    /\ inFlight' = NewFlight(key)
    /\ authRoutingPending' = (pending \/ Warming(key))

\* flush(), called with inFlight false and these desiredKey, appliedKey,
\* errorKey and authRoutingPending. session' and readyPort' are known by then.
Flush(key, applied, error, pending) ==
    IF key = Null \/ error = key
    THEN inFlight' = Null /\ authRoutingPending' = pending /\ UNCHANGED health
    ELSE IF applied = key
    THEN inFlight' = Null /\ authRoutingPending' = pending /\ health' = HealthOf(key)
    ELSE Begin(key, pending) /\ UNCHANGED health

\* flush() returns at once while another one is under way.
FlushUnlessInFlight(key, applied, error) ==
    IF inFlight # Null
    THEN UNCHANGED <<inFlight, health, authRoutingPending>>
    ELSE Flush(key, applied, error, authRoutingPending)

\* fail(): report, and start over only if something else is wanted by now.
Fail(status) ==
    /\ appliedKey' = Null
    /\ health' = status
    /\ IF desired \in {inFlight.key, errorKey}
       THEN inFlight' = Null /\ UNCHANGED authRoutingPending
       ELSE Begin(desired, authRoutingPending)

-----------------------------------------------------------------------------
Init ==
    /\ desired = Null /\ appliedKey = Null /\ errorKey = Null
    /\ authRoutingPending = FALSE
    /\ inFlight = Null
    /\ session = Null /\ readyPort = Null
    /\ health = "inactive"
    /\ setting \in {Clear} \cup [key: PACs, probe: {FALSE}]   \* of an earlier worker
    /\ other = FALSE
    /\ changes = 0 /\ failing = FALSE

\* apply() of a policy: in mode "direct" (port Null), "blocked" (port Blocked)
\* or "active"; without a session for its port, active is as good as blocked.
Wanted(port, routes, s) ==
    IF port = Null THEN Clear
    ELSE [port |-> IF s # Null /\ s.port = port THEN port ELSE Blocked,
          routes |-> routes]

Apply(port, routes) ==
    /\ UNCHANGED <<appliedKey, auth, browser>>
    /\ desired' = Wanted(port, routes, session)
    /\ errorKey' = IF desired' = desired THEN errorKey ELSE Null
    /\ FlushUnlessInFlight(desired', appliedKey, errorKey')

\* The helper starts or ends: setProxySession(), and in the same handler a
\* store update that applies the policy. A new session needs its own probe;
\* the credentials that are known already change nothing.
SetProxySession(s, port, routes) ==
    /\ s # session
    /\ session' = s /\ readyPort' = Null
    /\ appliedKey' = Null /\ errorKey' = Null
    /\ desired' = Wanted(port, routes, s)
    /\ IF inFlight = Null
       THEN Flush(desired', Null, Null, authRoutingPending)
       ELSE /\ inFlight' = [inFlight EXCEPT !.sessionMoved = TRUE, !.aborted = TRUE]
            /\ UNCHANGED <<authRoutingPending, health>>
    /\ UNCHANGED browser

\* The helper could not be started once more: setProxySession(null) again, but
\* the store sees no change, and nothing is applied.
SetNoSessionAgain ==
    /\ session = Null
    /\ appliedKey' = Null /\ errorKey' = Null
    /\ inFlight' = IF inFlight = Null THEN Null
                   ELSE [inFlight EXCEPT !.sessionMoved = TRUE, !.aborted = TRUE]
    /\ UNCHANGED <<desired, authRoutingPending, auth, health, browser>>

-----------------------------------------------------------------------------
(* The callbacks of a flush(). err: chrome.runtime.lastError is set. *)

At(step) == inFlight # Null /\ inFlight.step = step

\* The setting has been read.
GetReturned(err) ==
    /\ At("get")
    /\ UNCHANGED <<desired, errorKey, auth, browser>>
    /\ LET conflicted == other /\ inFlight.key # Clear
       IN \/ /\ inFlight.key # desired
             /\ UNCHANGED appliedKey
             /\ Flush(desired, appliedKey, errorKey, authRoutingPending)
          \/ /\ inFlight.key = desired /\ (err \/ conflicted)
             /\ Fail(IF err THEN "unavailable" ELSE "conflicted")
          \/ /\ inFlight.key = desired /\ ~err /\ ~conflicted
             /\ inFlight' = [inFlight EXCEPT !.step = "set"]
             /\ UNCHANGED <<appliedKey, authRoutingPending, health>>

\* Chrome has adopted the setting; listeners are told of an effective change.
SetDone ==
    /\ At("set")
    /\ setting' = Value(inFlight)
    /\ changes' = IF setting' = setting \/ other THEN changes ELSE changes + 1
    /\ inFlight' = [inFlight EXCEPT !.step = "verify", !.changed = FALSE]
    /\ UNCHANGED <<desired, appliedKey, errorKey, authRoutingPending, auth,
                   health, other, failing>>

SetFailed ==
    /\ At("set")
    /\ UNCHANGED <<desired, errorKey, auth, browser>>
    /\ Fail("unavailable")

\* The wanted setting is in place: report it, or go on to what is wanted now.
FinishAnyway ==
    /\ appliedKey' = inFlight.key
    /\ inFlight' = Null
    /\ health' = HealthOf(inFlight.key)
    /\ authRoutingPending' = FALSE
Finish ==
    /\ appliedKey' = inFlight.key
    /\ IF inFlight.key = desired
       THEN /\ inFlight' = Null
            /\ health' = HealthOf(desired)
            /\ authRoutingPending' = FALSE
       ELSE Flush(desired, inFlight.key, errorKey, FALSE)

\* The setting has been read back; it is read again after a change.
Verified(err) ==
    /\ At("verify")
    /\ UNCHANGED <<desired, errorKey, auth, browser>>
    /\ LET mine == inFlight.key = Clear \/ (~other /\ setting = Value(inFlight))
       IN \/ /\ inFlight.changed
             /\ inFlight' = [inFlight EXCEPT !.changed = FALSE]
             /\ UNCHANGED <<appliedKey, health, authRoutingPending>>
          \/ /\ ~inFlight.changed /\ (err \/ ~mine)
             /\ Fail(IF err THEN "unavailable" ELSE "conflicted")
          \/ /\ ~inFlight.changed /\ ~err /\ mine /\ inFlight.warming
             /\ health' = IF inFlight.key = desired THEN "blocked" ELSE health
             /\ inFlight' = [inFlight EXCEPT !.step = "probe", !.aborted = FALSE]
             /\ UNCHANGED <<appliedKey, authRoutingPending>>
          \/ /\ ~inFlight.changed /\ ~err /\ mine /\ ~inFlight.warming
             /\ Finish

\* prepare() resolves: the probe was answered, and nothing aborted it.
ProbeAnsweredApplied ==
    /\ At("probe") /\ ~inFlight.aborted
    /\ HasSession(inFlight.key.port)
    /\ readyPort' = inFlight.key.port
    /\ appliedKey' = inFlight.key
    /\ UNCHANGED <<desired, errorKey, session, browser>>
    /\ Flush(desired, appliedKey', errorKey, authRoutingPending)
ProbeAnswered ==
    /\ At("probe") /\ ~inFlight.aborted
    /\ HasSession(inFlight.key.port)
    /\ readyPort' = inFlight.key.port
    /\ UNCHANGED <<desired, appliedKey, errorKey, session, browser>>
    /\ Flush(desired, appliedKey, errorKey, authRoutingPending)

\* prepare() rejects: no session, aborted, timed out, or not accepted.
ProbeRejectedRetries ==
    /\ At("probe")
    /\ UNCHANGED <<desired, appliedKey, errorKey, auth, browser>>
    /\ Flush(desired, appliedKey, errorKey, authRoutingPending)
ProbeRejected ==
    /\ At("probe")
    /\ UNCHANGED <<desired, auth, browser>>
    /\ IF inFlight.key # desired \/ inFlight.sessionMoved
       THEN /\ UNCHANGED <<appliedKey, errorKey>>
            /\ Flush(desired, appliedKey, errorKey, authRoutingPending)
       ELSE errorKey' = inFlight.key /\ Fail("unavailable")

-----------------------------------------------------------------------------
(* Events of the browser *)

\* The constructor's onChange listener.
ChangeEvent ==
    /\ changes > 0 /\ changes' = changes - 1
    /\ UNCHANGED <<desired, errorKey, auth, setting, other, failing>>
    /\ \/ /\ inFlight # Null
          /\ inFlight' = [inFlight EXCEPT !.changed = TRUE]
          /\ UNCHANGED <<appliedKey, health, authRoutingPending>>
       \/ /\ inFlight = Null /\ desired \in {Null, Clear}
          /\ UNCHANGED <<inFlight, appliedKey, health, authRoutingPending>>
       \/ /\ inFlight = Null /\ desired \in PACs /\ other
          /\ appliedKey' = Null /\ health' = "conflicted"
          /\ \/ UNCHANGED <<inFlight, authRoutingPending>>
             \/ /\ errorKey # desired     \* the report is news and is applied
                /\ Begin(desired, authRoutingPending)
       \/ /\ inFlight = Null /\ desired \in PACs /\ ~other
          /\ appliedKey' = IF setting = [key |-> desired, probe |-> FALSE]
                           THEN appliedKey ELSE Null
          /\ Flush(desired, appliedKey', errorKey, authRoutingPending)

\* A request that the PAC sent to a proxy fails.
RequestFails ==
    /\ setting # Clear /\ ~other
    /\ failing' = TRUE
    /\ UNCHANGED <<desired, appliedKey, errorKey, authRoutingPending, inFlight,
                   auth, health, setting, other, changes>>

\* The constructor's onProxyError listener. Failed CONNECT requests, and
\* failed connections while the temporary PAC may be in place, are ignored.
ProxyError(error, fatal) ==
    /\ failing /\ failing' = FALSE
    /\ IF \/ desired \in {Null, Clear}
          \/ fatal /\ error = "TUNNEL_CONNECTION_FAILED"
          \/ fatal /\ error = "PROXY_CONNECTION_FAILED" /\ authRoutingPending
       THEN UNCHANGED <<appliedKey, errorKey, health>>
       ELSE /\ errorKey' = desired
            /\ appliedKey' = Null
            /\ health' = IF fatal THEN "blocked" ELSE "unavailable"
    /\ UNCHANGED <<desired, authRoutingPending, inFlight, auth, setting, other,
                   changes>>

\* Another extension or a policy takes or gives up control.
ControlChanges ==
    /\ other' = ~other
    /\ changes' = changes + 1
    /\ UNCHANGED <<desired, appliedKey, errorKey, authRoutingPending, inFlight,
                   auth, health, setting, failing>>

-----------------------------------------------------------------------------
Callbacks ==
    \/ GetReturned(FALSE) \/ SetDone \/ Verified(FALSE)
    \/ ProbeAnswered \/ ProbeRejected
    \/ ChangeEvent
    \/ \E error \in {"PROXY_CONNECTION_FAILED", "TUNNEL_CONNECTION_FAILED"},
          fatal \in BOOLEAN : ProxyError(error, fatal)

Environment ==
    \/ \E port \in HelperPorts \cup {Blocked, Null}, routes \in Routes :
          \/ Apply(port, routes)
          \/ \E s \in Sessions \cup {Null} : SetProxySession(s, port, routes)
    \/ SetNoSessionAgain
    \/ RequestFails
    \/ ControlChanges

Failures == GetReturned(TRUE) \/ SetFailed \/ Verified(TRUE)

Next == Callbacks \/ Environment \/ Failures

Spec == Init /\ [][Next]_vars

-----------------------------------------------------------------------------
(* Properties *)

TypeOK ==
    /\ desired \in Keys \cup {Null}
    /\ appliedKey \in Keys \cup {Null} /\ errorKey \in Keys \cup {Null}
    /\ authRoutingPending \in BOOLEAN
    /\ inFlight \in Flights \cup {Null}
    /\ session \in Sessions \cup {Null}
    /\ readyPort \in HelperPorts \cup {Null}
    /\ health \in Healths
    /\ setting \in Settings
    /\ other \in BOOLEAN /\ changes \in Nat /\ failing \in BOOLEAN

\* Every callback and event has been handled.
Quiet == inFlight = Null /\ changes = 0 /\ ~failing

\* "active" is a true report, unless somebody else controls the setting: the
\* PAC in place is the one wanted now, not an earlier or the temporary one.
ActiveIsEffective ==
    (Quiet /\ health = "active" /\ ~other) =>
        desired \in PACs /\ setting = [key |-> desired, probe |-> FALSE]

\* Routes are enabled only for a helper session whose probe has succeeded
\* (chrome-proxy-auth.ts:39, "Populate its proxy auth cache with our own
\* request before enabling protected routes").
ActiveIsAuthenticated ==
    (Quiet /\ appliedKey = desired /\ desired \in PACs /\ IsActive(desired)) =>
        IsReadyFor(desired.port)
=============================================================================
