------------------------------ MODULE Accounts ------------------------------
(***************************************************************************)
(* Accounts: which profile the extension shows, the switcher that changes  *)
(* it, and the login that gives a profile its identity (background.ts:     *)
(* profile refresh, requestLogin, the login URL of a status, the health    *)
(* listener, the account commands of handlePopupMessage; popup/views/      *)
(* profiles.ts, needs-login.ts; host/profiles.go as the environment).      *)
(*                                                                         *)
(* The extension learns the profiles only from replies to list-profiles,   *)
(* sent by itself or by the helper after a command; the backend state      *)
(* arrives in status messages of their own.  Both travel in order on one   *)
(* port, which may drop.  Routing is reduced to its policy and to whether  *)
(* the browser has applied it: RoutingProtection and ChromeProxyManager    *)
(* have the rest.                                                          *)
(***************************************************************************)
EXTENDS ProfileSwitcher, Integers, Sequences

CONSTANTS
    Profiles,     \* ids that profiles can get
    Saved,        \* profiles the helper has at first
    Delays,       \* PROFILE_REFRESH_RETRY_DELAYS_MS.length
    MaxUser,      \* bound: commands of the user
    MaxFaults,    \* bound: errors of the helper, dropped ports, failed sends
    MaxOutbox     \* bound: replies unread when the helper sends a status

ASSUME DelaysAssumption == Delays \in Nat
ASSUME IdentityAssumption ==
    /\ NoIdentity \notin Profiles /\ IsFiniteSet(Profiles)
    /\ Saved # {} /\ Saved \subseteq Profiles
ASSUME BoundsAssumption == {MaxUser, MaxFaults, MaxOutbox} \subseteq Nat

VARIABLES
    host,         \* the helper: [current, profiles, backend, moved, used]
    statusDue,    \* it has something to report
    inbox, outbox,               \* the two directions of the port
    connected, backendState,     \* of the store
    currentProfile, profiles, helperDiagnostic,
    browseToURL,  \* the login URL known, "" if it is not one to be opened
    refresh,      \* [needed, inFlight, index, timer, latest], and as history
                  \* forgot: a switch has dropped a refresh that was needed
    login,        \* [open, routing, pending]: pendingLoginOpen,
                  \* pendingLoginRouting, routing.isLoginPending()
    owed,         \* history: accepted logins less the ones that have ended
    route, proxy, \* the policy; what the browser has made of it
    session,      \* the switcher
    budget

helper == <<host, statusDue>>
store == <<connected, backendState, currentProfile, profiles,
           helperDiagnostic, browseToURL>>
loginVars == <<login, owed, route, proxy>>
vars == <<helper, inbox, outbox, store, refresh, loginVars, session, budget>>

Diagnostics == {None, "switch-profile", "delete-profile", "list-profiles",
                "new-profile", "login"}
\* What a status has of a login URL: none or one of the server used before,
\* one that isValidLoginURL() accepts, one that it rejects.
Urls == {"", "valid", "invalid"}

Cmd(type, id) == [type |-> type, id |-> id]
List == Cmd("list-profiles", NoIdentity)
ProfilesReply(h) == [kind |-> "profiles", current |-> h.current,
                     profiles |-> h.profiles]
ErrorReply(type) == [kind |-> "error", cmd |-> type]

PopupState == [up |-> connected, current |-> currentProfile,
               profiles |-> profiles, diag |-> helperDiagnostic]
Spend(what) == /\ budget[what] > 0
               /\ budget' = [budget EXCEPT ![what] = @ - 1]
-----------------------------------------------------------------------------
(* Profile refresh.                                                        *)

ResetRetry(r) == [r EXCEPT !.index = 0, !.timer = FALSE]
MarkNeeded(r) == [ResetRetry(r) EXCEPT !.needed = TRUE]
ScheduleNone(r) == r
ScheduleOneTooMany(r) ==
    IF r.latest # "Running" \/ r.inFlight \/ ~r.needed \/ r.index > Delays
    THEN r ELSE [r EXCEPT !.index = @ + 1, !.timer = TRUE]
ScheduleRetry(r) ==
    IF r.latest # "Running" \/ r.inFlight \/ ~r.needed \/ r.index >= Delays
    THEN r ELSE [r EXCEPT !.index = @ + 1, !.timer = TRUE]

\* requestProfiles(), where send() answers sent.
Request(r, sent) ==
    LET asked == [r EXCEPT !.timer = FALSE, !.inFlight = sent]
    IN  IF sent THEN [asked EXCEPT !.needed = @ /\ r.latest # "Running",
                                   !.forgot = FALSE]
                ELSE ScheduleRetry([asked EXCEPT !.needed = TRUE])

\* The send succeeds, or it fails.
RequestProfiles(r) ==
    \/ /\ refresh' = Request(r, TRUE)
       /\ inbox' = Append(inbox, List)
       /\ UNCHANGED budget
    \/ refresh' = Request(r, FALSE) /\ Spend("faults") /\ UNCHANGED inbox
NoRequest(r) == refresh' = r /\ UNCHANGED <<inbox, budget>>

RetryFires ==
    /\ refresh.timer
    /\ LET r == [refresh EXCEPT !.timer = FALSE]
       IN  IF r.latest = "Running" /\ r.needed /\ ~r.inFlight
           THEN RequestProfiles(r) ELSE NoRequest(r)
    /\ UNCHANGED <<helper, outbox, store, loginVars, session>>

\* The part of the status handler that looks after the profiles.
RefreshOnStatus(r, status) ==
    LET seen == IF status.backend = "NeedsLogin"
                THEN [(IF r.latest = "NeedsLogin" THEN r ELSE ResetRetry(r))
                        EXCEPT !.needed = TRUE]
                ELSE r
        known == [seen EXCEPT !.latest = status.backend]
    IN  IF status.moved THEN MarkNeeded(known) ELSE known

\* msg.profiles: a reply to a request made before the login does not meet a
\* refresh that the login needs.
AfterAnyProfiles(r, current) ==
    [r EXCEPT !.inFlight = FALSE, !.needed = current = NoIdentity]
AfterProfiles(r, current) ==
    [r EXCEPT !.inFlight = FALSE,
              !.needed = @ \/ current = NoIdentity \/ r.latest = "NeedsLogin"]
AsksAgain(r) == r.needed /\ r.latest = "Running"
ReceiveProfiles ==
    LET msg == Head(outbox)
        r == AfterProfiles(refresh, msg.current)
    IN  /\ outbox # <<>>
        /\ msg.kind = "profiles"
        /\ outbox' = Tail(outbox)
        /\ currentProfile' = msg.current
        /\ profiles' = msg.profiles
        /\ IF AsksAgain(refresh) THEN RequestProfiles(ResetRetry(r))
           ELSE NoRequest(IF r.needed THEN ScheduleRetry(r) ELSE ResetRetry(r))
        /\ UNCHANGED <<helper, connected, backendState, helperDiagnostic,
                       browseToURL, loginVars>>
        /\ session' = Rendered(session, PopupState')
-----------------------------------------------------------------------------
(* Login.                                                                  *)

\* requestLogin(): a URL that is known is opened, else the helper is asked.
\* It may not support that, or not be reached, which the user is told.
RequestLogin(waiting, owing, left) ==
    \/ /\ browseToURL = "valid"
       /\ login' = waiting /\ owed' = owing - 1
       /\ budget' = left /\ UNCHANGED inbox
    \/ /\ browseToURL # "valid"
       /\ login' = [waiting EXCEPT !.open = TRUE] /\ owed' = owing
       /\ inbox' = Append(inbox, Cmd("login", NoIdentity))
       /\ budget' = left
    \/ /\ browseToURL # "valid"
       /\ left.faults > 0
       /\ login' = [waiting EXCEPT !.open = FALSE] /\ owed' = owing - 1
       /\ budget' = [left EXCEPT !.faults = @ - 1]
       /\ UNCHANGED inbox

\* The health listener: the browser reports what it has made of the policy.
LoginMayGoOn(health) ==
    ~login.pending \/ (health = "inactive" /\ route = "direct")
Report(health) ==
    LET free == [login EXCEPT !.routing = FALSE]
        ends == login.routing /\ LoginMayGoOn(health)
    IN  IF ends /\ login.pending /\ backendState = "NeedsLogin"
        THEN RequestLogin(free, owed, budget)
        ELSE /\ login' = IF ends THEN free ELSE login
             /\ owed' = IF ends THEN owed - 1 ELSE owed
             /\ UNCHANGED <<inbox, budget>>
ProxyAnswers ==
    /\ proxy = "busy"
    /\ proxy' = IF route = "direct" THEN "clear" ELSE "set"
    /\ Report(IF route = "direct" THEN "inactive" ELSE "active")
    /\ UNCHANGED <<helper, outbox, store, refresh, route, session>>
ProxyFails ==
    /\ proxy = "busy"
    /\ proxy' = "failed"
    /\ login.routing => login.pending   \* else as ProxyAnswers
    /\ Spend("faults")
    /\ UNCHANGED <<helper, inbox, outbox, store, refresh, login, owed, route,
                   session>>

\* proxyManager.apply() of a policy: nothing to do when it is in force, or
\* when the browser refused the same one before.
Applies(policy) ==
    /\ route' = policy
    /\ proxy' = IF policy # route THEN "busy" ELSE proxy

\* The popup's login button: "login", or "disconnect-and-login" while
\* routing is protected.
ClickLogin ==
    LET left == [budget EXCEPT !.user = @ - 1]
        waits == route = "protected" \/ (login.pending /\ proxy # "clear")
    IN  /\ backendState = "NeedsLogin"
        /\ ~login.open /\ ~login.routing
        /\ budget.user > 0
        /\ \/ /\ waits
              /\ login' = [login EXCEPT !.pending = TRUE, !.routing = TRUE]
              /\ owed' = owed + 1
              /\ Applies("direct")
              /\ budget' = left
              /\ UNCHANGED inbox
           \/ /\ ~waits
              /\ RequestLogin(login, owed + 1, left)
              /\ UNCHANGED <<route, proxy>>
        /\ UNCHANGED <<helper, outbox, store, refresh, session>>

\* The two timeouts, and what each tells the user.
LoginOpenTimesOut ==
    /\ login.open
    /\ login' = [login EXCEPT !.open = FALSE]
    /\ owed' = owed - 1
    /\ UNCHANGED <<helper, inbox, outbox, store, refresh, route, proxy, session,
                   budget>>
LoginRoutingTimesOut ==
    /\ login.routing
    /\ login' = [login EXCEPT !.routing = FALSE]
    /\ owed' = owed - 1
    /\ UNCHANGED <<helper, inbox, outbox, store, refresh, route, proxy, session,
                   budget>>

\* What a status does to a login that waits for its URL: open it, go on
\* waiting (no URL yet, or one of the server used before), or give up.
EndsLogin(status) ==
    \/ status.url \in {"valid", "invalid"}
    \/ status.url = "" /\ status.backend = "Running"
LoginStaysOpen(l, status) == l
LoginOnStatus(l, status) ==
    IF l.open /\ EndsLogin(status) THEN [l EXCEPT !.open = FALSE] ELSE l

ReceiveStatus ==
    LET msg == Head(outbox)
        r == RefreshOnStatus(refresh, msg)
        l == IF msg.backend = "Running"
             THEN [login EXCEPT !.pending = FALSE] ELSE login
    IN  /\ outbox # <<>>
        /\ msg.kind = "status"
        /\ outbox' = Tail(outbox)
        /\ backendState' = msg.backend
        /\ browseToURL' = IF msg.url = "valid" THEN msg.url ELSE ""
        /\ login' = LoginOnStatus(l, msg)
        /\ owed' = IF login.open /\ EndsLogin(msg) THEN owed - 1 ELSE owed
        /\ Applies(IF msg.backend = "Running" THEN "protected" ELSE route)
        /\ IF /\ msg.backend = "Running"
              /\ r.needed \/ currentProfile = NoIdentity
              /\ ~r.inFlight
           THEN RequestProfiles(r) ELSE NoRequest(r)
        /\ UNCHANGED <<helper, connected, currentProfile, profiles,
                       helperDiagnostic, session>>
-----------------------------------------------------------------------------
(* Errors of the helper, and the port.                                     *)

ReceiveError ==
    LET msg == Head(outbox)
        failed == [refresh EXCEPT !.needed = TRUE, !.inFlight = FALSE]
        ends == msg.cmd = "login" /\ login.open
    IN  /\ outbox # <<>>
        /\ msg.kind = "error"
        /\ outbox' = Tail(outbox)
        /\ helperDiagnostic' = msg.cmd
        /\ refresh' = IF msg.cmd = "list-profiles" THEN ScheduleRetry(failed)
                                                  ELSE refresh
        /\ login' = [login EXCEPT !.open = @ /\ ~ends]
        /\ owed' = IF ends THEN owed - 1 ELSE owed
        /\ UNCHANGED <<helper, inbox, connected, backendState, currentProfile,
                       profiles, browseToURL, route, proxy, budget>>
        /\ session' = Rendered(session, PopupState')

\* handleNativeConnectionEvent() of a port that drops, with everything on it.
RefreshOnDrop(r) == [ResetRetry(r) EXCEPT !.inFlight = FALSE]
PortDrops ==
    /\ connected
    /\ Spend("faults")
    /\ connected' = FALSE
    /\ backendState' = "NoState"
    /\ inbox' = <<>> /\ outbox' = <<>>
    /\ refresh' = RefreshOnDrop(refresh)
    /\ login' = [login EXCEPT !.open = FALSE]
    /\ owed' = IF login.open THEN owed - 1 ELSE owed
    /\ UNCHANGED <<helper, currentProfile, profiles, helperDiagnostic,
                   browseToURL, route, proxy>>
    /\ session' = Rendered(session, PopupState')

\* procRunning and init: the diagnostic is cleared, status and profiles are
\* asked for.
PortConnects ==
    /\ ~connected
    /\ connected' = TRUE
    /\ helperDiagnostic' = None
    /\ statusDue' = TRUE
    /\ RequestProfiles(refresh)
    /\ UNCHANGED <<host, outbox, backendState, currentProfile, profiles,
                   browseToURL, loginVars>>
    /\ session' = Rendered(session, PopupState')
-----------------------------------------------------------------------------
(* The account commands of the popup.                                      *)

\* routing.switchProfile(): browsing is blocked until the account is known.
SwitchesAccount ==
    /\ login' = [login EXCEPT !.pending = FALSE]
    /\ Applies("protected")
    /\ UNCHANGED owed
Sends(command) == inbox' = IF connected THEN Append(inbox, command) ELSE inbox

\* switch-profile: the reply to the switch lists the profiles.
RefreshOnSwitch(r) ==
    [ResetRetry(r) EXCEPT !.needed = FALSE, !.inFlight = FALSE,
                          !.forgot = @ \/ r.needed]
RunCommand(command) ==
    /\ CanRunCommand(session, PopupState)
    /\ command \in Offered(session, PopupState)
    /\ Spend("user")
    /\ session' = Begun(session, command, PopupState)
    /\ IF command.type = "switch-profile"
       THEN IF command.id = currentProfile
            THEN UNCHANGED <<inbox, refresh, loginVars>>
            ELSE /\ refresh' = RefreshOnSwitch(refresh)
                 /\ SwitchesAccount
                 /\ Sends(command)
       ELSE /\ IF command.id = currentProfile THEN SwitchesAccount
                                              ELSE UNCHANGED loginVars
            /\ Sends(command)
            /\ UNCHANGED refresh
    /\ UNCHANGED <<helper, outbox, store>>
NewProfile ==
    /\ CanRunCommand(session, PopupState)
    /\ Spend("user")
    /\ session' = Closed
    /\ refresh' = [MarkNeeded(refresh) EXCEPT !.inFlight = FALSE]
    /\ SwitchesAccount
    /\ Sends(Cmd("new-profile", NoIdentity))
    /\ UNCHANGED <<helper, outbox, store>>

\* The 20 seconds of a command are over.
CommandTimesOut ==
    /\ session.pending # NoCommand
    /\ session' = Rendered(Ended(session, "timeout"), PopupState)
    /\ UNCHANGED <<helper, inbox, outbox, store, refresh, loginVars, budget>>
OpenSwitcher ==
    /\ ~session.open
    /\ backendState = "Running"
    /\ Spend("user")
    /\ session' = Rendered(Opened(PopupState), PopupState)
    /\ UNCHANGED <<helper, inbox, outbox, store, refresh, loginVars>>
CloseSwitcher ==
    /\ session.open
    /\ session' = Closed
    /\ UNCHANGED <<helper, inbox, outbox, store, refresh, loginVars, budget>>

\* logout, and a new coordination server (set-pref controlURL), which the
\* helper turns into a logout.
Logout ==
    /\ backendState = "Running"
    /\ Spend("user")
    /\ refresh' = MarkNeeded(refresh)
    /\ Sends(Cmd("logout", NoIdentity))
    /\ UNCHANGED <<helper, outbox, store, loginVars, session>>
ChangeServer ==
    /\ connected
    /\ Spend("user")
    /\ refresh' = MarkNeeded(refresh)
    /\ browseToURL' = ""
    /\ SwitchesAccount
    /\ Sends(Cmd("set-prefs", NoIdentity))
    /\ UNCHANGED <<helper, outbox, connected, backendState, currentProfile,
                   profiles, helperDiagnostic, session>>
-----------------------------------------------------------------------------
(* The helper: it handles its commands one after another (host/profiles.go *)
(* and the Tailscale engine behind it, which this module takes as given).  *)

After(command) ==
    CASE command.type = "switch-profile" ->
           {[host EXCEPT !.current = command.id, !.backend = b]
              : b \in {"NeedsLogin", "Running"}}
      [] command.type = "delete-profile" ->
           {IF command.id = host.current
            THEN [host EXCEPT !.current = NoIdentity, !.backend = "NeedsLogin",
                              !.profiles = @ \ {command.id}]
            ELSE [host EXCEPT !.profiles = @ \ {command.id}]}
      [] command.type = "new-profile" ->
           {[host EXCEPT !.current = NoIdentity, !.backend = "NeedsLogin"]}
      [] command.type = "logout" -> {[host EXCEPT !.backend = "NeedsLogin"]}
      [] command.type = "set-prefs" ->
           {[host EXCEPT !.current = NoIdentity, !.backend = "NeedsLogin",
                         !.moved = TRUE]}
      [] OTHER -> {host}
Lists(command) == command.type \notin {"logout", "set-prefs", "login"}
Known(command) == command.id # NoIdentity => command.id \in host.profiles

HelperHandles ==
    LET command == Head(inbox)
    IN  /\ inbox # <<>>
        /\ Known(command)
        /\ inbox' = Tail(inbox)
        /\ host' \in After(command)
        /\ statusDue' = (statusDue \/ command # List)
        /\ outbox' = IF Lists(command) THEN Append(outbox, ProfilesReply(host'))
                                       ELSE outbox
        /\ UNCHANGED <<store, refresh, loginVars, session, budget>>
HelperRefuses ==
    LET command == Head(inbox)
    IN  /\ inbox # <<>>
        /\ command.type \in Diagnostics
        /\ IF Known(command) THEN Spend("faults") ELSE UNCHANGED budget
        /\ inbox' = Tail(inbox)
        /\ outbox' = Append(outbox, ErrorReply(command.type))
        /\ UNCHANGED <<helper, store, refresh, loginVars, session>>
SendsStatus ==
    /\ connected
    /\ statusDue
    /\ Len(outbox) < MaxOutbox
    /\ statusDue' = FALSE
    /\ host' = [host EXCEPT !.moved = FALSE]
    /\ \E url \in IF host.backend = "NeedsLogin" THEN Urls ELSE {""} :
         outbox' = Append(outbox, [kind |-> "status", url |-> url,
                             backend |-> host.backend, moved |-> host.moved])
    /\ UNCHANGED <<inbox, store, refresh, loginVars, session, budget>>

\* The user has logged in on the page.  The profile there was gets a new
\* node, or it is a new profile with an id of its own.
LoginCompletes ==
    /\ host.backend = "NeedsLogin"
    /\ ~statusDue
    /\ statusDue' = TRUE
    /\ \E id \in (Profiles \ host.used) \cup ({host.current} \ {NoIdentity}) :
         host' = [host EXCEPT !.current = id, !.backend = "Running",
                              !.profiles = @ \cup {id},
                              !.used = @ \cup {id}]
    /\ UNCHANGED <<inbox, outbox, store, refresh, loginVars, session, budget>>
-----------------------------------------------------------------------------
Init ==
    /\ \E id \in {CHOOSE first \in Saved : TRUE, NoIdentity} :
         host = [current |-> id, profiles |-> Saved, moved |-> FALSE,
                 used |-> Saved,
                 backend |-> IF id = NoIdentity THEN "NeedsLogin" ELSE "Running"]
    /\ statusDue = FALSE
    /\ inbox = <<>> /\ outbox = <<>>
    /\ connected = FALSE /\ backendState = "NoState"
    /\ currentProfile = NoIdentity /\ profiles = {}
    /\ helperDiagnostic = None /\ browseToURL = ""
    /\ refresh = [needed |-> FALSE, inFlight |-> FALSE, index |-> 0,
                  timer |-> FALSE, latest |-> None, forgot |-> FALSE]
    /\ login = [open |-> FALSE, routing |-> FALSE, pending |-> FALSE]
    /\ owed = 0
    /\ route \in {"direct", "protected"}
    /\ proxy = IF route = "direct" THEN "clear" ELSE "set"
    /\ session = Closed
    /\ budget = [user |-> MaxUser, faults |-> MaxFaults]

Receive == ReceiveStatus \/ ReceiveProfiles \/ ReceiveError
Next ==
    \/ Receive \/ RetryFires \/ PortDrops \/ PortConnects
    \/ ClickLogin \/ ProxyAnswers \/ ProxyFails
    \/ LoginOpenTimesOut \/ LoginRoutingTimesOut
    \/ OpenSwitcher \/ CloseSwitcher \/ CommandTimesOut \/ NewProfile
    \/ \E command \in Commands(Profiles) : RunCommand(command)
    \/ Logout \/ ChangeServer
    \/ HelperHandles \/ HelperRefuses \/ SendsStatus \/ LoginCompletes

\* Timers fire, the port delivers, and the helper works through its inbox.
Fairness ==
    /\ WF_vars(Receive) /\ WF_vars(RetryFires) /\ WF_vars(PortConnects)
    /\ WF_vars(HelperHandles \/ HelperRefuses) /\ WF_vars(SendsStatus)

Spec == Init /\ [][Next]_vars /\ Fairness
-----------------------------------------------------------------------------
(* Properties.                                                             *)

\* Every variable has its type.
TypeOK ==
    /\ host.current \in Profiles \cup {NoIdentity}
    /\ currentProfile \in Profiles \cup {NoIdentity}
    /\ profiles \subseteq Profiles
    /\ helperDiagnostic \in Diagnostics
    /\ browseToURL \in Urls
    /\ refresh \in [needed : BOOLEAN, inFlight : BOOLEAN, index : 0..Delays,
                    timer : BOOLEAN, forgot : BOOLEAN,
                    latest : {None, "NeedsLogin", "Running"}]
    /\ login \in [open : BOOLEAN, routing : BOOLEAN, pending : BOOLEAN]
    /\ session \in Sessions(Profiles, Diagnostics)
    /\ route \in {"direct", "protected"}
    /\ proxy \in {"busy", "set", "clear", "failed"}

\* The profile shown is never silently out of date: once everything the
\* helper had to say has arrived and the node is running, the extension
\* shows the helper's current profile and list, or it knows that it has to
\* ask again.  Excepted is a switch, asked for while a login is under way,
\* that the helper refuses: it drops the refresh that the login needs.
Quiet == connected /\ inbox = <<>> /\ outbox = <<>> /\ ~statusDue
ShownIsCurrent ==
    Quiet /\ host.backend = "Running" /\ ~refresh.needed /\ ~refresh.forgot =>
      currentProfile = host.current /\ profiles = host.profiles

\* Every accepted login ends exactly once, in a tab, a message or a change
\* of account: none is lost while nothing waits for it, and no late report
\* or status opens a page for a login that was given up.
LoginEndsOnce ==
    /\ owed = IF login.open \/ login.routing THEN 1 ELSE 0
    /\ ~(login.open /\ login.routing)

\* The switcher reports a deletion as done only when the helper has done it,
\* although it goes by whatever profile list arrives next.
DeletionIsDone ==
    [][\A id \in Profiles :
         (session.pending = Delete(id) /\ session'.open
            /\ session'.pending = NoCommand /\ session'.feedback = "")
           => id \notin host.profiles]_vars

\* As long as the helper fails fewer times than there are retries, a node
\* that stays connected and running ends up shown under its own profile.
ProfileIsFound ==
    <>[](connected /\ host.backend = "Running" /\ ~refresh.forgot)
      => <>[](currentProfile = host.current)
=============================================================================
