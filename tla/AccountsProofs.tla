--------------------------- MODULE AccountsProofs ---------------------------
(***************************************************************************)
(* Proofs about Accounts, for any profiles, any number of retries, user    *)
(* commands, faults and unread replies: what the extension shows of the    *)
(* profiles is never silently out of date, a login ends once, and the      *)
(* switcher reports no deletion that the helper has not made.              *)
(***************************************************************************)
EXTENDS Accounts, SequenceTheorems, TLAPS

-----------------------------------------------------------------------------
(* Types.                                                                  *)

Ids == Profiles \cup {NoIdentity}
Backends == {"NeedsLogin", "Running"}
Helpers == [current : Ids, profiles : SUBSET Profiles, moved : BOOLEAN,
            used : SUBSET Profiles, backend : Backends]
HelperCommands ==
    [type : {"switch-profile", "delete-profile", "list-profiles",
             "new-profile", "login", "logout", "set-prefs"}, id : Ids]
ProfilesMsgs ==
    [kind : {"profiles"}, current : Ids, profiles : SUBSET Profiles]
StatusMsgs ==
    [kind : {"status"}, url : Urls, backend : Backends, moved : BOOLEAN]
ErrorMsgs == [kind : {"error"}, cmd : Diagnostics]
Messages == ProfilesMsgs \cup StatusMsgs \cup ErrorMsgs
Refreshes == [needed : BOOLEAN, inFlight : BOOLEAN, index : 0..Delays,
              timer : BOOLEAN, forgot : BOOLEAN,
              latest : {None, "NeedsLogin", "Running"}]
Logins == [open : BOOLEAN, routing : BOOLEAN, pending : BOOLEAN]
Budgets == [user : Nat, faults : Nat]

\* TypeOK, in parts, with the types of what its values come from.
HelperTypes == host \in Helpers /\ statusDue \in BOOLEAN
PortTypes ==
    /\ inbox \in Seq(HelperCommands) /\ outbox \in Seq(Messages)
    /\ connected \in BOOLEAN
StoreTypes ==
    /\ backendState \in {"NoState"} \cup Backends
    /\ currentProfile \in Ids /\ profiles \in SUBSET Profiles
    /\ helperDiagnostic \in Diagnostics /\ browseToURL \in Urls
LoginTypes ==
    /\ login \in Logins /\ owed \in Int
    /\ route \in {"direct", "protected"}
    /\ proxy \in {"busy", "set", "clear", "failed"}
TypeInv ==
    /\ HelperTypes /\ PortTypes /\ StoreTypes /\ LoginTypes
    /\ refresh \in Refreshes /\ budget \in Budgets
    /\ session \in Sessions(Profiles, Diagnostics)

LEMMA TypeInvImplies == TypeInv => TypeOK
<1> SUFFICES ASSUME TypeInv PROVE TypeOK
  OBVIOUS
<1>1. host.current \in Profiles \cup {NoIdentity}
  BY DEF TypeInv, HelperTypes, Helpers, Ids
<1>2. /\ refresh \in [needed : BOOLEAN, inFlight : BOOLEAN, index : 0..Delays,
                      timer : BOOLEAN, forgot : BOOLEAN,
                      latest : {None, "NeedsLogin", "Running"}]
      /\ login \in [open : BOOLEAN, routing : BOOLEAN, pending : BOOLEAN]
  BY DEF TypeInv, LoginTypes, Refreshes, Logins
<1> QED
  BY <1>1, <1>2, Zenon DEF TypeInv, StoreTypes, LoginTypes, TypeOK, Ids

LEMMA InitTypes == Init => TypeInv
<1> SUFFICES ASSUME Init PROVE TypeInv
  OBVIOUS
<1>1. PICK id \in {CHOOSE first \in Saved : TRUE, NoIdentity} :
        host = [current |-> id, profiles |-> Saved, moved |-> FALSE,
                used |-> Saved,
                backend |-> IF id = NoIdentity THEN "NeedsLogin" ELSE "Running"]
  BY DEF Init
<1>2. id \in Ids /\ Saved \in SUBSET Profiles
  BY IdentityAssumption DEF Ids
<1>3. HelperTypes
  BY <1>1, <1>2 DEF Init, HelperTypes, Helpers, Backends
<1>4. PortTypes
  <2>1. inbox = <<>> /\ outbox = <<>> /\ connected \in BOOLEAN
    BY Zenon DEF Init
  <2>2. <<>> \in Seq(HelperCommands) /\ <<>> \in Seq(Messages)
    OBVIOUS
  <2> QED
    BY <2>1, <2>2 DEF PortTypes
<1>5. StoreTypes
  BY DEF Init, StoreTypes, Ids, Diagnostics, Urls
<1>6. LoginTypes
  <2>1. /\ login = [open |-> FALSE, routing |-> FALSE, pending |-> FALSE]
        /\ owed = 0
        /\ route \in {"direct", "protected"}
        /\ proxy = IF route = "direct" THEN "clear" ELSE "set"
    BY Zenon DEF Init
  <2> QED
    BY <2>1 DEF LoginTypes, Logins
<1>7. refresh \in Refreshes
  <2>1. refresh = [needed |-> FALSE, inFlight |-> FALSE, index |-> 0,
                   timer |-> FALSE, latest |-> None, forgot |-> FALSE]
    BY Zenon DEF Init
  <2> QED
    BY <2>1, DelaysAssumption DEF Refreshes
<1>8. budget \in Budgets
  BY BoundsAssumption DEF Init, Budgets
<1>9. session \in Sessions(Profiles, Diagnostics)
  BY DEF Init, Closed, Sessions, Feedback, Diagnostics
<1> QED
  BY <1>3, <1>4, <1>5, <1>6, <1>7, <1>8, <1>9 DEF TypeInv

-----------------------------------------------------------------------------
(* The switcher's operators keep the type of a session.                    *)

LEMMA ClosedType == Closed \in Sessions(Profiles, Diagnostics)
  BY DEF Closed, Sessions, Feedback, Diagnostics

LEMMA EndedType ==
  ASSUME NEW s \in Sessions(Profiles, Diagnostics), NEW feedback \in Feedback
  PROVE  Ended(s, feedback) \in Sessions(Profiles, Diagnostics)
  BY DEF Ended, Sessions

LEMMA RenderedType ==
  ASSUME NEW s \in Sessions(Profiles, Diagnostics), NEW state,
         state.current \in Ids, state.diag \in Diagnostics
  PROVE  Rendered(s, state) \in Sessions(Profiles, Diagnostics)
<1> DEFINE t == Settled(s, state)
           noticed == [t EXCEPT !.diagnostic = state.diag]
           m == t.pending = NoCommand /\ t.confirmed # state.current
<1>1. t \in Sessions(Profiles, Diagnostics)
  <2>1. t \in {s, Ended(s, "lost"), Ended(s, ""), Ended(s, "failed")}
    BY DEF Settled
  <2>2. {"lost", "", "failed"} \subseteq Feedback
    BY DEF Feedback
  <2> QED
    BY <2>1, <2>2, EndedType
<1> HIDE DEF t
<1>2. noticed \in Sessions(Profiles, Diagnostics)
  BY <1>1 DEF Sessions
<1>3. [noticed EXCEPT !.confirmed = state.current,
                      !.feedback = IF m THEN "" ELSE @]
        \in Sessions(Profiles, Diagnostics)
  BY <1>2 DEF Sessions, Feedback, Ids
<1> QED
  BY <1>2, <1>3 DEF Rendered, t

LEMMA PopupTypes ==
  ASSUME StoreTypes
  PROVE  PopupState.current \in Ids /\ PopupState.diag \in Diagnostics
  BY DEF StoreTypes, PopupState
-----------------------------------------------------------------------------
(* Sequences: the two directions of the port.                              *)

LEMMA AppendFacts ==
  ASSUME NEW S, NEW s \in Seq(S), NEW e \in S
  PROVE  /\ Append(s, e) \in Seq(S) /\ Len(s) \in Nat
         /\ DOMAIN s = 1..Len(s) /\ DOMAIN Append(s, e) = 1..(Len(s) + 1)
         /\ \A i \in DOMAIN s : i \in DOMAIN Append(s, e) /\ Append(s, e)[i] = s[i]
         /\ Append(s, e)[Len(s) + 1] = e
  OBVIOUS

LEMMA TailFacts ==
  ASSUME NEW S, NEW s \in Seq(S), s # <<>>
  PROVE  /\ Head(s) \in S /\ Tail(s) \in Seq(S)
         /\ Len(s) \in Nat \ {0}
         /\ DOMAIN s = 1..Len(s) /\ DOMAIN Tail(s) = 1..(Len(s) - 1)
         /\ Head(s) = s[1]
         /\ \A i \in DOMAIN Tail(s) : i + 1 \in DOMAIN s /\ Tail(s)[i] = s[i + 1]
         /\ \A i \in DOMAIN s : i = 1 \/ i - 1 \in DOMAIN Tail(s)
  OBVIOUS

\* The kind of a message tells its type.
LEMMA KindTypes ==
  ASSUME NEW m \in Messages
  PROVE  /\ m.kind = "profiles" => m \in ProfilesMsgs
         /\ m.kind = "status" => m \in StatusMsgs
         /\ m.kind = "error" => m \in ErrorMsgs
  BY DEF Messages, ProfilesMsgs, StatusMsgs, ErrorMsgs

LEMMA HeadTypes ==
  ASSUME outbox \in Seq(Messages), outbox # <<>>
  PROVE  /\ 1 \in DOMAIN outbox /\ outbox[1] = Head(outbox)
         /\ Head(outbox).kind = "profiles" => Head(outbox) \in ProfilesMsgs
         /\ Head(outbox).kind = "status" => Head(outbox) \in StatusMsgs
         /\ Head(outbox).kind = "error" => Head(outbox) \in ErrorMsgs
<1>1. Head(outbox) \in Messages
  BY TailFacts
<1> QED
  BY <1>1, KindTypes

-----------------------------------------------------------------------------
(* Types of what a step makes of the refresh, the login and the budget.    *)

LEMMA RetryTypes ==
  ASSUME NEW r \in Refreshes
  PROVE  /\ ResetRetry(r) \in Refreshes /\ MarkNeeded(r) \in Refreshes
         /\ ScheduleRetry(r) \in Refreshes
<1>1. ResetRetry(r) \in Refreshes
  <2>1. 0 \in 0..Delays
    BY DelaysAssumption
  <2> QED
    BY <2>1 DEF ResetRetry, Refreshes
<1>2. MarkNeeded(r) \in Refreshes
  BY <1>1 DEF MarkNeeded, Refreshes
<1>3. ScheduleRetry(r) \in Refreshes
  <2>1. CASE r.index >= Delays
    BY <2>1 DEF ScheduleRetry
  <2>2. CASE ~(r.index >= Delays)
    <3>1. r.index + 1 \in 0..Delays
      BY <2>2, DelaysAssumption DEF Refreshes
    <3> QED
      BY <3>1 DEF ScheduleRetry, Refreshes
  <2> QED
    BY <2>1, <2>2
<1> QED
  BY <1>1, <1>2, <1>3

\* A retry that is scheduled, or not, leaves what the refresh is about.
LEMMA ScheduleKeeps ==
  ASSUME NEW r \in Refreshes
  PROVE  /\ ScheduleRetry(r).needed = r.needed
         /\ ScheduleRetry(r).latest = r.latest
         /\ ScheduleRetry(r).forgot = r.forgot
         /\ ScheduleRetry(r).inFlight = r.inFlight
  BY DEF ScheduleRetry, Refreshes

LEMMA ListType == List \in HelperCommands
  BY DEF List, Cmd, HelperCommands, Ids

\* What is known of a request, sent or not: it is on its way, or the need for
\* it is remembered.
LEMMA RequestFacts ==
  ASSUME NEW r \in Refreshes, RequestProfiles(r), budget \in Budgets
  PROVE  /\ refresh' \in Refreshes /\ budget' \in Budgets
         /\ refresh'.latest = r.latest
         /\ \/ /\ inbox' = Append(inbox, List)
               /\ refresh'.needed = (r.needed /\ r.latest # "Running")
            \/ /\ inbox' = inbox /\ refresh'.needed
               /\ refresh'.forgot = r.forgot
<1> DEFINE asked == [r EXCEPT !.timer = FALSE, !.inFlight = FALSE]
           kept == [asked EXCEPT !.needed = TRUE]
<1>1. CASE refresh' = Request(r, TRUE) /\ inbox' = Append(inbox, List)
           /\ UNCHANGED budget
  BY <1>1 DEF Request, Refreshes
<1>2. CASE refresh' = Request(r, FALSE) /\ Spend("faults") /\ UNCHANGED inbox
  <2>1. /\ kept \in Refreshes /\ kept.needed /\ kept.latest = r.latest
        /\ kept.forgot = r.forgot
    BY DEF Refreshes
  <2>2. refresh' = ScheduleRetry(kept)
    BY <1>2 DEF Request
  <2>3. budget' \in Budgets
    BY <1>2 DEF Spend, Budgets
  <2> QED
    BY <1>2, <2>1, <2>2, <2>3, RetryTypes, ScheduleKeeps
<1> QED
  BY <1>1, <1>2 DEF RequestProfiles

LEMMA SpendType ==
  ASSUME budget \in Budgets, NEW what \in {"user", "faults"}, Spend(what)
  PROVE  budget' \in Budgets
  BY DEF Spend, Budgets

-----------------------------------------------------------------------------
(* Every step keeps the types, part by part.                               *)

\* What a command may make of the helper: profiles only go, the current one
\* stays one of them, and where no list follows a running helper is the same.
LEMMA AfterFacts ==
  ASSUME host \in Helpers, NEW c \in HelperCommands, Known(c),
         NEW h \in After(c)
  PROVE  /\ h \in Helpers
         /\ h.profiles \subseteq host.profiles /\ h.used = host.used
         /\ host.current \in host.profiles \cup {NoIdentity}
              => h.current \in h.profiles \cup {NoIdentity}
         /\ ~Lists(c) /\ h.backend = "Running" => h = host
         /\ c = List => h = host
<1>0. c.id \in Ids
  BY DEF HelperCommands
<1>1. CASE c.type = "switch-profile"
  <2>1. PICK b \in Backends :
          h = [host EXCEPT !.current = c.id, !.backend = b]
    BY <1>1 DEF After, Backends
  <2>2. /\ h \in Helpers /\ h.current = c.id
        /\ h.profiles = host.profiles /\ h.used = host.used
    BY <1>0, <2>1 DEF Helpers
  <2> QED
    BY <1>1, <2>2 DEF Known, Lists, List, Cmd
<1>2. CASE c.type = "delete-profile"
  <2>1. CASE c.id = host.current
    <3>1. h = [host EXCEPT !.current = NoIdentity, !.backend = "NeedsLogin",
                           !.profiles = @ \ {c.id}]
      BY <1>2, <2>1 DEF After
    <3>2. /\ h \in Helpers /\ h.current = NoIdentity
          /\ h.profiles \subseteq host.profiles /\ h.used = host.used
          /\ h.backend = "NeedsLogin"
      BY <3>1 DEF Helpers, Backends, Ids
    <3> QED
      BY <1>2, <3>2 DEF List, Cmd
  <2>2. CASE c.id # host.current
    <3>1. h = [host EXCEPT !.profiles = @ \ {c.id}]
      BY <1>2, <2>2 DEF After
    <3> QED
      BY <1>2, <2>2, <3>1 DEF Helpers, Lists, List, Cmd
  <2> QED
    BY <2>1, <2>2
<1>3. CASE c.type = "new-profile"
  <2>1. h = [host EXCEPT !.current = NoIdentity, !.backend = "NeedsLogin"]
    BY <1>3 DEF After
  <2>2. /\ h \in Helpers /\ h.current = NoIdentity
        /\ h.profiles = host.profiles /\ h.used = host.used
        /\ h.backend = "NeedsLogin"
    BY <2>1 DEF Helpers, Backends, Ids
  <2> QED
    BY <1>3, <2>2 DEF List, Cmd
<1>4. CASE c.type = "logout"
  <2>1. h = [host EXCEPT !.backend = "NeedsLogin"]
    BY <1>4 DEF After
  <2> QED
    BY <1>4, <2>1 DEF Helpers, Backends, List, Cmd
<1>5. CASE c.type = "set-prefs"
  <2>1. h = [host EXCEPT !.current = NoIdentity, !.backend = "NeedsLogin",
                         !.moved = TRUE]
    BY <1>5 DEF After
  <2>2. /\ h \in Helpers /\ h.current = NoIdentity
        /\ h.profiles = host.profiles /\ h.used = host.used
        /\ h.backend = "NeedsLogin"
    BY <2>1 DEF Helpers, Backends, Ids
  <2> QED
    BY <1>5, <2>2 DEF List, Cmd
<1>6. CASE c.type \in {"list-profiles", "login"}
  <2>1. h = host
    BY <1>6 DEF After
  <2> QED
    BY <2>1
<1> QED
  BY <1>1, <1>2, <1>3, <1>4, <1>5, <1>6 DEF HelperCommands

LEMMA ReplyTypes ==
  /\ \A h \in Helpers : ProfilesReply(h) \in Messages
  /\ \A type \in Diagnostics : ErrorReply(type) \in Messages
<1>1. \A h \in Helpers : ProfilesReply(h) \in ProfilesMsgs
  BY DEF ProfilesReply, ProfilesMsgs, Helpers
<1>2. \A type \in Diagnostics : ErrorReply(type) \in ErrorMsgs
  BY DEF ErrorReply, ErrorMsgs
<1> QED
  BY <1>1, <1>2 DEF Messages

LEMMA HelperTypesStep ==
  ASSUME TypeInv, [Next]_vars
  PROVE  HelperTypes'
<1>0. host \in Helpers /\ statusDue \in BOOLEAN /\ inbox \in Seq(HelperCommands)
  BY DEF TypeInv, HelperTypes, PortTypes
<1>1. CASE HelperHandles
  <2>1. Head(inbox) \in HelperCommands
    BY <1>0, <1>1, TailFacts DEF HelperHandles
  <2>2. host' \in Helpers
    BY <1>0, <1>1, <2>1, AfterFacts DEF HelperHandles
  <2> QED
    BY <1>1, <2>2 DEF HelperHandles, HelperTypes
<1>2. CASE SendsStatus
  BY <1>0, <1>2 DEF SendsStatus, HelperTypes, Helpers
<1>3. CASE LoginCompletes
  <2>1. PICK id \in (Profiles \ host.used) \cup ({host.current} \ {NoIdentity}) :
          host' = [host EXCEPT !.current = id, !.backend = "Running",
                               !.profiles = @ \cup {id}, !.used = @ \cup {id}]
    BY <1>3 DEF LoginCompletes
  <2>2. id \in Profiles
    BY <1>0 DEF Helpers, Ids
  <2>3. host' \in Helpers
    BY <1>0, <2>1, <2>2 DEF Helpers, Backends, Ids
  <2> QED
    BY <1>3, <2>3 DEF LoginCompletes, HelperTypes
<1>4. CASE PortConnects
  BY <1>0, <1>4 DEF PortConnects, HelperTypes
<1>5. CASE UNCHANGED helper
  BY <1>0, <1>5 DEF helper, HelperTypes
<1>6. Receive => UNCHANGED helper
  BY DEF Receive, ReceiveStatus, ReceiveProfiles, ReceiveError
<1>7. RetryFires \/ PortDrops => UNCHANGED helper
  BY DEF RetryFires, PortDrops
<1>8. ClickLogin \/ ProxyAnswers \/ ProxyFails \/ LoginOpenTimesOut
        \/ LoginRoutingTimesOut => UNCHANGED helper
  BY DEF ClickLogin, ProxyAnswers, ProxyFails, LoginOpenTimesOut,
     LoginRoutingTimesOut
<1>9. OpenSwitcher \/ CloseSwitcher \/ CommandTimesOut \/ NewProfile
        \/ (\E command \in Commands(Profiles) : RunCommand(command))
        \/ Logout \/ ChangeServer => UNCHANGED helper
  BY DEF OpenSwitcher, CloseSwitcher, CommandTimesOut, NewProfile, RunCommand,
     Logout, ChangeServer
<1>10. HelperRefuses \/ UNCHANGED vars => UNCHANGED helper
  BY DEF HelperRefuses, vars
<1> QED
  BY <1>1, <1>2, <1>3, <1>4, <1>5, <1>6, <1>7, <1>8, <1>9, <1>10 DEF Next

LEMMA RefreshFacts ==
  ASSUME NEW r \in Refreshes
  PROVE  /\ \A current :
              LET s == AfterProfiles(r, current)
              IN  /\ s \in Refreshes /\ s.latest = r.latest
                  /\ s.forgot = r.forgot /\ (r.needed => s.needed)
         /\ \A msg \in StatusMsgs :
              LET s == RefreshOnStatus(r, msg)
              IN  /\ s \in Refreshes /\ s.latest = msg.backend
                  /\ s.forgot = r.forgot
                  /\ r.needed \/ msg.backend = "NeedsLogin" => s.needed
         /\ LET s == RefreshOnSwitch(r)
            IN  /\ s \in Refreshes /\ s.latest = r.latest
                /\ ~s.needed /\ s.forgot = (r.forgot \/ r.needed)
         /\ LET s == RefreshOnDrop(r)
            IN  s \in Refreshes
         /\ LET s == ResetRetry(r)
            IN  /\ s \in Refreshes /\ s.latest = r.latest
                /\ s.forgot = r.forgot /\ s.needed = r.needed
         /\ LET s == MarkNeeded(r)
            IN  /\ s \in Refreshes /\ s.latest = r.latest
                /\ s.forgot = r.forgot /\ s.needed
<1>1. /\ ResetRetry(r) \in Refreshes /\ ResetRetry(r).latest = r.latest
      /\ ResetRetry(r).forgot = r.forgot /\ ResetRetry(r).needed = r.needed
  <2>1. ResetRetry(r) \in Refreshes
    BY RetryTypes
  <2> QED
    BY <2>1 DEF ResetRetry, Refreshes
<1>2. ASSUME NEW s \in Refreshes
      PROVE  /\ MarkNeeded(s) \in Refreshes /\ MarkNeeded(s).latest = s.latest
             /\ MarkNeeded(s).forgot = s.forgot /\ MarkNeeded(s).needed
  <2>1. ResetRetry(s) \in Refreshes
    BY RetryTypes
  <2>2. MarkNeeded(s) \in Refreshes
    BY RetryTypes
  <2> QED
    BY <2>1, <2>2 DEF MarkNeeded, ResetRetry, Refreshes
<1>3. ASSUME NEW current
      PROVE  LET s == AfterProfiles(r, current)
             IN  /\ s \in Refreshes /\ s.latest = r.latest
                 /\ s.forgot = r.forgot /\ (r.needed => s.needed)
  BY DEF AfterProfiles, Refreshes
<1>4. ASSUME NEW msg \in StatusMsgs
      PROVE  LET s == RefreshOnStatus(r, msg)
             IN  /\ s \in Refreshes /\ s.latest = msg.backend
                 /\ s.forgot = r.forgot
                 /\ r.needed \/ msg.backend = "NeedsLogin" => s.needed
  <2> DEFINE base == IF r.latest = "NeedsLogin" THEN r ELSE ResetRetry(r)
             seen == IF msg.backend = "NeedsLogin"
                     THEN [base EXCEPT !.needed = TRUE] ELSE r
             known == [seen EXCEPT !.latest = msg.backend]
  <2>0. msg.backend \in Backends
    BY DEF StatusMsgs
  <2>1. base \in Refreshes /\ base.forgot = r.forgot
    BY <1>1
  <2> HIDE DEF base
  <2>2. /\ seen \in Refreshes /\ seen.forgot = r.forgot
        /\ r.needed \/ msg.backend = "NeedsLogin" => seen.needed
    BY <2>1 DEF Refreshes
  <2> HIDE DEF seen
  <2>3. /\ known \in Refreshes /\ known.forgot = r.forgot
        /\ known.latest = msg.backend /\ known.needed = seen.needed
    BY <2>0, <2>2 DEF Refreshes, Backends
  <2> HIDE DEF known
  <2>4. RefreshOnStatus(r, msg) = IF msg.moved THEN MarkNeeded(known) ELSE known
    BY DEF RefreshOnStatus, known, seen, base
  <2> QED
    BY <1>2, <2>2, <2>3, <2>4
<1>5. LET s == RefreshOnSwitch(r)
      IN  /\ s \in Refreshes /\ s.latest = r.latest
          /\ ~s.needed /\ s.forgot = (r.forgot \/ r.needed)
  BY <1>1 DEF RefreshOnSwitch, Refreshes
<1>6. RefreshOnDrop(r) \in Refreshes
  BY <1>1 DEF RefreshOnDrop, Refreshes
<1> QED
  BY <1>1, <1>2, <1>3, <1>4, <1>5, <1>6

LEMMA CommandTypes ==
  /\ Cmd("login", NoIdentity) \in HelperCommands
  /\ Cmd("new-profile", NoIdentity) \in HelperCommands
  /\ Cmd("logout", NoIdentity) \in HelperCommands
  /\ Cmd("set-prefs", NoIdentity) \in HelperCommands
  /\ \A c \in Commands(Profiles) : c \in HelperCommands
  BY DEF Cmd, HelperCommands, Ids, Commands, Switch, Delete

\* What requestLogin() does, in each of its three ways.
LEMMA RequestLoginFacts ==
  ASSUME NEW waiting \in Logins, NEW owing \in Int, NEW left \in Budgets,
         RequestLogin(waiting, owing, left)
  PROVE  /\ login' \in Logins /\ owed' \in Int /\ budget' \in Budgets
         /\ inbox' = inbox \/ inbox' = Append(inbox, Cmd("login", NoIdentity))
         /\ login'.routing = waiting.routing
         /\ ~waiting.open => owed' = IF login'.open THEN owing ELSE owing - 1
<1>1. CASE /\ login' = waiting /\ owed' = owing - 1
           /\ budget' = left /\ UNCHANGED inbox
  BY <1>1 DEF Logins
<1>2. CASE /\ login' = [waiting EXCEPT !.open = TRUE] /\ owed' = owing
           /\ inbox' = Append(inbox, Cmd("login", NoIdentity))
           /\ budget' = left
  BY <1>2 DEF Logins
<1>3. CASE /\ left.faults > 0
           /\ login' = [waiting EXCEPT !.open = FALSE] /\ owed' = owing - 1
           /\ budget' = [left EXCEPT !.faults = @ - 1]
           /\ UNCHANGED inbox
  <2>1. budget' \in Budgets
    BY <1>3 DEF Budgets
  <2>2. /\ login' \in Logins /\ ~login'.open
        /\ login'.routing = waiting.routing
    BY <1>3 DEF Logins
  <2> QED
    BY <1>3, <2>1, <2>2
<1> QED
  BY <1>1, <1>2, <1>3 DEF RequestLogin

\* An answer of the browser, or a click, that may ask for the login.
LEMMA ReportFacts ==
  ASSUME TypeInv, NEW health, Report(health)
  PROVE  /\ login' \in Logins /\ owed' \in Int /\ budget' \in Budgets
         /\ inbox' = inbox \/ inbox' = Append(inbox, Cmd("login", NoIdentity))
         /\ LoginEndsOnce => LoginEndsOnce'
<1> DEFINE free == [login EXCEPT !.routing = FALSE]
           ends == login.routing /\ LoginMayGoOn(health)
<1>0. /\ login \in Logins /\ owed \in Int /\ budget \in Budgets
      /\ free \in Logins /\ ~free.routing /\ free.open = login.open
  BY DEF TypeInv, LoginTypes, Logins
<1>1. CASE ends /\ RequestLogin(free, owed, budget)
  <2>1. /\ login' \in Logins /\ owed' \in Int /\ budget' \in Budgets
        /\ inbox' = inbox \/ inbox' = Append(inbox, Cmd("login", NoIdentity))
        /\ ~login'.routing
        /\ ~free.open => owed' = IF login'.open THEN owed ELSE owed - 1
    BY <1>0, <1>1, RequestLoginFacts
  <2> QED
    BY <1>0, <1>1, <2>1 DEF LoginEndsOnce, Logins
<1>2. CASE /\ login' = IF ends THEN free ELSE login
           /\ owed' = IF ends THEN owed - 1 ELSE owed
           /\ UNCHANGED <<inbox, budget>>
  <2>1. CASE ends
    BY <1>0, <1>2, <2>1 DEF LoginEndsOnce, Logins
  <2>2. CASE ~ends
    BY <1>0, <1>2, <2>2 DEF LoginEndsOnce
  <2> QED
    BY <2>1, <2>2
<1> QED
  BY <1>1, <1>2 DEF Report

LEMMA ClickFacts ==
  ASSUME TypeInv, ClickLogin
  PROVE  /\ login' \in Logins /\ owed' \in Int /\ budget' \in Budgets
         /\ inbox' = inbox \/ inbox' = Append(inbox, Cmd("login", NoIdentity))
         /\ LoginEndsOnce => LoginEndsOnce'
<1> DEFINE left == [budget EXCEPT !.user = @ - 1]
<1>0. /\ login \in Logins /\ owed \in Int /\ budget \in Budgets
      /\ ~login.open /\ ~login.routing /\ left \in Budgets /\ owed + 1 \in Int
  BY DEF TypeInv, LoginTypes, ClickLogin, Budgets
<1>1. CASE /\ login' = [login EXCEPT !.pending = TRUE, !.routing = TRUE]
           /\ owed' = owed + 1 /\ budget' = left /\ UNCHANGED inbox
  <2>1. login' \in Logins /\ login'.routing /\ ~login'.open
    BY <1>0, <1>1 DEF Logins
  <2> QED
    BY <1>0, <1>1, <2>1 DEF LoginEndsOnce
<1>2. CASE RequestLogin(login, owed + 1, left)
  <2>1. /\ login' \in Logins /\ owed' \in Int /\ budget' \in Budgets
        /\ inbox' = inbox \/ inbox' = Append(inbox, Cmd("login", NoIdentity))
        /\ ~login'.routing
        /\ owed' = IF login'.open THEN owed + 1 ELSE owed + 1 - 1
    BY <1>0, <1>2, RequestLoginFacts
  <2> QED
    BY <1>0, <2>1 DEF LoginEndsOnce, Logins
<1> QED
  BY <1>1, <1>2 DEF ClickLogin

\* The commands on their way, the refresh and the budget.
AskTypes == /\ refresh \in Refreshes /\ budget \in Budgets
            /\ inbox \in Seq(HelperCommands)

LEMMA AskTypesStep ==
  ASSUME TypeInv, [Next]_vars
  PROVE  AskTypes'
<1>0. /\ refresh \in Refreshes /\ budget \in Budgets
      /\ inbox \in Seq(HelperCommands) /\ outbox \in Seq(Messages)
  BY DEF TypeInv, PortTypes
<1>a. ASSUME NEW c \in HelperCommands
      PROVE  Append(inbox, c) \in Seq(HelperCommands)
  BY <1>0, AppendFacts
<1>b. ASSUME NEW r \in Refreshes, RequestProfiles(r) PROVE AskTypes'
  <2>1. /\ refresh' \in Refreshes /\ budget' \in Budgets
        /\ inbox' = Append(inbox, List) \/ inbox' = inbox
    BY <1>0, <1>b, RequestFacts
  <2> QED
    BY <1>0, <1>a, <2>1, ListType DEF AskTypes
<1>c. ASSUME NEW r \in Refreshes, NoRequest(r) PROVE AskTypes'
  BY <1>0, <1>c DEF NoRequest, AskTypes
<1>d. ASSUME NEW c \in HelperCommands, Sends(c)
      PROVE  inbox' \in Seq(HelperCommands)
  BY <1>0, <1>a, <1>d DEF Sends
<1>1. CASE ReceiveStatus
  <2>1. outbox # <<>> /\ Head(outbox).kind = "status"
    BY <1>1 DEF ReceiveStatus
  <2>2. Head(outbox) \in StatusMsgs
    BY <1>0, <2>1, HeadTypes
  <2>3. RefreshOnStatus(refresh, Head(outbox)) \in Refreshes
    BY <1>0, <2>2, RefreshFacts
  <2> QED
    BY <1>1, <1>b, <1>c, <2>3 DEF ReceiveStatus
<1>2. CASE ReceiveProfiles
  <2> DEFINE r == AfterProfiles(refresh, Head(outbox).current)
  <2>1. r \in Refreshes
    BY <1>0, RefreshFacts
  <2>2. ResetRetry(r) \in Refreshes /\ ScheduleRetry(r) \in Refreshes
    BY <2>1, RetryTypes
  <2> QED
    BY <1>2, <1>b, <1>c, <2>2 DEF ReceiveProfiles
<1>3. CASE ReceiveError
  <2> DEFINE r == [refresh EXCEPT !.needed = TRUE, !.inFlight = FALSE]
  <2>1. r \in Refreshes
    BY <1>0 DEF Refreshes
  <2>2. ScheduleRetry(r) \in Refreshes
    BY <2>1, RetryTypes
  <2>3. refresh' \in {ScheduleRetry(r), refresh} /\ UNCHANGED <<inbox, budget>>
    BY <1>3 DEF ReceiveError
  <2> QED
    BY <1>0, <2>2, <2>3 DEF AskTypes
<1>4. CASE RetryFires
  <2>1. [refresh EXCEPT !.timer = FALSE] \in Refreshes
    BY <1>0 DEF Refreshes
  <2> QED
    BY <1>4, <1>b, <1>c, <2>1 DEF RetryFires
<1>5. CASE PortDrops
  <2>1. refresh' \in Refreshes /\ inbox' = <<>>
    BY <1>0, <1>5, RefreshFacts DEF PortDrops
  <2>2. budget' \in Budgets
    BY <1>0, <1>5, SpendType DEF PortDrops
  <2>3. <<>> \in Seq(HelperCommands)
    OBVIOUS
  <2> QED
    BY <2>1, <2>2, <2>3 DEF AskTypes
<1>6. CASE PortConnects
  BY <1>0, <1>6, <1>b DEF PortConnects
<1>7. CASE ClickLogin
  <2>1. UNCHANGED refresh
    BY <1>7 DEF ClickLogin
  <2> QED
    BY <1>0, <1>7, <1>a, <2>1, ClickFacts, CommandTypes DEF AskTypes
<1>8. CASE ProxyAnswers
  <2>1. UNCHANGED refresh /\ \E health : Report(health)
    BY <1>8 DEF ProxyAnswers
  <2>2. budget' \in Budgets
        /\ (inbox' = inbox \/ inbox' = Append(inbox, Cmd("login", NoIdentity)))
    BY <2>1, ReportFacts
  <2> QED
    BY <1>0, <1>a, <2>1, <2>2, CommandTypes DEF AskTypes
<1>9. CASE ProxyFails
  <2>1. UNCHANGED <<refresh, inbox>> /\ Spend("faults")
    BY <1>9 DEF ProxyFails
  <2> QED
    BY <1>0, <2>1, SpendType DEF AskTypes
<1>10. CASE OpenSwitcher
  <2>1. UNCHANGED <<refresh, inbox>> /\ Spend("user")
    BY <1>10 DEF OpenSwitcher
  <2> QED
    BY <1>0, <2>1, SpendType DEF AskTypes
<1>11. CASE NewProfile
  <2>1. MarkNeeded(refresh) \in Refreshes
    BY <1>0, RefreshFacts
  <2>2. refresh' \in Refreshes
    BY <1>11, <2>1 DEF NewProfile, Refreshes
  <2>3. Spend("user") /\ Sends(Cmd("new-profile", NoIdentity))
    BY <1>11 DEF NewProfile
  <2> QED
    BY <1>0, <1>d, <2>2, <2>3, SpendType, CommandTypes DEF AskTypes
<1>12. ASSUME NEW c \in Commands(Profiles), RunCommand(c) PROVE AskTypes'
  <2>1. /\ Spend("user")
        /\ refresh' \in {refresh, RefreshOnSwitch(refresh)}
        /\ UNCHANGED inbox \/ Sends(c)
    BY <1>12 DEF RunCommand
  <2>2. RefreshOnSwitch(refresh) \in Refreshes
    BY <1>0, RefreshFacts
  <2>3. inbox' \in Seq(HelperCommands)
    BY <1>0, <1>d, <2>1, CommandTypes
  <2> QED
    BY <1>0, <2>1, <2>2, <2>3, SpendType DEF AskTypes
<1>13. CASE Logout \/ ChangeServer
  <2>1. /\ refresh' = MarkNeeded(refresh) /\ Spend("user")
        /\ \/ Sends(Cmd("logout", NoIdentity))
           \/ Sends(Cmd("set-prefs", NoIdentity))
    BY <1>13 DEF Logout, ChangeServer
  <2>2. MarkNeeded(refresh) \in Refreshes
    BY <1>0, RefreshFacts
  <2> QED
    BY <1>0, <1>d, <2>1, <2>2, SpendType, CommandTypes DEF AskTypes
<1>14. CASE HelperHandles \/ HelperRefuses
  <2>1. inbox # <<>> /\ inbox' = Tail(inbox) /\ UNCHANGED refresh
        /\ (Spend("faults") \/ UNCHANGED budget)
    BY <1>14 DEF HelperHandles, HelperRefuses
  <2> QED
    BY <1>0, <2>1, TailFacts, SpendType DEF AskTypes
<1>15. CASE UNCHANGED <<refresh, inbox, budget>>
  BY <1>0, <1>15 DEF AskTypes
<1>16. LoginOpenTimesOut \/ LoginRoutingTimesOut \/ CloseSwitcher
         \/ CommandTimesOut \/ SendsStatus \/ LoginCompletes \/ UNCHANGED vars
         => UNCHANGED <<refresh, inbox, budget>>
  BY DEF LoginOpenTimesOut, LoginRoutingTimesOut, CloseSwitcher,
     CommandTimesOut, SendsStatus, LoginCompletes, vars
<1> QED
  BY <1>1, <1>2, <1>3, <1>4, <1>5, <1>6, <1>7, <1>8, <1>9, <1>10, <1>11, <1>12,
     <1>13, <1>14, <1>15, <1>16 DEF Next, Receive

LEMMA PortTypesStep ==
  ASSUME TypeInv, [Next]_vars
  PROVE  PortTypes'
<1>0. /\ inbox \in Seq(HelperCommands) /\ outbox \in Seq(Messages)
      /\ connected \in BOOLEAN /\ host \in Helpers
  BY DEF TypeInv, PortTypes, HelperTypes
<1>a. inbox' \in Seq(HelperCommands)
  BY AskTypesStep DEF AskTypes
<1>1. CASE Receive
  <2>1. outbox # <<>> /\ outbox' = Tail(outbox) /\ UNCHANGED connected
    BY <1>1 DEF Receive, ReceiveStatus, ReceiveProfiles, ReceiveError
  <2> QED
    BY <1>0, <1>a, <2>1, TailFacts DEF PortTypes
<1>2. CASE PortDrops
  <2>1. outbox' = <<>> /\ connected' \in BOOLEAN
    BY <1>2, Zenon DEF PortDrops
  <2>2. <<>> \in Seq(Messages)
    OBVIOUS
  <2> QED
    BY <1>a, <2>1, <2>2 DEF PortTypes
<1>3. CASE PortConnects
  <2>1. UNCHANGED outbox /\ connected' \in BOOLEAN
    BY <1>3, Zenon DEF PortConnects
  <2> QED
    BY <1>0, <1>a, <2>1 DEF PortTypes
<1>4. CASE HelperHandles
  <2>1. ProfilesReply(host') \in Messages
    BY HelperTypesStep, ReplyTypes DEF HelperTypes
  <2>2. Append(outbox, ProfilesReply(host')) \in Seq(Messages)
    BY <1>0, <2>1, AppendFacts
  <2>3. outbox' \in {outbox, Append(outbox, ProfilesReply(host'))}
        /\ UNCHANGED connected
    BY <1>4 DEF HelperHandles, store
  <2> QED
    BY <1>0, <1>a, <2>2, <2>3 DEF PortTypes
<1>5. CASE HelperRefuses
  <2>1. ErrorReply(Head(inbox).type) \in Messages
    BY <1>5, ReplyTypes DEF HelperRefuses
  <2>2. outbox' = Append(outbox, ErrorReply(Head(inbox).type))
        /\ UNCHANGED connected
    BY <1>5 DEF HelperRefuses, store
  <2> QED
    BY <1>0, <1>a, <2>1, <2>2, AppendFacts DEF PortTypes
<1>6. CASE SendsStatus
  <2>1. PICK url \in (IF host.backend = "NeedsLogin" THEN Urls ELSE {""}) :
          outbox' = Append(outbox, [kind |-> "status", url |-> url,
                              backend |-> host.backend, moved |-> host.moved])
    BY <1>6 DEF SendsStatus
  <2>2. [kind |-> "status", url |-> url, backend |-> host.backend,
         moved |-> host.moved] \in Messages
    BY <1>0, <2>1 DEF Helpers, Messages, StatusMsgs, Urls
  <2>3. UNCHANGED connected
    BY <1>6 DEF SendsStatus, store
  <2> QED
    BY <1>0, <1>a, <2>1, <2>2, <2>3, AppendFacts DEF PortTypes
<1>7. CASE UNCHANGED <<outbox, connected>>
  BY <1>0, <1>a, <1>7 DEF PortTypes
<1>8. RetryFires \/ ClickLogin \/ ProxyAnswers \/ ProxyFails
        \/ LoginOpenTimesOut \/ LoginRoutingTimesOut => UNCHANGED <<outbox, connected>>
  BY DEF RetryFires, ClickLogin, ProxyAnswers, ProxyFails, LoginOpenTimesOut,
     LoginRoutingTimesOut, store
<1>9. OpenSwitcher \/ CloseSwitcher \/ CommandTimesOut \/ NewProfile
        \/ (\E command \in Commands(Profiles) : RunCommand(command))
        \/ Logout \/ ChangeServer => UNCHANGED <<outbox, connected>>
  BY DEF OpenSwitcher, CloseSwitcher, CommandTimesOut, NewProfile, RunCommand,
     Logout, ChangeServer, store
<1>10. LoginCompletes \/ UNCHANGED vars => UNCHANGED <<outbox, connected>>
  BY DEF LoginCompletes, vars, store
<1> QED
  BY <1>1, <1>2, <1>3, <1>4, <1>5, <1>6, <1>7, <1>8, <1>9, <1>10 DEF Next

LEMMA StoreTypesStep ==
  ASSUME TypeInv, [Next]_vars
  PROVE  StoreTypes'
<1>0. StoreTypes /\ outbox \in Seq(Messages)
  BY DEF TypeInv, PortTypes
<1>1. CASE ReceiveStatus
  <2>1. outbox # <<>> /\ Head(outbox).kind = "status"
        /\ backendState' = Head(outbox).backend
        /\ browseToURL' \in {"", "valid"}
        /\ UNCHANGED <<currentProfile, profiles, helperDiagnostic>>
    BY <1>1 DEF ReceiveStatus
  <2>2. Head(outbox) \in StatusMsgs
    BY <1>0, <2>1, HeadTypes
  <2> QED
    BY <1>0, <2>1, <2>2 DEF StoreTypes, StatusMsgs, Urls
<1>2. CASE ReceiveProfiles
  <2>1. outbox # <<>> /\ Head(outbox).kind = "profiles"
        /\ currentProfile' = Head(outbox).current
        /\ profiles' = Head(outbox).profiles
        /\ UNCHANGED <<backendState, helperDiagnostic, browseToURL>>
    BY <1>2 DEF ReceiveProfiles
  <2>2. Head(outbox) \in ProfilesMsgs
    BY <1>0, <2>1, HeadTypes
  <2> QED
    BY <1>0, <2>1, <2>2 DEF StoreTypes, ProfilesMsgs
<1>3. CASE ReceiveError
  <2>1. outbox # <<>> /\ Head(outbox).kind = "error"
        /\ helperDiagnostic' = Head(outbox).cmd
        /\ UNCHANGED <<backendState, currentProfile, profiles, browseToURL>>
    BY <1>3 DEF ReceiveError
  <2>2. Head(outbox) \in ErrorMsgs
    BY <1>0, <2>1, HeadTypes
  <2> QED
    BY <1>0, <2>1, <2>2 DEF StoreTypes, ErrorMsgs
<1>4. CASE PortDrops
  BY <1>0, <1>4 DEF PortDrops, StoreTypes
<1>5. CASE PortConnects
  BY <1>0, <1>5 DEF PortConnects, StoreTypes, Diagnostics
<1>6. CASE ChangeServer
  BY <1>0, <1>6 DEF ChangeServer, StoreTypes, Urls
<1>7. CASE UNCHANGED store
  BY <1>0, <1>7 DEF store, StoreTypes
<1>8. RetryFires \/ ClickLogin \/ ProxyAnswers \/ ProxyFails
        \/ LoginOpenTimesOut \/ LoginRoutingTimesOut => UNCHANGED store
  BY DEF RetryFires, ClickLogin, ProxyAnswers, ProxyFails, LoginOpenTimesOut,
     LoginRoutingTimesOut
<1>9. OpenSwitcher \/ CloseSwitcher \/ CommandTimesOut \/ NewProfile
        \/ (\E command \in Commands(Profiles) : RunCommand(command))
        \/ Logout => UNCHANGED store
  BY DEF OpenSwitcher, CloseSwitcher, CommandTimesOut, NewProfile, RunCommand,
     Logout
<1>10. HelperHandles \/ HelperRefuses \/ SendsStatus \/ LoginCompletes
         \/ UNCHANGED vars => UNCHANGED store
  BY DEF HelperHandles, HelperRefuses, SendsStatus, LoginCompletes, vars
<1> QED
  BY <1>1, <1>2, <1>3, <1>4, <1>5, <1>6, <1>7, <1>8, <1>9, <1>10 DEF Next, Receive

\* The login, and with it that every accepted login ends once.
LEMMA LoginStep ==
  ASSUME TypeInv, [Next]_vars
  PROVE  LoginTypes' /\ (LoginEndsOnce => LoginEndsOnce')
<1> DEFINE RouteTypes == /\ route \in {"direct", "protected"}
                         /\ proxy \in {"busy", "set", "clear", "failed"}
<1>0. login \in Logins /\ owed \in Int /\ RouteTypes /\ outbox \in Seq(Messages)
  BY DEF TypeInv, LoginTypes, PortTypes
<1>a. ASSUME NEW policy \in {"direct", "protected"}, Applies(policy)
      PROVE  RouteTypes'
  BY <1>0, <1>a DEF Applies
<1>b. ASSUME SwitchesAccount
      PROVE  LoginTypes' /\ (LoginEndsOnce => LoginEndsOnce')
  <2>1. /\ login' \in Logins /\ login'.open = login.open
        /\ login'.routing = login.routing /\ owed' = owed
    BY <1>0, <1>b DEF SwitchesAccount, Logins
  <2>2. RouteTypes'
    BY <1>a, <1>b DEF SwitchesAccount
  <2> QED
    BY <1>0, <2>1, <2>2 DEF LoginTypes, LoginEndsOnce
<1>1. CASE ReceiveStatus
  <2> DEFINE msg == Head(outbox)
             l == IF msg.backend = "Running"
                  THEN [login EXCEPT !.pending = FALSE] ELSE login
             ends == login.open /\ EndsLogin(msg)
  <2>1. /\ login' = LoginOnStatus(l, msg)
        /\ owed' = IF ends THEN owed - 1 ELSE owed
        /\ Applies(IF msg.backend = "Running" THEN "protected" ELSE route)
    BY <1>1 DEF ReceiveStatus
  <2>2. l \in Logins /\ l.open = login.open /\ l.routing = login.routing
    BY <1>0 DEF Logins
  <2>3. /\ login' \in Logins /\ login'.routing = login.routing
        /\ login'.open = (login.open /\ ~ends)
    <3> HIDE DEF l
    <3> QED
      BY <1>0, <2>1, <2>2 DEF LoginOnStatus, Logins
  <2>4. RouteTypes'
    BY <1>0, <1>a, <2>1
  <2>5. owed' \in Int
    BY <1>0, <2>1
  <2>6. LoginEndsOnce => LoginEndsOnce'
    BY <1>0, <2>1, <2>3 DEF LoginEndsOnce, Logins
  <2> QED
    BY <2>3, <2>4, <2>5, <2>6 DEF LoginTypes
<1>2. CASE ReceiveError
  <2> DEFINE ends == Head(outbox).cmd = "login" /\ login.open
  <2>1. /\ login' = [login EXCEPT !.open = @ /\ ~ends]
        /\ owed' = IF ends THEN owed - 1 ELSE owed
        /\ UNCHANGED <<route, proxy>>
    BY <1>2 DEF ReceiveError
  <2>2. /\ login' \in Logins /\ login'.routing = login.routing
        /\ login'.open = (login.open /\ ~ends)
    BY <1>0, <2>1 DEF Logins
  <2>3. owed' \in Int
    BY <1>0, <2>1
  <2>4. LoginEndsOnce => LoginEndsOnce'
    BY <1>0, <2>1, <2>2 DEF LoginEndsOnce, Logins
  <2> QED
    BY <1>0, <2>1, <2>2, <2>3, <2>4 DEF LoginTypes
<1>3. CASE PortDrops
  <2>1. /\ login' = [login EXCEPT !.open = FALSE]
        /\ owed' = IF login.open THEN owed - 1 ELSE owed
        /\ UNCHANGED <<route, proxy>>
    BY <1>3 DEF PortDrops
  <2>2. login' \in Logins /\ login'.routing = login.routing /\ ~login'.open
    BY <1>0, <2>1 DEF Logins
  <2>3. owed' \in Int
    BY <1>0, <2>1
  <2>4. LoginEndsOnce => LoginEndsOnce'
    BY <1>0, <2>1, <2>2 DEF LoginEndsOnce, Logins
  <2> QED
    BY <1>0, <2>1, <2>2, <2>3, <2>4 DEF LoginTypes
<1>4. CASE ClickLogin
  <2>1. RouteTypes'
    BY <1>0, <1>4, <1>a DEF ClickLogin
  <2> QED
    BY <1>4, <2>1, ClickFacts DEF LoginTypes
<1>5. CASE ProxyAnswers
  <2>1. RouteTypes' /\ \E health : Report(health)
    BY <1>0, <1>5 DEF ProxyAnswers
  <2> QED
    BY <2>1, ReportFacts DEF LoginTypes
<1>6. CASE ProxyFails
  BY <1>0, <1>6 DEF ProxyFails, LoginTypes, LoginEndsOnce
<1>7. CASE LoginOpenTimesOut
  <2>1. /\ login.open /\ login' = [login EXCEPT !.open = FALSE]
        /\ owed' = owed - 1 /\ UNCHANGED <<route, proxy>>
    BY <1>7 DEF LoginOpenTimesOut
  <2>2. login' \in Logins /\ login'.routing = login.routing /\ ~login'.open
    BY <1>0, <2>1 DEF Logins
  <2>3. LoginEndsOnce => LoginEndsOnce'
    BY <1>0, <2>1, <2>2 DEF LoginEndsOnce, Logins
  <2> QED
    BY <1>0, <2>1, <2>2, <2>3 DEF LoginTypes
<1>8. CASE LoginRoutingTimesOut
  <2>1. /\ login.routing /\ login' = [login EXCEPT !.routing = FALSE]
        /\ owed' = owed - 1 /\ UNCHANGED <<route, proxy>>
    BY <1>8 DEF LoginRoutingTimesOut
  <2>2. login' \in Logins /\ login'.open = login.open /\ ~login'.routing
    BY <1>0, <2>1 DEF Logins
  <2>3. LoginEndsOnce => LoginEndsOnce'
    BY <1>0, <2>1, <2>2 DEF LoginEndsOnce, Logins
  <2> QED
    BY <1>0, <2>1, <2>2, <2>3 DEF LoginTypes
<1>9. CASE NewProfile \/ ChangeServer
  BY <1>9, <1>b DEF NewProfile, ChangeServer
<1>10. CASE UNCHANGED loginVars
  BY <1>0, <1>10 DEF loginVars, LoginTypes, LoginEndsOnce
<1>11. ASSUME NEW c \in Commands(Profiles), RunCommand(c)
       PROVE  SwitchesAccount \/ UNCHANGED loginVars
  BY <1>11 DEF RunCommand
<1>12. ReceiveProfiles \/ RetryFires \/ PortConnects \/ OpenSwitcher
         \/ CloseSwitcher \/ CommandTimesOut \/ Logout => UNCHANGED loginVars
  BY DEF ReceiveProfiles, RetryFires, PortConnects, OpenSwitcher,
     CloseSwitcher, CommandTimesOut, Logout
<1>13. HelperHandles \/ HelperRefuses \/ SendsStatus \/ LoginCompletes
         \/ UNCHANGED vars => UNCHANGED loginVars
  BY DEF HelperHandles, HelperRefuses, SendsStatus, LoginCompletes, vars
<1> QED
  BY <1>1, <1>2, <1>3, <1>4, <1>5, <1>6, <1>7, <1>8, <1>9, <1>10, <1>11, <1>12,
     <1>13, <1>b DEF Next, Receive

-----------------------------------------------------------------------------
(* The switcher.                                                           *)

\* Without a port nothing is on its way, no retry and no command waits, and
\* the backend's state is not known.
Offline ==
    ~connected => /\ inbox = <<>> /\ outbox = <<>> /\ backendState = "NoState"
                  /\ ~refresh.timer /\ session.pending = NoCommand

\* An open switcher has seen what the store holds, so that only news end a
\* command; a deletion that waits is of a profile that is still listed.
SwitcherInStep ==
    /\ session.pending # NoCommand => session.open
    /\ session.open => session.diagnostic = helperDiagnostic
    /\ session.open /\ currentProfile # NoIdentity
         => session.confirmed = currentProfile
    /\ \A id \in Profiles : session.pending = Delete(id) => id \in profiles

\* What a render makes of an open session.
LEMMA RenderedFacts ==
  ASSUME NEW s \in Sessions(Profiles, Diagnostics), NEW state,
         state.current \in Ids, state.diag \in Diagnostics, s.open
  PROVE  LET t == Rendered(s, state)
         IN  /\ t.open /\ t.diagnostic = state.diag
             /\ state.current # NoIdentity => t.confirmed = state.current
             /\ t.pending # NoCommand =>
                  /\ t.pending = s.pending /\ state.up
                  /\ ~ConfirmedBy(s.pending, state)
             /\ /\ s.pending # NoCommand /\ t.pending = NoCommand
                /\ t.feedback = "" /\ ~(state.up /\ ConfirmedBy(s.pending, state))
                => /\ state.current # NoIdentity /\ s.confirmed # state.current
                   /\ ~state.up \/ state.diag # s.diagnostic
<1> DEFINE t == Settled(s, state)
           noticed == [t EXCEPT !.diagnostic = state.diag]
           m == t.pending = NoCommand /\ t.confirmed # state.current
           u == Rendered(s, state)
           told == [noticed EXCEPT !.confirmed = state.current,
                                   !.feedback = IF m THEN "" ELSE @]
<1>1. CASE s.pending = NoCommand
  <2>1. t = s
    BY <1>1 DEF Settled
  <2> QED
    BY <1>1, <2>1 DEF Rendered, Sessions
<1>2. CASE s.pending # NoCommand /\ t = s
  <2>1. state.up /\ ~ConfirmedBy(s.pending, state)
    <3>1. CASE ~state.up
      <4>1. t = Ended(s, "lost")
        BY <1>2, <3>1 DEF Settled
      <4>2. Ended(s, "lost").pending = NoCommand
        BY DEF Ended, Sessions
      <4> QED
        BY <1>2, <4>1, <4>2
    <3>2. CASE state.up /\ ConfirmedBy(s.pending, state)
      <4>1. t = Ended(s, "")
        BY <1>2, <3>2 DEF Settled
      <4>2. Ended(s, "").pending = NoCommand
        BY DEF Ended, Sessions
      <4> QED
        BY <1>2, <4>1, <4>2
    <3> QED
      BY <3>1, <3>2
  <2> QED
    BY <1>2, <2>1 DEF Rendered, Sessions
<1>3. CASE s.pending # NoCommand /\ t # s
  <2>1. \/ ~state.up /\ t = Ended(s, "lost")
        \/ state.up /\ ConfirmedBy(s.pending, state) /\ t = Ended(s, "")
        \/ /\ state.up /\ ~ConfirmedBy(s.pending, state)
           /\ ErrorCounts(s, state) /\ t = Ended(s, "failed")
    BY <1>3 DEF Settled
  <2>2. /\ t.pending = NoCommand /\ t.open /\ t.confirmed = s.confirmed
        /\ \/ ~state.up /\ t.feedback = "lost"
           \/ state.up /\ ConfirmedBy(s.pending, state)
           \/ state.diag # s.diagnostic /\ t.feedback = "failed"
        /\ t \in Sessions(Profiles, Diagnostics)
    <3>1. \A f \in Feedback :
            /\ Ended(s, f) \in Sessions(Profiles, Diagnostics)
            /\ Ended(s, f).pending = NoCommand /\ Ended(s, f).open
            /\ Ended(s, f).confirmed = s.confirmed
            /\ Ended(s, f).feedback = f
      BY DEF Ended, Sessions
    <3>2. "lost" \in Feedback /\ "" \in Feedback /\ "failed" \in Feedback
      BY DEF Feedback
    <3> QED
      BY <2>1, <3>1, <3>2 DEF ErrorCounts
  <2> HIDE DEF t
  <2>3. /\ noticed \in Sessions(Profiles, Diagnostics)
        /\ noticed.pending = NoCommand /\ noticed.open
        /\ noticed.confirmed = s.confirmed /\ noticed.feedback = t.feedback
        /\ noticed.diagnostic = state.diag
    BY <2>2 DEF Sessions
  <2>4. u = IF state.current = NoIdentity THEN noticed ELSE told
    BY DEF Rendered, t
  <2>5. CASE state.current = NoIdentity
    BY <2>2, <2>3, <2>4, <2>5
  <2>6. CASE state.current # NoIdentity
    <3> HIDE DEF noticed
    <3>1. /\ told.pending = NoCommand /\ told.open
          /\ told.confirmed = state.current /\ told.diagnostic = state.diag
          /\ told.feedback = IF s.confirmed # state.current THEN "" ELSE t.feedback
      BY <2>2, <2>3 DEF Sessions
    <3> QED
      BY <2>2, <2>4, <2>6, <3>1
  <2> QED
    BY <2>5, <2>6
<1> QED
  BY <1>1, <1>2, <1>3

\* A render with the new state of the store brings the switcher into step.
LEMMA RenderStep ==
  ASSUME StoreTypes', NEW s \in Sessions(Profiles, Diagnostics),
         s.pending # NoCommand => s.open, session' = Rendered(s, PopupState')
  PROVE  /\ session' \in Sessions(Profiles, Diagnostics) /\ SwitcherInStep'
         /\ session'.pending # NoCommand => connected'
<1> DEFINE state == PopupState'
<1>1. /\ state.current = currentProfile' /\ state.diag = helperDiagnostic'
      /\ state.profiles = profiles' /\ state.up = connected'
  BY DEF PopupState
<1>2. state.current \in Ids /\ state.diag \in Diagnostics
  BY <1>1 DEF StoreTypes
<1> HIDE DEF state
<1>3. session' = Rendered(s, state)
  BY DEF state
<1>4. session' \in Sessions(Profiles, Diagnostics)
  BY <1>2, <1>3, RenderedType
<1>5. CASE ~s.open
  <2>1. session' = s
    BY <1>3, <1>5 DEF Rendered
  <2>2. \A id \in Profiles : Delete(id) # NoCommand
    BY DEF Delete, NoCommand, None
  <2> QED
    BY <1>4, <1>5, <2>1, <2>2 DEF SwitcherInStep
<1>6. CASE s.open
  <2>1. /\ session'.open /\ session'.diagnostic = state.diag
        /\ state.current # NoIdentity => session'.confirmed = state.current
        /\ session'.pending # NoCommand =>
             /\ session'.pending = s.pending /\ state.up
             /\ ~ConfirmedBy(s.pending, state)
    <3> DEFINE t == Rendered(s, state)
    <3>1. /\ t.open /\ t.diagnostic = state.diag
          /\ state.current # NoIdentity => t.confirmed = state.current
          /\ t.pending # NoCommand =>
               /\ t.pending = s.pending /\ state.up
               /\ ~ConfirmedBy(s.pending, state)
      BY <1>2, <1>6, RenderedFacts
    <3> QED
      BY <1>3, <3>1
  <2>2. ASSUME NEW id \in Profiles, session'.pending = Delete(id)
        PROVE  id \in profiles'
    <3>1. Delete(id) # NoCommand
      BY DEF Delete, NoCommand, None
    <3>2. ~ConfirmedBy(Delete(id), state)
      BY <2>1, <2>2, <3>1
    <3> QED
      BY <1>1, <3>2 DEF ConfirmedBy, Delete
  <2> QED
    BY <1>1, <1>4, <2>1, <2>2 DEF SwitcherInStep
<1> QED
  BY <1>5, <1>6

LEMMA SwitcherStep ==
  ASSUME TypeInv, Offline, SwitcherInStep, [Next]_vars
  PROVE  /\ session' \in Sessions(Profiles, Diagnostics) /\ SwitcherInStep'
         /\ session'.pending # NoCommand => connected'
<1>0. /\ session \in Sessions(Profiles, Diagnostics)
      /\ session.pending # NoCommand => session.open /\ connected
      /\ StoreTypes' /\ StoreTypes
  BY StoreTypesStep DEF TypeInv, SwitcherInStep, Offline
<1>1. CASE ReceiveProfiles \/ ReceiveError \/ PortDrops \/ PortConnects
  <2>1. session' = Rendered(session, PopupState')
    BY <1>1 DEF ReceiveProfiles, ReceiveError, PortDrops, PortConnects
  <2> QED
    BY <1>0, <2>1, RenderStep
<1>a. ASSUME UNCHANGED store PROVE PopupState' = PopupState
  BY <1>a DEF store, PopupState
<1>2. CASE CommandTimesOut
  <2>1. /\ session' = Rendered(Ended(session, "timeout"), PopupState)
        /\ UNCHANGED store
    BY <1>2 DEF CommandTimesOut
  <2>2. Ended(session, "timeout") \in Sessions(Profiles, Diagnostics)
    BY <1>0, EndedType DEF Feedback
  <2>3. Ended(session, "timeout").pending = NoCommand
    BY <1>0 DEF Ended, Sessions
  <2> QED
    BY <1>0, <1>a, <2>1, <2>2, <2>3, RenderStep
<1>3. CASE OpenSwitcher
  <2>1. session' = Rendered(Opened(PopupState), PopupState) /\ UNCHANGED store
    BY <1>3 DEF OpenSwitcher
  <2>2. PopupState.current \in Ids /\ PopupState.diag \in Diagnostics
    BY <1>0, PopupTypes
  <2>3. /\ Opened(PopupState) \in Sessions(Profiles, Diagnostics)
        /\ Opened(PopupState).open
    BY <2>2 DEF Opened, Sessions, Feedback, Ids
  <2> QED
    BY <1>0, <1>a, <2>1, <2>3, RenderStep
<1>4. CASE NewProfile \/ CloseSwitcher
  <2>1. session' = Closed
    BY <1>4 DEF NewProfile, CloseSwitcher
  <2>2. \A id \in Profiles : Delete(id) # NoCommand
    BY DEF Delete, NoCommand, None
  <2>3. ~Closed.open /\ Closed.pending = NoCommand
    BY DEF Closed
  <2> QED
    BY <2>1, <2>2, <2>3, ClosedType DEF SwitcherInStep
<1>5. ASSUME NEW c \in Commands(Profiles), RunCommand(c)
      PROVE  /\ session' \in Sessions(Profiles, Diagnostics) /\ SwitcherInStep'
             /\ session'.pending # NoCommand => connected'
  <2> DEFINE s == [session EXCEPT !.pending = c, !.feedback = ""]
  <2>1. session' = Rendered(s, PopupState) /\ UNCHANGED store /\ session.open
    BY <1>5 DEF RunCommand, Begun, CanRunCommand
  <2>2. s \in Sessions(Profiles, Diagnostics) /\ s.open
    BY <1>0, <2>1 DEF Sessions, Feedback
  <2> QED
    BY <1>0, <1>a, <2>1, <2>2, RenderStep
<1>6. CASE ReceiveStatus \/ ChangeServer
  <2>1. UNCHANGED <<session, connected, currentProfile, profiles,
                    helperDiagnostic>>
    BY <1>6 DEF ReceiveStatus, ChangeServer
  <2> QED
    BY <1>0, <2>1 DEF SwitcherInStep
<1>7. CASE UNCHANGED <<session, store>>
  <2>1. UNCHANGED <<session, connected, currentProfile, profiles,
                    helperDiagnostic>>
    BY <1>7 DEF store
  <2> QED
    BY <1>0, <2>1 DEF SwitcherInStep
<1>8. RetryFires \/ ClickLogin \/ ProxyAnswers \/ ProxyFails \/ Logout
        \/ LoginOpenTimesOut \/ LoginRoutingTimesOut => UNCHANGED <<session, store>>
  BY DEF RetryFires, ClickLogin, ProxyAnswers, ProxyFails, Logout,
     LoginOpenTimesOut, LoginRoutingTimesOut
<1>9. HelperHandles \/ HelperRefuses \/ SendsStatus \/ LoginCompletes
        \/ UNCHANGED vars => UNCHANGED <<session, store>>
  BY DEF HelperHandles, HelperRefuses, SendsStatus, LoginCompletes, vars
<1> QED
  BY <1>1, <1>2, <1>3, <1>4, <1>5, <1>6, <1>7, <1>8, <1>9 DEF Next, Receive

LEMMA OfflineStep ==
  ASSUME TypeInv, Offline, SwitcherInStep, [Next]_vars
  PROVE  Offline'
<1> SUFFICES ASSUME ~connected' PROVE Offline'
  BY DEF Offline
<1>0. session'.pending = NoCommand /\ refresh \in Refreshes
  BY SwitcherStep DEF TypeInv
<1>1. CASE PortDrops
  <2>1. /\ inbox' = <<>> /\ outbox' = <<>> /\ backendState' = "NoState"
        /\ refresh' = RefreshOnDrop(refresh)
    BY <1>1 DEF PortDrops
  <2>2. ResetRetry(refresh) \in Refreshes /\ ~ResetRetry(refresh).timer
    BY <1>0, RetryTypes DEF ResetRetry, Refreshes
  <2>3. ~RefreshOnDrop(refresh).timer
    BY <2>2 DEF RefreshOnDrop, Refreshes
  <2> QED
    BY <1>0, <2>1, <2>3 DEF Offline
<1>2. CASE ~connected
  <2>0. /\ inbox = <<>> /\ outbox = <<>> /\ backendState = "NoState"
        /\ ~refresh.timer /\ session.pending = NoCommand
    BY <1>2 DEF Offline
  <2>1. CASE UNCHANGED <<inbox, outbox, backendState, refresh>>
    BY <1>0, <2>0, <2>1 DEF Offline
  <2>2. ProxyAnswers => UNCHANGED <<inbox, outbox, backendState, refresh>>
    BY <2>0 DEF ProxyAnswers, Report, store
  <2>3. ProxyFails \/ LoginOpenTimesOut \/ LoginRoutingTimesOut
          \/ CloseSwitcher \/ LoginCompletes \/ UNCHANGED vars
          => UNCHANGED <<inbox, outbox, backendState, refresh>>
    BY DEF ProxyFails, LoginOpenTimesOut, LoginRoutingTimesOut, CloseSwitcher,
       LoginCompletes, store, vars
  <2>4. ~Receive /\ ~RetryFires /\ ~PortDrops /\ ~PortConnects
    BY <1>2, <2>0 DEF Receive, ReceiveStatus, ReceiveProfiles, ReceiveError,
       RetryFires, PortDrops, PortConnects
  <2>5. /\ ~ClickLogin /\ ~OpenSwitcher /\ ~CommandTimesOut /\ ~NewProfile
        /\ ~\E command \in Commands(Profiles) : RunCommand(command)
        /\ ~Logout /\ ~ChangeServer
    BY <1>2, <2>0 DEF ClickLogin, OpenSwitcher, CommandTimesOut, NewProfile,
       RunCommand, CanRunCommand, PopupState, Logout, ChangeServer
  <2>6. ~HelperHandles /\ ~HelperRefuses /\ ~SendsStatus
    BY <1>2, <2>0 DEF HelperHandles, HelperRefuses, SendsStatus
  <2> QED
    BY <2>1, <2>2, <2>3, <2>4, <2>5, <2>6 DEF Next
<1>3. CASE connected /\ ~PortDrops
  <2>1. Receive \/ RetryFires \/ ClickLogin \/ ProxyAnswers \/ ProxyFails
          \/ LoginOpenTimesOut \/ LoginRoutingTimesOut => UNCHANGED connected
    BY DEF Receive, ReceiveStatus, ReceiveProfiles, ReceiveError, RetryFires,
       ClickLogin, ProxyAnswers, ProxyFails, LoginOpenTimesOut,
       LoginRoutingTimesOut, store
  <2>2. OpenSwitcher \/ CloseSwitcher \/ CommandTimesOut \/ NewProfile
          \/ (\E command \in Commands(Profiles) : RunCommand(command))
          \/ Logout \/ ChangeServer => UNCHANGED connected
    BY DEF OpenSwitcher, CloseSwitcher, CommandTimesOut, NewProfile,
       RunCommand, Logout, ChangeServer, store
  <2>3. HelperHandles \/ HelperRefuses \/ SendsStatus \/ LoginCompletes
          \/ UNCHANGED vars => UNCHANGED connected
    BY DEF HelperHandles, HelperRefuses, SendsStatus, LoginCompletes, vars, store
  <2>4. ~PortConnects
    BY <1>3 DEF PortConnects
  <2> QED
    BY <1>3, <2>1, <2>2, <2>3, <2>4 DEF Next
<1> QED
  BY <1>1, <1>2, <1>3

-----------------------------------------------------------------------------
(* What is listed of the helper's profiles, now and in the replies to come. *)

Reply(i) == i \in DOMAIN outbox /\ outbox[i].kind = "profiles"

\* The current profile is saved, and an id that was ever given is known.
IdsAreUsed ==
    /\ host.current \in host.profiles \cup {NoIdentity}
    /\ host.profiles \subseteq host.used /\ profiles \subseteq host.used
    /\ \A i \in DOMAIN outbox : Reply(i) => outbox[i].profiles \subseteq host.used

\* A profile that the helper has and some list on its way does not name is
\* one that was made after that list: nothing older names it.
NoReturn ==
    \A id \in host.profiles : \A i \in DOMAIN outbox :
      Reply(i) /\ id \notin outbox[i].profiles =>
        /\ id \notin profiles
        /\ \A j \in DOMAIN outbox : Reply(j) /\ j < i => id \notin outbox[j].profiles

ListsInv == IdsAreUsed /\ NoReturn

\* A message at the end that lists all profiles there are, or none.
LEMMA ListsAppend ==
  ASSUME TypeInv, ListsInv, NEW m \in Messages, outbox' = Append(outbox, m),
         host' \in Helpers, UNCHANGED profiles,
         host'.profiles \subseteq host.profiles, host'.used = host.used,
         host'.current \in host'.profiles \cup {NoIdentity},
         m.kind = "profiles" => m.profiles = host'.profiles
  PROVE  ListsInv'
<1>0. outbox \in Seq(Messages)
  BY DEF TypeInv, PortTypes
<1> DEFINE n == Len(outbox) + 1
<1>1. /\ Len(outbox) \in Nat /\ DOMAIN outbox = 1..Len(outbox)
      /\ DOMAIN outbox' = 1..n /\ outbox'[n] = m
      /\ \A i \in DOMAIN outbox : i \in DOMAIN outbox' /\ outbox'[i] = outbox[i]
  BY <1>0, AppendFacts
<1>2. \A i \in DOMAIN outbox' : i = n \/ i \in DOMAIN outbox
  BY <1>1
<1>3. n \notin DOMAIN outbox /\ \A i \in DOMAIN outbox : i < n
  BY <1>1
<1>4. IdsAreUsed'
  <2>1. ASSUME NEW i \in DOMAIN outbox', outbox'[i].kind = "profiles"
        PROVE  outbox'[i].profiles \subseteq host'.used
    <3>1. CASE i = n
      BY <1>1, <2>1, <3>1 DEF ListsInv, IdsAreUsed
    <3>2. CASE i \in DOMAIN outbox
      BY <1>1, <2>1, <3>2 DEF ListsInv, IdsAreUsed, Reply
    <3> QED
      BY <1>2, <3>1, <3>2
  <2> QED
    BY <2>1 DEF ListsInv, IdsAreUsed, Reply
<1>5. NoReturn'
  <2> SUFFICES ASSUME NEW id \in host'.profiles, NEW i \in DOMAIN outbox',
                      outbox'[i].kind = "profiles", id \notin outbox'[i].profiles
               PROVE  /\ id \notin profiles'
                      /\ \A j \in DOMAIN outbox' :
                           outbox'[j].kind = "profiles" /\ j < i
                             => id \notin outbox'[j].profiles
    BY DEF NoReturn, Reply
  <2>1. i # n
    BY <1>1
  <2>2. i \in DOMAIN outbox /\ outbox[i] = outbox'[i] /\ id \in host.profiles
    BY <1>1, <1>2, <2>1
  <2>3. /\ id \notin profiles
        /\ \A j \in DOMAIN outbox : outbox[j].kind = "profiles" /\ j < i
             => id \notin outbox[j].profiles
    BY <2>2 DEF ListsInv, NoReturn, Reply
  <2>4. ASSUME NEW j \in DOMAIN outbox', outbox'[j].kind = "profiles", j < i
        PROVE  id \notin outbox'[j].profiles
    <3>1. j \in DOMAIN outbox
      BY <1>1, <1>2, <2>2, <2>4
    <3> QED
      BY <1>1, <2>3, <2>4, <3>1
  <2> QED
    BY <2>3, <2>4
<1> QED
  BY <1>4, <1>5 DEF ListsInv

\* The first message is taken; if it is a list, it is what is shown.
LEMMA ListsTail ==
  ASSUME TypeInv, ListsInv, outbox # <<>>, outbox' = Tail(outbox), UNCHANGED host,
         IF Head(outbox).kind = "profiles"
         THEN profiles' = Head(outbox).profiles ELSE UNCHANGED profiles
  PROVE  ListsInv'
<1>0. outbox \in Seq(Messages)
  BY DEF TypeInv, PortTypes
<1>1. /\ Len(outbox) \in Nat \ {0} /\ DOMAIN outbox = 1..Len(outbox)
      /\ DOMAIN outbox' = 1..(Len(outbox) - 1) /\ Head(outbox) = outbox[1]
      /\ \A i \in DOMAIN outbox' : i + 1 \in DOMAIN outbox
                                   /\ outbox'[i] = outbox[i + 1]
  BY <1>0, TailFacts
<1>2. IdsAreUsed'
  BY <1>1 DEF ListsInv, IdsAreUsed, Reply
<1>3. NoReturn'
  <2> SUFFICES ASSUME NEW id \in host.profiles, NEW i \in DOMAIN outbox',
                      outbox'[i].kind = "profiles", id \notin outbox'[i].profiles
               PROVE  /\ id \notin profiles'
                      /\ \A j \in DOMAIN outbox' :
                           outbox'[j].kind = "profiles" /\ j < i
                             => id \notin outbox'[j].profiles
    BY DEF NoReturn, Reply
  <2>1. /\ i + 1 \in DOMAIN outbox /\ outbox[i + 1].kind = "profiles"
        /\ id \notin outbox[i + 1].profiles
    BY <1>1
  <2>2. /\ id \notin profiles
        /\ \A j \in DOMAIN outbox : outbox[j].kind = "profiles" /\ j < i + 1
             => id \notin outbox[j].profiles
    BY <2>1 DEF ListsInv, NoReturn, Reply
  <2>3. id \notin profiles'
    <3>1. 1 \in DOMAIN outbox /\ 1 < i + 1
      BY <1>1
    <3> QED
      BY <1>1, <2>2, <3>1
  <2>4. ASSUME NEW j \in DOMAIN outbox', outbox'[j].kind = "profiles", j < i
        PROVE  id \notin outbox'[j].profiles
    <3>1. j + 1 \in DOMAIN outbox /\ outbox'[j] = outbox[j + 1] /\ j + 1 < i + 1
      BY <1>1, <2>4
    <3> QED
      BY <2>2, <2>4, <3>1
  <2> QED
    BY <2>3, <2>4
<1> QED
  BY <1>2, <1>3 DEF ListsInv

LEMMA ListsStep ==
  ASSUME TypeInv, ListsInv, [Next]_vars
  PROVE  ListsInv'
<1>0. /\ host \in Helpers /\ inbox \in Seq(HelperCommands)
      /\ outbox \in Seq(Messages)
  BY DEF TypeInv, HelperTypes, PortTypes
<1>1. CASE Receive
  <2>1. /\ outbox # <<>> /\ outbox' = Tail(outbox) /\ UNCHANGED host
        /\ IF Head(outbox).kind = "profiles"
           THEN profiles' = Head(outbox).profiles ELSE UNCHANGED profiles
    BY <1>1 DEF Receive, ReceiveStatus, ReceiveProfiles, ReceiveError, helper
  <2> QED
    BY <2>1, ListsTail
<1>2. CASE PortDrops
  <2>1. outbox' = <<>> /\ UNCHANGED <<host, profiles>>
    BY <1>2 DEF PortDrops, helper
  <2>2. DOMAIN outbox' = {}
    BY <2>1
  <2> QED
    BY <2>1, <2>2 DEF ListsInv, IdsAreUsed, NoReturn
<1>3. CASE HelperHandles
  <2> DEFINE c == Head(inbox)
  <2>1. c \in HelperCommands /\ Known(c) /\ host' \in After(c)
    BY <1>0, <1>3, TailFacts DEF HelperHandles
  <2>2. /\ host' \in Helpers
        /\ host'.profiles \subseteq host.profiles /\ host'.used = host.used
        /\ host'.current \in host'.profiles \cup {NoIdentity}
    BY <1>0, <2>1, AfterFacts DEF ListsInv, IdsAreUsed
  <2>3. UNCHANGED profiles
    BY <1>3 DEF HelperHandles, store
  <2>4. CASE Lists(c)
    <3>1. outbox' = Append(outbox, ProfilesReply(host'))
      BY <1>3, <2>4 DEF HelperHandles
    <3>2. /\ ProfilesReply(host') \in Messages
          /\ ProfilesReply(host').profiles = host'.profiles
      BY <2>2, ReplyTypes DEF ProfilesReply
    <3> QED
      BY <2>2, <2>3, <3>1, <3>2, ListsAppend
  <2>5. CASE ~Lists(c)
    <3>1. UNCHANGED outbox
      BY <1>3, <2>5 DEF HelperHandles
    <3> QED
      BY <2>2, <2>3, <3>1 DEF ListsInv, IdsAreUsed, NoReturn, Reply
  <2> QED
    BY <2>4, <2>5
<1>4. CASE HelperRefuses
  <2> DEFINE m == ErrorReply(Head(inbox).type)
  <2>1. m \in Messages /\ m.kind # "profiles"
    BY <1>4, ReplyTypes DEF HelperRefuses, ErrorReply
  <2>2. outbox' = Append(outbox, m) /\ UNCHANGED <<host, profiles>>
    BY <1>4 DEF HelperRefuses, helper, store
  <2> HIDE DEF m
  <2>3. host.current \in host.profiles \cup {NoIdentity}
    BY DEF ListsInv, IdsAreUsed
  <2> QED
    BY <1>0, <2>1, <2>2, <2>3, ListsAppend
<1>5. CASE SendsStatus
  <2>1. PICK url \in (IF host.backend = "NeedsLogin" THEN Urls ELSE {""}) :
          outbox' = Append(outbox, [kind |-> "status", url |-> url,
                              backend |-> host.backend, moved |-> host.moved])
    BY <1>5 DEF SendsStatus
  <2> DEFINE m == [kind |-> "status", url |-> url, backend |-> host.backend,
                   moved |-> host.moved]
  <2>2. m \in Messages /\ m.kind # "profiles"
    BY <1>0, <2>1 DEF Helpers, Messages, StatusMsgs, Urls
  <2>3. host' = [host EXCEPT !.moved = FALSE] /\ UNCHANGED profiles
    BY <1>5 DEF SendsStatus, store
  <2>4. /\ host' \in Helpers /\ host'.profiles = host.profiles
        /\ host'.used = host.used /\ host'.current = host.current
    BY <1>0, <2>3 DEF Helpers
  <2>5. outbox' = Append(outbox, m)
    BY <2>1
  <2> HIDE DEF m
  <2>6. host.current \in host.profiles \cup {NoIdentity}
    BY DEF ListsInv, IdsAreUsed
  <2> QED
    BY <2>2, <2>3, <2>4, <2>5, <2>6, ListsAppend
<1>6. CASE LoginCompletes
  <2>1. PICK id \in (Profiles \ host.used) \cup ({host.current} \ {NoIdentity}) :
          host' = [host EXCEPT !.current = id, !.backend = "Running",
                               !.profiles = @ \cup {id}, !.used = @ \cup {id}]
    BY <1>6 DEF LoginCompletes
  <2>2. UNCHANGED <<outbox, profiles>>
    BY <1>6 DEF LoginCompletes, store
  <2>3. /\ host'.current = id /\ host'.profiles = host.profiles \cup {id}
        /\ host'.used = host.used \cup {id}
    BY <1>0, <2>1 DEF Helpers
  <2>4. IdsAreUsed'
    BY <2>2, <2>3 DEF ListsInv, IdsAreUsed, Reply
  <2>5. CASE id \in host.profiles
    BY <2>2, <2>3, <2>4, <2>5 DEF ListsInv, NoReturn, Reply
  <2>6. CASE id \notin host.used
    <3>1. /\ id \notin profiles
          /\ \A i \in DOMAIN outbox :
               outbox[i].kind = "profiles" => id \notin outbox[i].profiles
      BY <2>6 DEF ListsInv, IdsAreUsed, Reply
    <3> QED
      BY <2>2, <2>3, <2>4, <3>1 DEF ListsInv, NoReturn, Reply
  <2> QED
    BY <2>5, <2>6 DEF ListsInv, IdsAreUsed
<1>7. CASE UNCHANGED <<host, outbox, profiles>>
  BY <1>7 DEF ListsInv, IdsAreUsed, NoReturn, Reply
<1>8. RetryFires \/ PortConnects \/ ClickLogin \/ ProxyAnswers \/ ProxyFails
        \/ LoginOpenTimesOut \/ LoginRoutingTimesOut
        => UNCHANGED <<host, outbox, profiles>>
  BY DEF RetryFires, PortConnects, ClickLogin, ProxyAnswers, ProxyFails,
     LoginOpenTimesOut, LoginRoutingTimesOut, helper, store
<1>9. OpenSwitcher \/ CloseSwitcher \/ CommandTimesOut \/ NewProfile
        \/ (\E command \in Commands(Profiles) : RunCommand(command))
        \/ Logout \/ ChangeServer \/ UNCHANGED vars
        => UNCHANGED <<host, outbox, profiles>>
  BY DEF OpenSwitcher, CloseSwitcher, CommandTimesOut, NewProfile, RunCommand,
     Logout, ChangeServer, helper, store, vars
<1> QED
  BY <1>1, <1>2, <1>3, <1>4, <1>5, <1>6, <1>7, <1>8, <1>9 DEF Next

\* The step of DeletionIsDone: only a list without the profile ends its
\* deletion without a word, and by NoReturn the helper has it no more.
LEMMA DeletionStep ==
  ASSUME TypeInv, Offline, SwitcherInStep, ListsInv, [Next]_vars,
         NEW id \in Profiles, session.pending = Delete(id), session'.open,
         session'.pending = NoCommand, session'.feedback = ""
  PROVE  id \notin host.profiles
<1> DEFINE state == PopupState'
<1>0. /\ session \in Sessions(Profiles, Diagnostics)
      /\ outbox \in Seq(Messages) /\ StoreTypes'
  BY StoreTypesStep DEF TypeInv, PortTypes
<1>1. Delete(id) # NoCommand
  BY DEF Delete, NoCommand, None
<1>2. /\ session.open /\ connected /\ id \in profiles
      /\ session.diagnostic = helperDiagnostic
      /\ currentProfile # NoIdentity => session.confirmed = currentProfile
  BY <1>1 DEF SwitcherInStep, Offline
<1>3. /\ state.current = currentProfile' /\ state.diag = helperDiagnostic'
      /\ state.profiles = profiles' /\ state.up = connected'
      /\ state.current \in Ids /\ state.diag \in Diagnostics
  BY <1>0 DEF PopupState, StoreTypes
<1> HIDE DEF state
<1>a. ASSUME NEW s \in Sessions(Profiles, Diagnostics), s.open,
             s.pending # NoCommand, session' = Rendered(s, state),
             ~(state.up /\ ConfirmedBy(s.pending, state))
      PROVE  /\ state.current # NoIdentity /\ s.confirmed # state.current
             /\ ~state.up \/ state.diag # s.diagnostic
  <2> DEFINE t == Rendered(s, state)
  <2>1. /\ s.pending # NoCommand /\ t.pending = NoCommand
        /\ t.feedback = "" /\ ~(state.up /\ ConfirmedBy(s.pending, state))
        => /\ state.current # NoIdentity /\ s.confirmed # state.current
           /\ ~state.up \/ state.diag # s.diagnostic
    BY <1>3, <1>a, RenderedFacts
  <2> QED
    BY <1>a, <2>1
<1>4. CASE ReceiveProfiles
  <2>1. /\ session' = Rendered(session, state) /\ connected'
        /\ helperDiagnostic' = helperDiagnostic
        /\ outbox # <<>> /\ Head(outbox).kind = "profiles"
        /\ profiles' = Head(outbox).profiles
    BY <1>2, <1>4 DEF ReceiveProfiles, state
  <2>2. ConfirmedBy(Delete(id), state)
    BY <1>0, <1>1, <1>2, <1>3, <1>a, <2>1
  <2>3. id \notin Head(outbox).profiles
    BY <1>3, <2>1, <2>2 DEF ConfirmedBy, Delete
  <2>4. 1 \in DOMAIN outbox /\ outbox[1] = Head(outbox)
    BY <1>0, <2>1, HeadTypes
  <2> QED
    BY <1>2, <2>1, <2>3, <2>4 DEF ListsInv, NoReturn, Reply
<1>5. CASE ReceiveError \/ PortDrops
  <2>1. /\ session' = Rendered(session, state)
        /\ currentProfile' = currentProfile /\ profiles' = profiles
    BY <1>5 DEF ReceiveError, PortDrops, state
  <2>2. ~ConfirmedBy(Delete(id), state)
    BY <1>2, <1>3, <2>1 DEF ConfirmedBy, Delete
  <2> QED
    BY <1>0, <1>1, <1>2, <1>3, <1>a, <2>1, <2>2
<1>6. CASE CommandTimesOut
  <2> DEFINE s == Ended(session, "timeout")
  <2>1. session' = Rendered(s, PopupState) /\ UNCHANGED store
    BY <1>6 DEF CommandTimesOut
  <2>2. /\ PopupState.current = currentProfile /\ PopupState.current \in Ids
        /\ PopupState.diag \in Diagnostics
    BY <1>3, <2>1 DEF PopupState, store, state
  <2>3. /\ s \in Sessions(Profiles, Diagnostics) /\ s.pending = NoCommand
        /\ s.open /\ s.feedback = "timeout" /\ s.confirmed = session.confirmed
    BY <1>0, <1>2 DEF Ended, Sessions, Feedback
  <2> HIDE DEF s
  <2>4. Settled(s, PopupState) = s
    BY <2>3 DEF Settled
  <2>5. Rendered(s, PopupState).feedback = "timeout"
    BY <1>2, <2>2, <2>3, <2>4 DEF Rendered, Sessions
  <2> QED
    BY <2>1, <2>5
<1>7. ~PortConnects /\ ~OpenSwitcher
  BY <1>2 DEF PortConnects, OpenSwitcher
<1>8. ~NewProfile /\ ~\E c \in Commands(Profiles) : RunCommand(c)
  BY <1>1 DEF NewProfile, RunCommand, CanRunCommand
<1>9. ~CloseSwitcher
  <2>1. ~Closed.open
    BY DEF Closed
  <2> QED
    BY <2>1 DEF CloseSwitcher
<1>10. ReceiveStatus \/ ChangeServer \/ RetryFires \/ ClickLogin
         \/ ProxyAnswers \/ ProxyFails \/ Logout \/ LoginOpenTimesOut
         \/ LoginRoutingTimesOut => UNCHANGED session
  BY DEF ReceiveStatus, ChangeServer, RetryFires, ClickLogin, ProxyAnswers,
     ProxyFails, Logout, LoginOpenTimesOut, LoginRoutingTimesOut
<1>11. HelperHandles \/ HelperRefuses \/ SendsStatus \/ LoginCompletes
         \/ UNCHANGED vars => UNCHANGED session
  BY DEF HelperHandles, HelperRefuses, SendsStatus, LoginCompletes, vars
<1> QED
  BY <1>1, <1>4, <1>5, <1>6, <1>7, <1>8, <1>9, <1>10, <1>11 DEF Next, Receive

-----------------------------------------------------------------------------
(* What is on its way: a message, and the last message of a kind.          *)

Has(q, m) == \E i \in DOMAIN q : q[i] = m
NoneIn(q, kind) == \A i \in DOMAIN q : q[i].kind # kind
Ends(q, kind, m) ==
    \E i \in DOMAIN q : /\ q[i] = m /\ m.kind = kind
                        /\ \A j \in DOMAIN q : q[j].kind = kind => j <= i

LEMMA AppendHas ==
  ASSUME NEW S, NEW q \in Seq(S), NEW e \in S
  PROVE  /\ Has(Append(q, e), e)
         /\ \A m : Has(q, m) => Has(Append(q, e), m)
<1>1. Len(q) + 1 \in DOMAIN Append(q, e)
  BY AppendFacts
<1> QED
  BY <1>1, AppendFacts DEF Has

LEMMA TailHas ==
  ASSUME NEW S, NEW q \in Seq(S), q # <<>>, NEW m, Has(q, m)
  PROVE  Head(q) = m \/ Has(Tail(q), m)
<1>1. PICK i \in DOMAIN q : q[i] = m
  BY DEF Has
<1>2. CASE i = 1
  BY <1>1, <1>2
<1>3. CASE i # 1
  <2>1. i - 1 \in DOMAIN Tail(q) /\ i \in Int
    BY <1>3, TailFacts
  <2>2. Tail(q)[i - 1] = q[(i - 1) + 1] /\ (i - 1) + 1 = i
    BY <2>1, TailFacts
  <2> QED
    BY <1>1, <2>1, <2>2 DEF Has
<1> QED
  BY <1>2, <1>3

LEMMA AppendEnds ==
  ASSUME NEW q \in Seq(Messages), NEW e \in Messages, NEW kind
  PROVE  /\ e.kind = kind => Ends(Append(q, e), kind, e)
         /\ e.kind # kind => /\ NoneIn(q, kind) => NoneIn(Append(q, e), kind)
                             /\ \A m : Ends(q, kind, m) => Ends(Append(q, e), kind, m)
<1> DEFINE p == Append(q, e)
           n == Len(q) + 1
<1>1. /\ Len(q) \in Nat /\ DOMAIN q = 1..Len(q) /\ DOMAIN p = 1..n /\ p[n] = e
      /\ \A i \in DOMAIN q : i \in DOMAIN p /\ p[i] = q[i]
  BY AppendFacts
<1> HIDE DEF p
<1>2. n \in DOMAIN p /\ \A j \in DOMAIN p : j <= n /\ (j = n \/ j \in DOMAIN q)
  BY <1>1
<1>3. ASSUME e.kind = kind PROVE Ends(p, kind, e)
  BY <1>1, <1>2, <1>3 DEF Ends
<1>4. ASSUME e.kind # kind, NoneIn(q, kind) PROVE NoneIn(p, kind)
  BY <1>1, <1>2, <1>4 DEF NoneIn
<1>5. ASSUME e.kind # kind, NEW m, Ends(q, kind, m) PROVE Ends(p, kind, m)
  <2>1. PICK i \in DOMAIN q :
          /\ q[i] = m /\ m.kind = kind
          /\ \A j \in DOMAIN q : q[j].kind = kind => j <= i
    BY <1>5 DEF Ends
  <2>2. ASSUME NEW j \in DOMAIN p, p[j].kind = kind PROVE j <= i
    <3>1. j \in DOMAIN q
      BY <1>1, <1>2, <1>5, <2>2
    <3> QED
      BY <1>1, <2>1, <2>2, <3>1
  <2> QED
    BY <1>1, <2>1, <2>2 DEF Ends
<1> QED
  BY <1>3, <1>4, <1>5 DEF p

LEMMA TailEnds ==
  ASSUME NEW q \in Seq(Messages), q # <<>>, NEW kind
  PROVE  /\ NoneIn(q, kind) => Head(q).kind # kind /\ NoneIn(Tail(q), kind)
         /\ \A m : Ends(q, kind, m) =>
              \/ Ends(Tail(q), kind, m)
              \/ Head(q) = m /\ m.kind = kind /\ NoneIn(Tail(q), kind)
<1>1. /\ Len(q) \in Nat \ {0} /\ DOMAIN q = 1..Len(q)
      /\ DOMAIN Tail(q) = 1..(Len(q) - 1) /\ Head(q) = q[1]
      /\ \A i \in DOMAIN Tail(q) : i + 1 \in DOMAIN q /\ Tail(q)[i] = q[i + 1]
  BY TailFacts
<1>2. ASSUME NoneIn(q, kind)
      PROVE  Head(q).kind # kind /\ NoneIn(Tail(q), kind)
  <2>1. 1 \in DOMAIN q
    BY <1>1
  <2> QED
    BY <1>1, <1>2, <2>1 DEF NoneIn
<1>3. ASSUME NEW m, Ends(q, kind, m)
      PROVE  \/ Ends(Tail(q), kind, m)
             \/ Head(q) = m /\ m.kind = kind /\ NoneIn(Tail(q), kind)
  <2>1. PICK i \in DOMAIN q :
          /\ q[i] = m /\ m.kind = kind
          /\ \A j \in DOMAIN q : q[j].kind = kind => j <= i
    BY <1>3 DEF Ends
  <2>2. CASE i = 1
    <3>1. ASSUME NEW j \in DOMAIN Tail(q), Tail(q)[j].kind = kind PROVE FALSE
      <4>1. j + 1 \in DOMAIN q /\ q[j + 1].kind = kind /\ j \in 1..(Len(q) - 1)
        BY <1>1, <3>1
      <4>2. j + 1 <= i
        BY <2>1, <4>1
      <4> QED
        BY <1>1, <2>2, <4>1, <4>2
    <3> QED
      BY <1>1, <2>1, <2>2, <3>1 DEF NoneIn
  <2>3. CASE i # 1
    <3>1. /\ i - 1 \in DOMAIN Tail(q) /\ (i - 1) + 1 = i
          /\ Tail(q)[i - 1] = q[(i - 1) + 1]
      BY <1>1, <2>3
    <3>2. ASSUME NEW j \in DOMAIN Tail(q), Tail(q)[j].kind = kind PROVE j <= i - 1
      <4>1. j + 1 \in DOMAIN q /\ q[j + 1].kind = kind /\ j \in 1..(Len(q) - 1)
        BY <1>1, <3>2
      <4>2. j + 1 <= i
        BY <2>1, <4>1
      <4> QED
        BY <1>1, <4>1, <4>2
    <3> QED
      BY <2>1, <3>1, <3>2 DEF Ends
  <2> QED
    BY <2>2, <2>3
<1> QED
  BY <1>2, <1>3

-----------------------------------------------------------------------------
(* What is shown, and what is known to be out of date.                     *)

\* A backend that waits for a login needs a refresh, unless it was forgotten.
Debt(r) == r.latest = "NeedsLogin" /\ ~r.forgot => r.needed

\* The last status that was sent or is on its way is of the backend as it
\* is, unless a newer one is due.
StatusFollows ==
    connected /\ ~statusDue =>
      \/ \E m \in StatusMsgs :
           Ends(outbox, "status", m) /\ m.backend = host.backend
      \/ /\ NoneIn(outbox, "status")
         /\ refresh.latest = host.backend /\ Debt(refresh)

\* The profiles that will be shown once all replies are read.
Fresh == \/ Ends(outbox, "profiles", ProfilesReply(host))
         \/ /\ NoneIn(outbox, "profiles")
            /\ currentProfile = host.current /\ profiles = host.profiles

\* What tells the extension, now or soon, to ask for them.
Asking == refresh.needed \/ Has(inbox, List)
Warned ==
    \/ Has(outbox, ErrorReply("list-profiles"))
    \/ \E m \in StatusMsgs : m.backend = "NeedsLogin" /\ Has(outbox, m)
StaleIsKnown ==
    connected /\ ~refresh.forgot /\ host.backend = "Running"
      => Fresh \/ Asking \/ Warned

ShownInv == StatusFollows /\ StaleIsKnown

LEMMA ShownImplies == ShownInv => ShownIsCurrent
<1> SUFFICES ASSUME ShownInv, Quiet, host.backend = "Running",
                    ~refresh.needed, ~refresh.forgot
             PROVE  currentProfile = host.current /\ profiles = host.profiles
  BY DEF ShownIsCurrent
<1>1. DOMAIN inbox = {} /\ DOMAIN outbox = {} /\ connected
  BY DEF Quiet
<1>2. ~Asking /\ ~Warned
  BY <1>1 DEF Asking, Warned, Has
<1>3. Fresh
  BY <1>1, <1>2 DEF ShownInv, StaleIsKnown
<1> QED
  BY <1>1, <1>3 DEF Fresh, Ends

\* Steps that neither read the inbox nor drop it: what was asked for stays
\* asked for, and what the last status has left owing stays owing.
AskingKept ==
    ~refresh'.forgot => Asking' \/ (~refresh.forgot /\ ~Asking)
DebtKept ==
    refresh'.latest = refresh.latest /\ (Debt(refresh) => Debt(refresh'))

LEMMA RequestKeeps ==
  ASSUME TypeInv, NEW r \in Refreshes, RequestProfiles(r)
  PROVE  Asking' /\ refresh'.latest = r.latest
<1>1. /\ refresh'.latest = r.latest
      /\ inbox' = Append(inbox, List) \/ refresh'.needed
      /\ inbox \in Seq(HelperCommands)
  BY RequestFacts DEF TypeInv, PortTypes
<1> QED
  BY <1>1, AppendHas, ListType DEF Asking

LEMMA SendKeeps ==
  ASSUME TypeInv, NEW c \in HelperCommands,
         inbox' = inbox \/ inbox' = Append(inbox, c), Has(inbox, List)
  PROVE  Has(inbox', List)
<1>1. inbox \in Seq(HelperCommands)
  BY DEF TypeInv, PortTypes
<1>2. Has(Append(inbox, c), List)
  BY <1>1, AppendHas
<1> QED
  BY <1>2

LEMMA ReceiveKeeps ==
  ASSUME TypeInv, Receive
  PROVE  /\ AskingKept
         /\ ReceiveProfiles \/ ReceiveError => DebtKept
         /\ ReceiveStatus => /\ refresh'.latest = Head(outbox).backend
                             /\ Head(outbox).backend = "NeedsLogin" => refresh'.needed
         /\ ReceiveError /\ Head(outbox).cmd = "list-profiles" => refresh'.needed
<1>0. refresh \in Refreshes /\ outbox \in Seq(Messages)
  BY DEF TypeInv, PortTypes
<1>1. CASE ReceiveStatus
  <2> DEFINE msg == Head(outbox)
             r == RefreshOnStatus(refresh, msg)
  <2>1. outbox # <<>> /\ msg.kind = "status"
    BY <1>1 DEF ReceiveStatus
  <2>2. msg \in StatusMsgs
    BY <1>0, <2>1, HeadTypes
  <2>3. /\ r \in Refreshes /\ r.latest = msg.backend /\ r.forgot = refresh.forgot
        /\ refresh.needed \/ msg.backend = "NeedsLogin" => r.needed
    BY <1>0, <2>2, RefreshFacts
  <2> HIDE DEF r
  <2>4. \/ msg.backend = "Running" /\ RequestProfiles(r)
        \/ NoRequest(r)
    BY <1>1 DEF ReceiveStatus, r
  <2>5. CASE msg.backend = "Running" /\ RequestProfiles(r)
    BY <1>1, <2>1, <2>3, <2>5, RequestKeeps DEF AskingKept, ReceiveProfiles,
       ReceiveError
  <2>6. CASE NoRequest(r)
    <3>1. refresh' = r /\ UNCHANGED inbox
      BY <2>6 DEF NoRequest
    <3> QED
      BY <1>1, <2>1, <2>3, <3>1 DEF AskingKept, Asking, ReceiveProfiles,
         ReceiveError
  <2> QED
    BY <2>4, <2>5, <2>6
<1>2. CASE ReceiveProfiles
  <2> DEFINE r == AfterProfiles(refresh, Head(outbox).current)
  <2>1. Head(outbox).kind = "profiles"
    BY <1>2 DEF ReceiveProfiles
  <2>2. /\ r \in Refreshes /\ r.latest = refresh.latest
        /\ r.forgot = refresh.forgot /\ (refresh.needed => r.needed)
    BY <1>0, RefreshFacts
  <2> HIDE DEF r
  <2>3. /\ ResetRetry(r) \in Refreshes /\ ResetRetry(r).latest = r.latest
        /\ ResetRetry(r).forgot = r.forgot /\ ResetRetry(r).needed = r.needed
    BY <2>2, RefreshFacts
  <2>4. /\ ScheduleRetry(r).latest = r.latest
        /\ ScheduleRetry(r).forgot = r.forgot
        /\ ScheduleRetry(r).needed = r.needed
    BY <2>2, ScheduleKeeps
  <2>5. \/ refresh.latest = "Running" /\ RequestProfiles(ResetRetry(r))
        \/ NoRequest(ScheduleRetry(r)) \/ NoRequest(ResetRetry(r))
    BY <1>2 DEF ReceiveProfiles, AsksAgain, r
  <2>6. CASE refresh.latest = "Running" /\ RequestProfiles(ResetRetry(r))
    BY <2>1, <2>2, <2>3, <2>6, RequestKeeps DEF AskingKept, DebtKept, Debt,
       ReceiveStatus, ReceiveError
  <2>7. CASE NoRequest(ScheduleRetry(r)) \/ NoRequest(ResetRetry(r))
    <3>1. /\ refresh'.latest = refresh.latest /\ UNCHANGED inbox
          /\ refresh'.forgot = refresh.forgot
          /\ refresh.needed => refresh'.needed
      BY <2>2, <2>3, <2>4, <2>7 DEF NoRequest
    <3> QED
      BY <2>1, <3>1 DEF AskingKept, Asking, DebtKept, Debt, ReceiveStatus,
         ReceiveError
  <2> QED
    BY <2>5, <2>6, <2>7
<1>3. CASE ReceiveError
  <2> DEFINE failed == [refresh EXCEPT !.needed = TRUE, !.inFlight = FALSE]
  <2>1. /\ Head(outbox).kind = "error" /\ UNCHANGED inbox
        /\ refresh' = IF Head(outbox).cmd = "list-profiles"
                      THEN ScheduleRetry(failed) ELSE refresh
    BY <1>3 DEF ReceiveError
  <2>2. /\ failed \in Refreshes /\ failed.latest = refresh.latest
        /\ failed.forgot = refresh.forgot /\ failed.needed
    BY <1>0 DEF Refreshes
  <2> HIDE DEF failed
  <2>3. /\ ScheduleRetry(failed).latest = refresh.latest
        /\ ScheduleRetry(failed).forgot = refresh.forgot
        /\ ScheduleRetry(failed).needed
    BY <2>2, ScheduleKeeps
  <2> QED
    BY <2>1, <2>3 DEF AskingKept, Asking, DebtKept, Debt, ReceiveStatus,
       ReceiveProfiles
<1> QED
  BY <1>1, <1>2, <1>3 DEF Receive

\* The other steps that leave the helper and what it has sent.
LEMMA QuietKeeps ==
  ASSUME TypeInv, [Next]_vars, ~Receive, ~PortDrops, ~PortConnects,
         ~HelperHandles, ~HelperRefuses
  PROVE  AskingKept /\ DebtKept
<1>0. refresh \in Refreshes /\ inbox \in Seq(HelperCommands)
  BY DEF TypeInv, PortTypes
<1>a. ASSUME UNCHANGED refresh, NEW c \in HelperCommands,
             inbox' = inbox \/ inbox' = Append(inbox, c)
      PROVE  AskingKept /\ DebtKept
  BY <1>a, SendKeeps DEF AskingKept, Asking, DebtKept
<1>b. ASSUME refresh'.needed, refresh'.latest = refresh.latest
      PROVE  AskingKept /\ DebtKept
  BY <1>b DEF AskingKept, Asking, DebtKept, Debt
<1>1. CASE RetryFires
  <2> DEFINE r == [refresh EXCEPT !.timer = FALSE]
  <2>1. /\ r \in Refreshes /\ r.latest = refresh.latest
        /\ r.needed = refresh.needed /\ r.forgot = refresh.forgot
    BY <1>0 DEF Refreshes
  <2>2. (r.latest = "Running" /\ RequestProfiles(r)) \/ NoRequest(r)
    BY <1>1 DEF RetryFires
  <2> HIDE DEF r
  <2>3. CASE r.latest = "Running" /\ RequestProfiles(r)
    BY <2>1, <2>3, RequestKeeps DEF AskingKept, DebtKept, Debt
  <2>4. CASE NoRequest(r)
    BY <2>1, <2>4 DEF NoRequest, AskingKept, Asking, DebtKept, Debt
  <2> QED
    BY <2>2, <2>3, <2>4
<1>2. CASE ClickLogin
  BY <1>2, <1>a, ClickFacts, CommandTypes DEF ClickLogin
<1>3. CASE ProxyAnswers
  <2>1. UNCHANGED refresh /\ \E health : Report(health)
    BY <1>3 DEF ProxyAnswers
  <2>2. inbox' = inbox \/ inbox' = Append(inbox, Cmd("login", NoIdentity))
    BY <2>1, ReportFacts
  <2> QED
    BY <1>a, <2>1, <2>2, CommandTypes
<1>4. CASE NewProfile
  <2>1. /\ MarkNeeded(refresh) \in Refreshes /\ MarkNeeded(refresh).needed
        /\ MarkNeeded(refresh).latest = refresh.latest
    BY <1>0, RefreshFacts
  <2>2. refresh'.needed /\ refresh'.latest = refresh.latest
    BY <1>4, <2>1 DEF NewProfile, Refreshes
  <2> QED
    BY <1>b, <2>2
<1>5. CASE Logout \/ ChangeServer
  <2>1. refresh' = MarkNeeded(refresh)
    BY <1>5 DEF Logout, ChangeServer
  <2> QED
    BY <1>0, <1>b, <2>1, RefreshFacts
<1>6. ASSUME NEW c \in Commands(Profiles), RunCommand(c)
      PROVE  AskingKept /\ DebtKept
  <2>1. /\ inbox' = inbox \/ inbox' = Append(inbox, c)
        /\ refresh' \in {refresh, RefreshOnSwitch(refresh)}
    BY <1>6 DEF RunCommand, Sends
  <2>2. CASE UNCHANGED refresh
    BY <1>a, <2>1, <2>2, CommandTypes
  <2>3. CASE refresh' = RefreshOnSwitch(refresh)
    <3>1. /\ refresh'.latest = refresh.latest /\ ~refresh'.needed
          /\ refresh'.forgot = (refresh.forgot \/ refresh.needed)
      BY <1>0, <2>3, RefreshFacts
    <3>2. Has(inbox, List) => Has(inbox', List)
      BY <2>1, SendKeeps, CommandTypes
    <3> QED
      BY <3>1, <3>2 DEF AskingKept, Asking, DebtKept, Debt
  <2> QED
    BY <2>1, <2>2, <2>3
<1>7. CASE UNCHANGED <<refresh, inbox>>
  BY <1>7, <1>a, ListType
<1>8. ProxyFails \/ LoginOpenTimesOut \/ LoginRoutingTimesOut \/ OpenSwitcher
        \/ CloseSwitcher \/ CommandTimesOut => UNCHANGED <<refresh, inbox>>
  BY DEF ProxyFails, LoginOpenTimesOut, LoginRoutingTimesOut, OpenSwitcher,
     CloseSwitcher, CommandTimesOut
<1>9. SendsStatus \/ LoginCompletes \/ UNCHANGED vars => UNCHANGED <<refresh, inbox>>
  BY DEF SendsStatus, LoginCompletes, vars
<1> QED
  BY <1>1, <1>2, <1>3, <1>4, <1>5, <1>6, <1>7, <1>8, <1>9 DEF Next

\* Steps that change neither the helper, its messages, nor what is shown.
LEMMA StillSteps ==
  /\ RetryFires \/ ClickLogin \/ ProxyAnswers \/ ProxyFails
       \/ LoginOpenTimesOut \/ LoginRoutingTimesOut
       => UNCHANGED <<host, statusDue, outbox, connected, currentProfile, profiles>>
  /\ OpenSwitcher \/ CloseSwitcher \/ CommandTimesOut \/ NewProfile
       \/ (\E command \in Commands(Profiles) : RunCommand(command))
       \/ Logout \/ ChangeServer \/ UNCHANGED vars
       => UNCHANGED <<host, statusDue, outbox, connected, currentProfile, profiles>>
<1>1. RetryFires \/ ClickLogin \/ ProxyAnswers \/ ProxyFails
        \/ LoginOpenTimesOut \/ LoginRoutingTimesOut
        => UNCHANGED <<host, statusDue, outbox, connected, currentProfile, profiles>>
  BY DEF RetryFires, ClickLogin, ProxyAnswers, ProxyFails, LoginOpenTimesOut,
     LoginRoutingTimesOut, helper, store
<1>2. OpenSwitcher \/ CloseSwitcher \/ CommandTimesOut \/ NewProfile
        \/ (\E command \in Commands(Profiles) : RunCommand(command))
        \/ Logout \/ ChangeServer \/ UNCHANGED vars
        => UNCHANGED <<host, statusDue, outbox, connected, currentProfile, profiles>>
  BY DEF OpenSwitcher, CloseSwitcher, CommandTimesOut, NewProfile, RunCommand,
     Logout, ChangeServer, helper, store, vars
<1> QED
  BY <1>1, <1>2

LEMMA StatusFollowsStep ==
  ASSUME TypeInv, StatusFollows, [Next]_vars
  PROVE  StatusFollows'
<1>0. /\ refresh \in Refreshes /\ outbox \in Seq(Messages) /\ host \in Helpers
      /\ inbox \in Seq(HelperCommands) /\ statusDue \in BOOLEAN
  BY DEF TypeInv, PortTypes, HelperTypes
<1> SUFFICES ASSUME connected', ~statusDue' PROVE StatusFollows'
  BY DEF StatusFollows
<1>1. CASE Receive
  <2> DEFINE msg == Head(outbox)
  <2>1. /\ outbox # <<>> /\ outbox' = Tail(outbox) /\ connected /\ ~statusDue
        /\ host' = host
    <3>1. /\ outbox # <<>> /\ outbox' = Tail(outbox)
          /\ UNCHANGED <<host, statusDue, connected>>
      BY <1>1 DEF Receive, ReceiveStatus, ReceiveProfiles, ReceiveError, helper
    <3> QED
      BY <3>1
  <2>2. CASE ReceiveStatus
    <3>1. /\ msg.kind = "status" /\ refresh'.latest = msg.backend
          /\ msg.backend = "NeedsLogin" => refresh'.needed
      BY <1>1, <2>2, ReceiveKeeps DEF ReceiveStatus
    <3>2. ~NoneIn(outbox, "status")
      BY <1>0, <2>1, <3>1, TailEnds
    <3>3. PICK m \in StatusMsgs :
            Ends(outbox, "status", m) /\ m.backend = host.backend
      BY <2>1, <3>2 DEF StatusFollows
    <3>4. \/ Ends(outbox', "status", m)
          \/ msg = m /\ NoneIn(outbox', "status")
      BY <1>0, <2>1, <3>3, TailEnds
    <3> QED
      BY <2>1, <3>1, <3>3, <3>4 DEF StatusFollows, Debt
  <2>3. CASE ReceiveProfiles \/ ReceiveError
    <3>1. DebtKept /\ msg.kind # "status"
      BY <1>1, <2>3, ReceiveKeeps DEF ReceiveProfiles, ReceiveError
    <3>2. CASE \E m \in StatusMsgs :
                 Ends(outbox, "status", m) /\ m.backend = host.backend
      <4>1. PICK m \in StatusMsgs :
              Ends(outbox, "status", m) /\ m.backend = host.backend
        BY <3>2
      <4>2. Ends(outbox', "status", m)
        BY <1>0, <2>1, <3>1, <4>1, TailEnds
      <4> QED
        BY <2>1, <4>1, <4>2 DEF StatusFollows
    <3>3. CASE /\ NoneIn(outbox, "status")
               /\ refresh.latest = host.backend /\ Debt(refresh)
      <4>1. NoneIn(outbox', "status")
        BY <1>0, <2>1, <3>3, TailEnds
      <4> QED
        BY <2>1, <3>1, <3>3, <4>1 DEF StatusFollows, DebtKept
    <3> QED
      BY <2>1, <3>2, <3>3 DEF StatusFollows
  <2> QED
    BY <1>1, <2>2, <2>3 DEF Receive
<1>2. CASE PortDrops \/ PortConnects \/ LoginCompletes
  BY <1>2, Zenon DEF PortDrops, PortConnects, LoginCompletes
<1>a. ASSUME NEW m \in Messages, m.kind # "status", outbox' = Append(outbox, m),
             UNCHANGED <<host, refresh>>, connected, ~statusDue
      PROVE  StatusFollows'
  <2>1. CASE \E s \in StatusMsgs :
               Ends(outbox, "status", s) /\ s.backend = host.backend
    <3>1. PICK s \in StatusMsgs :
            Ends(outbox, "status", s) /\ s.backend = host.backend
      BY <2>1
    <3>2. Ends(outbox', "status", s)
      BY <1>0, <1>a, <3>1, AppendEnds
    <3> QED
      BY <1>a, <3>1, <3>2 DEF StatusFollows
  <2>2. CASE /\ NoneIn(outbox, "status")
             /\ refresh.latest = host.backend /\ Debt(refresh)
    <3>1. NoneIn(outbox', "status")
      BY <1>0, <1>a, <2>2, AppendEnds
    <3> QED
      BY <1>a, <2>2, <3>1 DEF StatusFollows
  <2> QED
    BY <1>a, <2>1, <2>2 DEF StatusFollows
<1>3. CASE HelperHandles
  <2>1. /\ Head(inbox) = List /\ ~statusDue /\ connected /\ UNCHANGED refresh
        /\ Known(Head(inbox)) /\ host' \in After(Head(inbox))
    BY <1>3 DEF HelperHandles, store
  <2>2. host' = host
    BY <1>0, <2>1, AfterFacts, ListType
  <2>3. outbox' = Append(outbox, ProfilesReply(host))
    BY <1>3, <2>1, <2>2 DEF HelperHandles, Lists, List, Cmd
  <2>4. ProfilesReply(host) \in Messages /\ ProfilesReply(host).kind # "status"
    BY <1>0, ReplyTypes DEF ProfilesReply
  <2> QED
    BY <1>a, <2>1, <2>2, <2>3, <2>4
<1>4. CASE HelperRefuses
  <2> DEFINE m == ErrorReply(Head(inbox).type)
  <2>1. m \in Messages /\ m.kind # "status"
    BY <1>4, ReplyTypes DEF HelperRefuses, ErrorReply
  <2>2. /\ outbox' = Append(outbox, m) /\ UNCHANGED <<host, refresh>>
        /\ connected /\ ~statusDue
    BY <1>4 DEF HelperRefuses, helper, store
  <2> HIDE DEF m
  <2> QED
    BY <1>a, <2>1, <2>2
<1>5. CASE SendsStatus
  <2>1. PICK url \in (IF host.backend = "NeedsLogin" THEN Urls ELSE {""}) :
          outbox' = Append(outbox, [kind |-> "status", url |-> url,
                              backend |-> host.backend, moved |-> host.moved])
    BY <1>5 DEF SendsStatus
  <2> DEFINE m == [kind |-> "status", url |-> url, backend |-> host.backend,
                   moved |-> host.moved]
  <2>2. m \in StatusMsgs /\ m.kind = "status" /\ m.backend = host.backend
    BY <1>0, <2>1 DEF Helpers, StatusMsgs, Urls
  <2>3. host' = [host EXCEPT !.moved = FALSE]
    BY <1>5 DEF SendsStatus
  <2>4. host'.backend = host.backend
    BY <1>0, <2>3 DEF Helpers
  <2>5. outbox' = Append(outbox, m)
    BY <2>1
  <2> HIDE DEF m
  <2>6. Ends(outbox', "status", m)
    BY <1>0, <2>2, <2>5, AppendEnds DEF Messages
  <2> QED
    BY <2>2, <2>4, <2>6 DEF StatusFollows
<1>6. CASE /\ ~Receive /\ ~PortDrops /\ ~PortConnects /\ ~HelperHandles
           /\ ~HelperRefuses /\ ~SendsStatus /\ ~LoginCompletes
  <2>1. AskingKept /\ DebtKept
    BY <1>6, QuietKeeps
  <2>2. UNCHANGED <<host, statusDue, outbox, connected, currentProfile, profiles>>
    BY <1>6, StillSteps DEF Next
  <2> QED
    BY <2>1, <2>2 DEF StatusFollows, DebtKept
<1> QED
  BY <1>1, <1>2, <1>3, <1>4, <1>5, <1>6

LEMMA StaleStep ==
  ASSUME TypeInv, ShownInv, [Next]_vars
  PROVE  StaleIsKnown'
<1>0. /\ refresh \in Refreshes /\ outbox \in Seq(Messages) /\ host \in Helpers
      /\ inbox \in Seq(HelperCommands)
  BY DEF TypeInv, PortTypes, HelperTypes
<1> SUFFICES ASSUME connected', ~refresh'.forgot, host'.backend = "Running"
             PROVE  Fresh' \/ Asking' \/ Warned'
  BY DEF StaleIsKnown
<1>1. CASE Receive
  <2> DEFINE msg == Head(outbox)
  <2>1. /\ outbox # <<>> /\ outbox' = Tail(outbox)
        /\ UNCHANGED <<host, connected>>
    BY <1>1 DEF Receive, ReceiveStatus, ReceiveProfiles, ReceiveError, helper
  <2>2. Asking' \/ (~refresh.forgot /\ ~Asking)
    BY <1>1, ReceiveKeeps DEF AskingKept
  <2>3. CASE Asking'
    BY <2>3
  <2>4. CASE ~Asking' /\ ~refresh.forgot /\ ~Asking
    <3>0. connected /\ host.backend = "Running"
      BY <2>1
    <3>1. Fresh \/ Warned
      BY <2>4, <3>0 DEF ShownInv, StaleIsKnown
    <3>2. CASE Ends(outbox, "profiles", ProfilesReply(host))
      <4>1. \/ Ends(outbox', "profiles", ProfilesReply(host))
            \/ msg = ProfilesReply(host) /\ NoneIn(outbox', "profiles")
        BY <1>0, <2>1, <3>2, TailEnds
      <4>2. CASE msg = ProfilesReply(host) /\ NoneIn(outbox', "profiles")
        <5>1. msg.kind = "profiles" /\ msg.current = host.current
              /\ msg.profiles = host.profiles
          BY <4>2 DEF ProfilesReply
        <5>2. currentProfile' = msg.current /\ profiles' = msg.profiles
          BY <1>1, <5>1 DEF Receive, ReceiveStatus, ReceiveProfiles, ReceiveError
        <5> QED
          BY <2>1, <4>2, <5>1, <5>2 DEF Fresh
      <4> QED
        BY <2>1, <4>1, <4>2 DEF Fresh, ProfilesReply
    <3>3. CASE /\ NoneIn(outbox, "profiles")
               /\ currentProfile = host.current /\ profiles = host.profiles
      <4>1. msg.kind # "profiles" /\ NoneIn(outbox', "profiles")
        BY <1>0, <2>1, <3>3, TailEnds
      <4>2. UNCHANGED <<currentProfile, profiles>>
        BY <1>1, <4>1 DEF Receive, ReceiveStatus, ReceiveProfiles, ReceiveError
      <4> QED
        BY <2>1, <3>3, <4>1, <4>2 DEF Fresh
    <3>4. CASE Has(outbox, ErrorReply("list-profiles"))
      <4>1. CASE msg = ErrorReply("list-profiles")
        <5>1. msg.kind = "error" /\ msg.cmd = "list-profiles"
          BY <4>1 DEF ErrorReply
        <5>2. ReceiveError
          BY <1>1, <5>1 DEF Receive, ReceiveStatus, ReceiveProfiles
        <5> QED
          BY <1>1, <5>1, <5>2, ReceiveKeeps DEF Asking
      <4>2. CASE msg # ErrorReply("list-profiles")
        BY <1>0, <2>1, <3>4, <4>2, TailHas DEF Warned
      <4> QED
        BY <4>1, <4>2
    <3>5. CASE \E m \in StatusMsgs : m.backend = "NeedsLogin" /\ Has(outbox, m)
      <4>1. PICK m \in StatusMsgs : m.backend = "NeedsLogin" /\ Has(outbox, m)
        BY <3>5
      <4>2. CASE msg = m
        <5>1. msg.kind = "status" /\ msg.backend = "NeedsLogin"
          BY <4>1, <4>2 DEF StatusMsgs
        <5>2. ReceiveStatus
          BY <1>1, <5>1 DEF Receive, ReceiveError, ReceiveProfiles
        <5> QED
          BY <1>1, <5>1, <5>2, ReceiveKeeps DEF Asking
      <4>3. CASE msg # m
        BY <1>0, <2>1, <4>1, <4>3, TailHas DEF Warned
      <4> QED
        BY <4>2, <4>3
    <3> QED
      BY <3>1, <3>2, <3>3, <3>4, <3>5 DEF Fresh, Warned
  <2> QED
    BY <2>2, <2>3, <2>4
<1>2. CASE PortDrops
  BY <1>2, Zenon DEF PortDrops
<1>3. CASE PortConnects
  BY <1>0, <1>3, RequestKeeps DEF PortConnects
<1>a. ASSUME NEW m \in Messages, m.kind # "profiles", outbox' = Append(outbox, m),
             host'.current = host.current, host'.profiles = host.profiles,
             UNCHANGED <<currentProfile, profiles>>, Fresh \/ Warned
      PROVE  Fresh' \/ Warned'
  <2>1. CASE Ends(outbox, "profiles", ProfilesReply(host))
    <3>1. ProfilesReply(host') = ProfilesReply(host)
      BY <1>a DEF ProfilesReply
    <3>2. Ends(outbox', "profiles", ProfilesReply(host))
      BY <1>0, <1>a, <2>1, AppendEnds
    <3> QED
      BY <3>1, <3>2 DEF Fresh
  <2>2. CASE /\ NoneIn(outbox, "profiles")
             /\ currentProfile = host.current /\ profiles = host.profiles
    <3>1. NoneIn(outbox', "profiles")
      BY <1>0, <1>a, <2>2, AppendEnds
    <3> QED
      BY <1>a, <2>2, <3>1 DEF Fresh
  <2>3. CASE Warned
    <3>1. \A e : Has(outbox, e) => Has(outbox', e)
      BY <1>0, <1>a, AppendHas
    <3> QED
      BY <2>3, <3>1 DEF Warned
  <2> QED
    BY <1>a, <2>1, <2>2, <2>3 DEF Fresh
<1>4. CASE HelperHandles
  <2> DEFINE c == Head(inbox)
  <2>1. /\ inbox # <<>> /\ Known(c) /\ host' \in After(c)
        /\ inbox' = Tail(inbox)
        /\ outbox' = IF Lists(c) THEN Append(outbox, ProfilesReply(host'))
                                 ELSE outbox
        /\ UNCHANGED <<connected, currentProfile, profiles, refresh>>
    BY <1>4 DEF HelperHandles, store
  <2>2. c \in HelperCommands
    BY <1>0, <2>1, TailFacts
  <2>3. host' \in Helpers /\ (~Lists(c) => host' = host)
    BY <1>0, <2>1, <2>2, AfterFacts
  <2>4. CASE Lists(c)
    <3>1. ProfilesReply(host') \in Messages /\ ProfilesReply(host').kind = "profiles"
      BY <2>3, ReplyTypes DEF ProfilesReply
    <3>2. Ends(outbox', "profiles", ProfilesReply(host'))
      BY <1>0, <2>1, <2>4, <3>1, AppendEnds
    <3> QED
      BY <3>2 DEF Fresh
  <2>5. CASE ~Lists(c)
    <3>1. c # List
      BY <2>5 DEF Lists, List, Cmd
    <3>2. Asking => Asking'
      BY <1>0, <2>1, <3>1, TailHas DEF Asking
    <3>3. Fresh \/ Asking \/ Warned
      BY <2>1, <2>3, <2>5 DEF ShownInv, StaleIsKnown
    <3>4. UNCHANGED <<host, outbox, currentProfile, profiles>>
      BY <2>1, <2>3, <2>5
    <3> QED
      BY <3>2, <3>3, <3>4 DEF Fresh, Warned
  <2> QED
    BY <2>4, <2>5
<1>5. CASE HelperRefuses
  <2> DEFINE c == Head(inbox)
             m == ErrorReply(c.type)
  <2>1. /\ inbox # <<>> /\ inbox' = Tail(inbox) /\ outbox' = Append(outbox, m)
        /\ UNCHANGED <<host, connected, currentProfile, profiles, refresh>>
    BY <1>5 DEF HelperRefuses, helper, store
  <2>2. m \in Messages /\ m.kind # "profiles"
    BY <1>5, ReplyTypes DEF HelperRefuses, ErrorReply
  <2>3. Fresh \/ Asking \/ Warned
    BY <2>1 DEF ShownInv, StaleIsKnown
  <2>4. CASE Asking /\ c # List
    BY <1>0, <2>1, <2>4, TailHas DEF Asking
  <2>5. CASE Asking /\ c = List
    <3>1. m = ErrorReply("list-profiles")
      BY <2>5 DEF List, Cmd
    <3>2. Has(outbox', m)
      BY <1>0, <2>1, <2>2, AppendHas
    <3> QED
      BY <3>1, <3>2 DEF Warned
  <2>6. CASE ~Asking
    <3> HIDE DEF m
    <3> QED
      BY <1>a, <2>1, <2>2, <2>3, <2>6
  <2> QED
    BY <2>4, <2>5, <2>6
<1>6. CASE SendsStatus
  <2>1. PICK url \in (IF host.backend = "NeedsLogin" THEN Urls ELSE {""}) :
          outbox' = Append(outbox, [kind |-> "status", url |-> url,
                              backend |-> host.backend, moved |-> host.moved])
    BY <1>6 DEF SendsStatus
  <2> DEFINE m == [kind |-> "status", url |-> url, backend |-> host.backend,
                   moved |-> host.moved]
  <2>2. m \in Messages /\ m.kind # "profiles"
    BY <1>0, <2>1 DEF Helpers, Messages, StatusMsgs, Urls
  <2>3. /\ host' = [host EXCEPT !.moved = FALSE]
        /\ UNCHANGED <<connected, currentProfile, profiles, refresh, inbox>>
    BY <1>6 DEF SendsStatus, store
  <2>4. /\ host'.backend = host.backend /\ host'.current = host.current
        /\ host'.profiles = host.profiles
    BY <1>0, <2>3 DEF Helpers
  <2>5. outbox' = Append(outbox, m)
    BY <2>1
  <2> HIDE DEF m
  <2>6. Fresh \/ Asking \/ Warned
    BY <2>3, <2>4 DEF ShownInv, StaleIsKnown
  <2>7. Asking => Asking'
    BY <2>3 DEF Asking
  <2> QED
    BY <1>a, <2>2, <2>3, <2>4, <2>5, <2>6, <2>7
<1>7. CASE LoginCompletes
  <2>1. /\ connected /\ ~statusDue /\ host.backend = "NeedsLogin"
        /\ ~refresh.forgot /\ UNCHANGED <<outbox, refresh>>
    BY <1>7 DEF LoginCompletes, store
  <2>2. CASE \E m \in StatusMsgs :
               Ends(outbox, "status", m) /\ m.backend = host.backend
    BY <2>1, <2>2 DEF Ends, Has, Warned
  <2>3. CASE refresh.latest = host.backend /\ Debt(refresh)
    BY <2>1, <2>3 DEF Debt, Asking
  <2> QED
    BY <2>1, <2>2, <2>3 DEF ShownInv, StatusFollows
<1>8. CASE /\ ~Receive /\ ~PortDrops /\ ~PortConnects /\ ~HelperHandles
           /\ ~HelperRefuses /\ ~SendsStatus /\ ~LoginCompletes
  <2>1. AskingKept
    BY <1>8, QuietKeeps
  <2>2. UNCHANGED <<host, statusDue, outbox, connected, currentProfile, profiles>>
    BY <1>8, StillSteps DEF Next
  <2>3. CASE Asking'
    BY <2>3
  <2>4. CASE ~refresh.forgot /\ ~Asking
    <3>1. Fresh \/ Warned
      BY <2>2, <2>4 DEF ShownInv, StaleIsKnown
    <3> QED
      BY <2>2, <3>1 DEF Fresh, Warned
  <2> QED
    BY <2>1, <2>3, <2>4 DEF AskingKept
<1> QED
  BY <1>1, <1>2, <1>3, <1>4, <1>5, <1>6, <1>7, <1>8

-----------------------------------------------------------------------------
(* The theorems.                                                           *)

IInv == /\ TypeInv /\ LoginEndsOnce /\ Offline /\ SwitcherInStep
        /\ ListsInv /\ ShownInv

LEMMA InitInv == Init => IInv
<1> SUFFICES ASSUME Init PROVE IInv
  OBVIOUS
<1>1. TypeInv
  BY InitTypes
<1>2. LoginEndsOnce
  <2>1. login = [open |-> FALSE, routing |-> FALSE, pending |-> FALSE] /\ owed = 0
    BY Zenon DEF Init
  <2> QED
    BY <2>1 DEF LoginEndsOnce
<1>3. /\ inbox = <<>> /\ outbox = <<>> /\ ~connected /\ backendState = "NoState"
      /\ ~refresh.timer /\ session = Closed /\ profiles = {}
  <2>1. refresh = [needed |-> FALSE, inFlight |-> FALSE, index |-> 0,
                   timer |-> FALSE, latest |-> None, forgot |-> FALSE]
    BY Zenon DEF Init
  <2>2. ~refresh.timer
    BY <2>1
  <2> QED
    BY <2>2, Zenon DEF Init
<1>4. Closed.pending = NoCommand /\ ~Closed.open
  BY DEF Closed
<1>5. Offline
  BY <1>3, <1>4, Zenon DEF Offline
<1>6. SwitcherInStep
  <2>1. \A id \in Profiles : Delete(id) # NoCommand
    BY DEF Delete, NoCommand, None
  <2> QED
    BY <1>3, <1>4, <2>1 DEF SwitcherInStep
<1>7. ListsInv
  <2>1. PICK id \in {CHOOSE first \in Saved : TRUE, NoIdentity} :
          host = [current |-> id, profiles |-> Saved, moved |-> FALSE,
                  used |-> Saved,
                  backend |-> IF id = NoIdentity THEN "NeedsLogin" ELSE "Running"]
    BY DEF Init
  <2>2. host.current \in Saved \cup {NoIdentity} /\ host.profiles = Saved
        /\ host.used = Saved
    BY <2>1, IdentityAssumption
  <2>3. DOMAIN outbox = {}
    BY <1>3
  <2> QED
    BY <1>3, <2>2, <2>3 DEF ListsInv, IdsAreUsed, NoReturn
<1>8. ShownInv
  BY <1>3, Zenon DEF ShownInv, StatusFollows, StaleIsKnown
<1> QED
  BY <1>1, <1>2, <1>5, <1>6, <1>7, <1>8 DEF IInv

LEMMA StepInv == IInv /\ [Next]_vars => IInv'
<1> SUFFICES ASSUME IInv, [Next]_vars PROVE IInv'
  OBVIOUS
<1>0. /\ TypeInv /\ LoginEndsOnce /\ Offline /\ SwitcherInStep
      /\ ListsInv /\ ShownInv
  BY DEF IInv
<1>1. TypeInv'
  BY <1>0, HelperTypesStep, PortTypesStep, StoreTypesStep, LoginStep,
     AskTypesStep, SwitcherStep DEF TypeInv, AskTypes
<1>2. LoginEndsOnce' /\ Offline' /\ SwitcherInStep' /\ ListsInv'
  BY <1>0, LoginStep, OfflineStep, SwitcherStep, ListsStep
<1>3. ShownInv'
  BY <1>0, StatusFollowsStep, StaleStep DEF ShownInv
<1> QED
  BY <1>1, <1>2, <1>3 DEF IInv

LEMMA Inductive == Spec => []IInv
<1> QED
  BY InitInv, StepInv, PTL DEF Spec

\* Every variable of the account handling of background.ts keeps its type.
THEOREM TypeCorrect == Spec => []TypeOK
<1>1. IInv => TypeOK
  BY TypeInvImplies DEF IInv
<1> QED
  BY <1>1, Inductive, PTL

\* requestLogin() and what ends it: however clicks, browser answers, statuses,
\* errors, timeouts and dropped ports interleave, an accepted login ends once.
THEOREM LoginsEndOnce == Spec => []LoginEndsOnce
<1>1. IInv => LoginEndsOnce
  BY DEF IInv
<1> QED
  BY <1>1, Inductive, PTL

\* The profile refresh of background.ts: with any number of messages on their
\* way, lost ports and failed requests, the profile shown is the helper's, or
\* the extension knows that it has to ask.
THEOREM ShownIsCurrentTheorem == Spec => []ShownIsCurrent
<1>1. IInv => ShownIsCurrent
  BY ShownImplies DEF IInv
<1> QED
  BY <1>1, Inductive, PTL

\* renderProfiles(): the switcher goes by whatever list arrives next, and yet
\* reports a deletion as done only when the helper has deleted the profile.
THEOREM DeletionTheorem == Spec => DeletionIsDone
<1> DEFINE Done == \A id \in Profiles :
                     (session.pending = Delete(id) /\ session'.open
                        /\ session'.pending = NoCommand /\ session'.feedback = "")
                       => id \notin host.profiles
<1>1. IInv /\ [Next]_vars => [Done]_vars
  BY DeletionStep DEF IInv
<1> QED
  BY <1>1, Inductive, PTL DEF Spec, DeletionIsDone
=============================================================================
