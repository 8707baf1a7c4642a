---------------------- MODULE ChromeProxyManagerProofs ---------------------
(***************************************************************************)
(* Proofs about ChromeProxyManager, for any ports, credentials, routes and *)
(* number of events, as long as no helper listens on the port of an        *)
(* earlier one: what is reported active is in place and authenticated, and *)
(* a browser that should be protected is not left open without a word.     *)
(***************************************************************************)
EXTENDS MCChromeProxyManager, TLAPS

-----------------------------------------------------------------------------
(* The inductive invariant.                                                *)

\* A PAC that lets requests through to a helper, and one whose helper is the
\* one the credentials are for.
Act(key) == key \in PACs /\ key.port # Blocked
Served(key) == Act(key) /\ session # Null /\ session.port = key.port

Final(key) == [key |-> key, probe |-> FALSE]
Untouched == inFlight = Null \/ inFlight.step \in {"get", "set"}

FlightOK ==
    inFlight # Null =>
      /\ desired \in Keys
      /\ inFlight.step = "probe" => inFlight.warming
      /\ inFlight.warming => Act(inFlight.key)

\* Every port in memory is that of a session so far: a new session has
\* another one.  What is wanted has the credentials it needs.
PortsOK ==
    /\ session # Null => session.port \in used
    /\ Act(appliedKey) => appliedKey.port \in used
    /\ inFlight # Null /\ Act(inFlight.key) => inFlight.key.port \in used
    /\ Act(desired) => Served(desired)

\* What is in place, or is put in place without a probe, has had its probe.
ProbedOK ==
    /\ Served(appliedKey) => readyPort = session.port
    /\ inFlight # Null =>
         /\ Served(inFlight.key) /\ ~inFlight.warming => readyPort = session.port
         /\ inFlight.warming => ~Served(appliedKey)

\* appliedKey tells the truth about Chrome, until a flush() has set another
\* setting and has not read it back.
InPlaceOK ==
    /\ Served(appliedKey) /\ Untouched => setting = Final(appliedKey)
    /\ appliedKey \in PACs /\ ~At("verify") => setting # Clear

ReportOK ==
    /\ inFlight = Null /\ health = "active" =>
         Act(desired) /\ appliedKey = desired
    /\ inFlight # Null /\ errorKey = desired => health # "active"
    /\ inFlight = Null /\ desired \in PACs /\ ~blamed
         /\ health \notin {"unavailable", "conflicted"} => setting # Clear

IInv == TypeOK /\ FlightOK /\ PortsOK /\ ProbedOK /\ InPlaceOK /\ ReportOK

\* What FreshPort says of a step, whoever takes it.
PortStep ==
    /\ used \subseteq used'
    /\ session' # Null => session'.port \in used'
    /\ session' = session \/ session' = Null \/ session'.port \notin used

-----------------------------------------------------------------------------
(* How a flush() goes on, in the state that its caller has prepared.       *)

\* The variables that the caller of Flush, Begin or Fail has set.
Prepared ==
    /\ desired' \in Keys
    /\ appliedKey' \in Keys \cup {Null} /\ errorKey' \in Keys \cup {Null}
    /\ session' \in Sessions \cup {Null} /\ readyPort' \in HelperPorts \cup {Null}
    /\ setting' \in Settings
    /\ other' \in BOOLEAN /\ changes' \in Nat /\ failing' \in BOOLEAN
    /\ session' # Null => session'.port \in used'
    /\ Act(appliedKey') => appliedKey'.port \in used'
    /\ Act(desired') => Served(desired)'
    /\ Served(appliedKey)' => readyPort' = session'.port
    /\ Served(appliedKey)' => setting' = Final(appliedKey')
    /\ appliedKey' \in PACs => setting' # Clear

LEMMA WarmingType == \A key : Warming(key) \in BOOLEAN
  BY DEF Warming

LEMMA NewFlightType ==
  ASSUME NEW key \in Keys
  PROVE  /\ NewFlight(key) \in Flights /\ NewFlight(key) # Null
         /\ NewFlight(key).key = key /\ NewFlight(key).step = "get"
         /\ NewFlight(key).warming = Warming(key)
<1>1. NewFlight(key) \in Flights
  BY WarmingType DEF NewFlight, Flights, Steps
<1> QED
  BY <1>1, SentinelAssumption DEF NewFlight

LEMMA BeginKeeps ==
  ASSUME Prepared, NEW pending \in BOOLEAN, Begin(desired', pending),
         health' \in Healths, errorKey' # desired'
  PROVE  IInv'
<1> DEFINE w == Warming(desired')
<1>1. /\ inFlight' \in Flights /\ inFlight' # Null
      /\ inFlight'.key = desired' /\ inFlight'.step = "get"
      /\ inFlight'.warming = w
  BY NewFlightType DEF Prepared, Begin
<1>2. authRoutingPending' \in BOOLEAN
  BY WarmingType DEF Begin
<1>3. w => Act(desired')
  BY SentinelAssumption DEF Prepared, Warming, IsActive, Act, Keys
<1>4. Act(desired') /\ ~w => readyPort' = session'.port
  BY SentinelAssumption DEF Prepared, Warming, IsActive, Act
<1>5. w => ~Served(appliedKey)'
  <2> SUFFICES ASSUME w, Served(appliedKey)' PROVE FALSE
    OBVIOUS
  <2>1. session' # Null /\ session'.port = desired'.port
    BY <1>3 DEF Prepared, Served
  <2>2. readyPort' = session'.port
    BY DEF Prepared
  <2> QED
    BY <2>1, <2>2 DEF Warming
<1> HIDE DEF w
<1>6. TypeOK'
  BY <1>1, <1>2 DEF TypeOK, Prepared
<1>7. FlightOK'
  BY <1>1, <1>3 DEF FlightOK, Prepared
<1>8. PortsOK'
  BY <1>1 DEF PortsOK, Prepared, Served
<1>9. ProbedOK'
  BY <1>1, <1>4, <1>5 DEF ProbedOK, Prepared, Served
<1>10. InPlaceOK'
  BY DEF InPlaceOK, Prepared
<1>11. ReportOK'
  BY <1>1 DEF ReportOK
<1> QED
  BY <1>6, <1>7, <1>8, <1>9, <1>10, <1>11 DEF IInv

\* The manager is at rest.
LEMMA RestKeeps ==
  ASSUME Prepared, inFlight' = Null, authRoutingPending' \in BOOLEAN,
         health' \in Healths, ReportOK'
  PROVE  IInv'
<1>1. TypeOK'
  BY DEF TypeOK, Prepared
<1>2. FlightOK' /\ PortsOK' /\ ProbedOK' /\ InPlaceOK'
  BY DEF FlightOK, PortsOK, ProbedOK, InPlaceOK, Prepared, Served
<1> QED
  BY <1>1, <1>2 DEF IInv

LEMMA HealthType == \A key : HealthOf(key) \in Healths
  BY DEF HealthOf, Healths

LEMMA FlushKeeps ==
  ASSUME Prepared, Blame, NEW pending \in BOOLEAN, health \in Healths,
         Flush(desired', appliedKey', errorKey', pending),
         errorKey' = desired' /\ health = "active" =>
           Act(desired') /\ appliedKey' = desired'
  PROVE  IInv'
<1>1. desired' # Null
  BY SentinelAssumption DEF Prepared
<1>2. CASE errorKey' = desired'
  <2>1. inFlight' = Null /\ authRoutingPending' = pending /\ health' = health
    BY <1>2 DEF Flush
  <2>2. blamed' = TRUE
    BY <1>1, <1>2 DEF Blame
  <2>3. ReportOK'
    BY <1>2, <2>1, <2>2 DEF ReportOK
  <2> QED
    BY <2>1, <2>3, RestKeeps
<1>3. CASE errorKey' # desired' /\ appliedKey' = desired'
  <2>1. /\ inFlight' = Null /\ authRoutingPending' = pending
        /\ health' = HealthOf(desired')
    BY <1>1, <1>3 DEF Flush
  <2>2. health' = "active" => Act(desired')
    BY <2>1 DEF HealthOf, IsActive, Act, Prepared, Keys
  <2>3. ReportOK'
    BY <1>3, <2>1, <2>2 DEF ReportOK, Prepared
  <2> QED
    BY <2>1, <2>3, RestKeeps, HealthType
<1>4. CASE errorKey' # desired' /\ appliedKey' # desired'
  BY <1>1, <1>4, BeginKeeps DEF Flush
<1> QED
  BY <1>2, <1>3, <1>4

\* fail() reports a problem, and goes on only to something else.
LEMMA FailKeeps ==
  ASSUME Prepared, Blame, NEW status \in {"unavailable", "conflicted"},
         Fail(status), desired' = desired, errorKey' = errorKey \/ errorKey' = inFlight.key,
         authRoutingPending \in BOOLEAN
  PROVE  IInv'
<1>1. health' = status /\ status \in Healths /\ status # "active"
  BY DEF Fail, Healths
<1>2. CASE desired \in {inFlight.key, errorKey}
  <2>1. inFlight' = Null /\ authRoutingPending' \in BOOLEAN
    BY <1>2 DEF Fail
  <2> QED
    BY <1>1, <2>1, RestKeeps DEF ReportOK
<1>3. CASE desired \notin {inFlight.key, errorKey}
  BY <1>1, <1>3, BeginKeeps DEF Fail
<1> QED
  BY <1>2, <1>3

\* Nothing that Chrome or the helper has changes, and appliedKey is kept
\* where it still tells the truth: this is so where a probe ends, too,
\* because it then is not a key that the session serves.
LEMMA KeptIsPrepared ==
  ASSUME IInv, PortStep, desired \in Keys,
         UNCHANGED <<desired, session, setting>>,
         readyPort' \in HelperPorts \cup {Null},
         errorKey' \in Keys \cup {Null},
         other' \in BOOLEAN, changes' \in Nat, failing' \in BOOLEAN,
         \/ appliedKey' = Null
         \/ appliedKey' = appliedKey /\ Untouched /\ readyPort' = readyPort
         \/ appliedKey' = appliedKey /\ At("probe")
  PROVE  Prepared
<1>1. TypeOK /\ FlightOK /\ PortsOK /\ ProbedOK /\ InPlaceOK
  BY DEF IInv
<1>2. /\ appliedKey' \in Keys \cup {Null} /\ session' \in Sessions \cup {Null}
      /\ setting' \in Settings /\ desired' \in Keys
  BY <1>1 DEF TypeOK
<1>3. session' # Null => session'.port \in used'
  BY DEF PortStep
<1>4. Act(desired') => Served(desired)'
  BY <1>1 DEF PortsOK, Served
<1>5. CASE appliedKey' = Null
  <2>1. ~Act(appliedKey') /\ appliedKey' \notin PACs /\ ~Served(appliedKey)'
    BY <1>5, SentinelAssumption DEF Act, Served, Keys
  <2> QED
    BY <1>2, <1>3, <1>4, <2>1 DEF Prepared
<1>6. CASE appliedKey' = appliedKey /\ Untouched /\ readyPort' = readyPort
  <2>1. Served(appliedKey)' <=> Served(appliedKey)
    BY <1>6 DEF Served
  <2>2. ~At("verify")
    BY <1>6 DEF Untouched, At
  <2>3. Act(appliedKey') => appliedKey'.port \in used'
    BY <1>1, <1>6 DEF PortsOK, PortStep
  <2>4. /\ Served(appliedKey)' => readyPort' = session'.port
        /\ Served(appliedKey)' => setting' = Final(appliedKey')
        /\ appliedKey' \in PACs => setting' # Clear
    BY <1>1, <1>6, <2>1, <2>2 DEF ProbedOK, InPlaceOK
  <2> QED
    BY <1>2, <1>3, <1>4, <2>3, <2>4 DEF Prepared
<1>7. CASE appliedKey' = appliedKey /\ At("probe")
  <2>1. ~Served(appliedKey)
    BY <1>1, <1>7 DEF At, FlightOK, ProbedOK
  <2>2. ~Served(appliedKey)'
    BY <1>7, <2>1 DEF Served
  <2>3. ~At("verify")
    BY <1>7 DEF At
  <2>4. Act(appliedKey') => appliedKey'.port \in used'
    BY <1>1, <1>7 DEF PortsOK, PortStep
  <2>5. appliedKey' \in PACs => setting' # Clear
    BY <1>1, <1>7, <2>3 DEF InPlaceOK
  <2> QED
    BY <1>2, <1>3, <1>4, <2>2, <2>4, <2>5 DEF Prepared
<1> QED
  BY <1>5, <1>6, <1>7

\* A flush() that goes on does not disturb what is reported.
LEMMA ActiveKept ==
  ASSUME IInv, inFlight # Null, errorKey = desired
  PROVE  health # "active"
BY DEF IInv, ReportOK

-----------------------------------------------------------------------------
(* apply() and setProxySession().                                          *)

LEMMA WantedType ==
  ASSUME NEW port \in HelperPorts \cup {Blocked, Null}, NEW routes \in Routes,
         NEW s \in Sessions \cup {Null}
  PROVE  /\ Wanted(port, routes, s) \in Keys
         /\ Act(Wanted(port, routes, s)) =>
              s # Null /\ s.port = Wanted(port, routes, s).port
<1>1. CASE port = Null
  BY <1>1, SentinelAssumption DEF Wanted, Keys, Act
<1>2. CASE port # Null
  <2> DEFINE k == Wanted(port, routes, s)
  <2>1. /\ k = [port |-> IF s # Null /\ s.port = port THEN port ELSE Blocked,
                routes |-> routes]
    BY <1>2 DEF Wanted
  <2>2. k \in PACs
    BY <1>2, <2>1 DEF PACs
  <2>3. k.port # Blocked => s # Null /\ s.port = k.port
    BY <2>1
  <2> QED
    BY <2>2, <2>3 DEF Keys, Act
<1> QED
  BY <1>1, <1>2

LEMMA ApplyKeeps ==
  ASSUME IInv, PortStep, Blame,
         NEW port \in HelperPorts \cup {Blocked, Null}, NEW routes \in Routes,
         Apply(port, routes)
  PROVE  IInv'
<1>1. TypeOK /\ FlightOK /\ PortsOK /\ ProbedOK /\ InPlaceOK /\ ReportOK
  BY DEF IInv
<1>2. /\ UNCHANGED <<appliedKey, session, readyPort, setting, other, changes, failing>>
      /\ desired' = Wanted(port, routes, session)
      /\ errorKey' = IF desired' = desired THEN errorKey ELSE Null
      /\ FlushUnlessInFlight(desired', appliedKey, errorKey')
  BY DEF Apply, auth, browser
<1>3. desired' \in Keys /\ (Act(desired') => Served(desired)')
  BY <1>1, <1>2, WantedType DEF TypeOK, Served
<1>4. desired' # Null
  BY <1>3, SentinelAssumption
<1>5. errorKey' = desired' => desired' = desired /\ errorKey = desired
  BY <1>2, <1>4
<1>6. errorKey' \in Keys \cup {Null}
  BY <1>1, <1>2 DEF TypeOK
<1>7. Served(appliedKey)' <=> Served(appliedKey)
  BY <1>2 DEF Served
<1>8. CASE inFlight = Null
  <2>1. Flush(desired', appliedKey', errorKey', authRoutingPending)
    BY <1>2, <1>8 DEF FlushUnlessInFlight
  <2>2. Untouched /\ ~At("verify")
    BY <1>8 DEF Untouched, At
  <2>3. Prepared
    BY <1>1, <1>2, <1>3, <1>6, <1>7, <2>2
       DEF Prepared, TypeOK, PortsOK, ProbedOK, InPlaceOK, PortStep
  <2>4. errorKey' = desired' /\ health = "active" =>
          Act(desired') /\ appliedKey' = desired'
    BY <1>1, <1>2, <1>5, <1>8 DEF ReportOK
  <2>5. health \in Healths /\ authRoutingPending \in BOOLEAN
    BY <1>1 DEF TypeOK
  <2> QED
    BY <2>1, <2>3, <2>4, <2>5, FlushKeeps
<1>9. CASE inFlight # Null
  <2>1. UNCHANGED <<inFlight, health, authRoutingPending>>
    BY <1>2, <1>9 DEF FlushUnlessInFlight
  <2>2. TypeOK'
    BY <1>1, <1>2, <1>3, <1>6, <2>1 DEF TypeOK
  <2>3. FlightOK' /\ PortsOK'
    BY <1>1, <1>2, <1>3, <2>1 DEF FlightOK, PortsOK, PortStep
  <2>4. Served(inFlight.key)' <=> Served(inFlight.key)
    BY <1>2, <2>1 DEF Served
  <2>5. ProbedOK' /\ InPlaceOK'
    BY <1>1, <1>2, <1>7, <2>1, <2>4 DEF ProbedOK, InPlaceOK, Untouched, At
  <2>6. ReportOK'
    BY <1>1, <1>5, <1>9, <2>1 DEF ReportOK
  <2> QED
    BY <2>2, <2>3, <2>5, <2>6 DEF IInv
<1> QED
  BY <1>8, <1>9

\* A session that moves while a flush() is under way.
LEMMA MovedFlight ==
  ASSUME IInv, inFlight # Null,
         inFlight' = [inFlight EXCEPT !.sessionMoved = TRUE, !.aborted = TRUE]
  PROVE  /\ inFlight' \in Flights /\ inFlight' # Null
         /\ inFlight'.key = inFlight.key /\ inFlight'.step = inFlight.step
         /\ inFlight'.warming = inFlight.warming
<1>1. inFlight \in Flights
  BY DEF IInv, TypeOK
<1>2. inFlight' \in Flights
  BY <1>1 DEF Flights
<1> QED
  BY <1>1, <1>2, SentinelAssumption DEF Flights

LEMMA SetProxySessionKeeps ==
  ASSUME IInv, PortStep, Blame,
         NEW port \in HelperPorts \cup {Blocked, Null}, NEW routes \in Routes,
         NEW s \in Sessions \cup {Null}, SetProxySession(s, port, routes)
  PROVE  IInv'
<1>1. TypeOK /\ FlightOK /\ PortsOK /\ ProbedOK /\ InPlaceOK /\ ReportOK
  BY DEF IInv
<1>2. /\ UNCHANGED <<setting, other, changes, failing>>
      /\ s # session /\ session' = s /\ readyPort' = Null
      /\ appliedKey' = Null /\ errorKey' = Null
      /\ desired' = Wanted(port, routes, s)
  BY DEF SetProxySession, browser
<1>3. desired' \in Keys /\ (Act(desired') => Served(desired)')
  BY <1>2, WantedType DEF Served
<1>4. /\ errorKey' # desired' /\ appliedKey' \notin PACs
      /\ ~Act(appliedKey') /\ ~Served(appliedKey)'
  BY <1>2, <1>3, SentinelAssumption DEF Keys, Act, Served
<1>5. Prepared
  BY <1>1, <1>2, <1>3, <1>4 DEF Prepared, TypeOK, PortStep
<1>6. CASE inFlight = Null
  <2>1. Flush(desired', appliedKey', errorKey', authRoutingPending)
    BY <1>2, <1>6 DEF SetProxySession
  <2>2. health \in Healths /\ authRoutingPending \in BOOLEAN
    BY <1>1 DEF TypeOK
  <2> QED
    BY <1>4, <1>5, <2>1, <2>2, FlushKeeps
<1>7. CASE inFlight # Null
  <2>1. /\ inFlight' = [inFlight EXCEPT !.sessionMoved = TRUE, !.aborted = TRUE]
        /\ UNCHANGED <<authRoutingPending, health>>
    BY <1>7 DEF SetProxySession
  <2>2. /\ inFlight' \in Flights /\ inFlight' # Null
        /\ inFlight'.key = inFlight.key /\ inFlight'.step = inFlight.step
        /\ inFlight'.warming = inFlight.warming
    BY <1>7, <2>1, MovedFlight
  <2>3. TypeOK'
    BY <1>1, <1>5, <2>1, <2>2 DEF TypeOK, Prepared
  <2>4. FlightOK' /\ PortsOK'
    BY <1>1, <1>3, <1>4, <1>7, <2>2 DEF FlightOK, PortsOK, PortStep
  <2>5. ~Served(inFlight.key)'
    BY <1>1, <1>2, <1>7, <2>2 DEF PortsOK, PortStep, Served
  <2>6. ProbedOK' /\ InPlaceOK'
    BY <1>4, <2>5 DEF ProbedOK, InPlaceOK
  <2>7. ReportOK'
    BY <1>4, <2>2 DEF ReportOK
  <2> QED
    BY <2>3, <2>4, <2>6, <2>7 DEF IInv
<1> QED
  BY <1>6, <1>7

LEMMA SetNoSessionAgainKeeps ==
  ASSUME IInv, PortStep, Blame, SetNoSessionAgain
  PROVE  IInv'
<1>1. TypeOK /\ FlightOK /\ PortsOK /\ ProbedOK /\ InPlaceOK /\ ReportOK
  BY DEF IInv
<1>2. /\ session = Null /\ appliedKey' = Null /\ errorKey' = Null
      /\ UNCHANGED <<desired, authRoutingPending, session, readyPort, health,
                     setting, other, changes, failing>>
  BY DEF SetNoSessionAgain, auth, browser
<1>3. /\ appliedKey' \notin PACs /\ ~Act(appliedKey')
      /\ ~Served(appliedKey)' /\ ~Act(desired')
  BY <1>1, <1>2, SentinelAssumption DEF Keys, Act, Served, PortsOK
<1>4. CASE inFlight = Null
  <2>1. inFlight' = Null
    BY <1>4 DEF SetNoSessionAgain
  <2>2. ~blamed' => ~blamed
    BY <1>2 DEF Blame
  <2>3. TypeOK' /\ FlightOK' /\ PortsOK' /\ ProbedOK' /\ InPlaceOK'
    BY <1>1, <1>2, <1>3, <2>1
       DEF TypeOK, FlightOK, PortsOK, ProbedOK, InPlaceOK
  <2>4. ReportOK'
    BY <1>1, <1>2, <1>3, <1>4, <2>1, <2>2 DEF ReportOK
  <2> QED
    BY <2>3, <2>4 DEF IInv
<1>5. CASE inFlight # Null
  <2>1. inFlight' = [inFlight EXCEPT !.sessionMoved = TRUE, !.aborted = TRUE]
    BY <1>5 DEF SetNoSessionAgain
  <2>2. /\ inFlight' \in Flights /\ inFlight' # Null
        /\ inFlight'.key = inFlight.key /\ inFlight'.step = inFlight.step
        /\ inFlight'.warming = inFlight.warming
    BY <1>5, <2>1, MovedFlight
  <2>3. desired \in Keys /\ desired # Null
    BY <1>1, <1>5, SentinelAssumption DEF FlightOK
  <2>4. ~Served(inFlight.key)'
    BY <1>2 DEF Served
  <2>5. TypeOK' /\ FlightOK' /\ PortsOK'
    BY <1>1, <1>2, <1>3, <1>5, <2>2 DEF TypeOK, FlightOK, PortsOK, PortStep
  <2>6. ProbedOK' /\ InPlaceOK'
    BY <1>3, <2>4 DEF ProbedOK, InPlaceOK
  <2>7. ReportOK'
    BY <1>2, <2>2, <2>3 DEF ReportOK
  <2> QED
    BY <2>5, <2>6, <2>7 DEF IInv
<1> QED
  BY <1>4, <1>5

-----------------------------------------------------------------------------
(* The callbacks of a flush().                                             *)

LEMMA GetReturnedKeeps ==
  ASSUME IInv, PortStep, Blame, NEW err \in BOOLEAN, GetReturned(err)
  PROVE  IInv'
<1>1. TypeOK /\ FlightOK /\ PortsOK /\ ProbedOK /\ InPlaceOK /\ ReportOK
  BY DEF IInv
<1>2. /\ inFlight # Null /\ inFlight.step = "get" /\ inFlight \in Flights
      /\ UNCHANGED <<desired, errorKey, session, readyPort, setting, other,
                     changes, failing>>
  BY <1>1 DEF GetReturned, At, auth, browser, TypeOK
<1>3. /\ desired \in Keys /\ Untouched /\ health \in Healths
      /\ authRoutingPending \in BOOLEAN
  BY <1>1, <1>2 DEF FlightOK, Untouched, TypeOK
<1>4. ASSUME appliedKey' \in {appliedKey, Null} PROVE Prepared
  BY <1>1, <1>2, <1>3, <1>4, KeptIsPrepared DEF TypeOK
<1>5. CASE /\ appliedKey' = appliedKey
           /\ Flush(desired, appliedKey, errorKey, authRoutingPending)
  BY <1>2, <1>3, <1>4, <1>5, ActiveKept, FlushKeeps
<1>6. ASSUME NEW status \in {"unavailable", "conflicted"}, Fail(status)
      PROVE  IInv'
  BY <1>2, <1>3, <1>4, <1>6, FailKeeps DEF Fail
<1>7. CASE /\ inFlight' = [inFlight EXCEPT !.step = "set"]
           /\ UNCHANGED <<appliedKey, authRoutingPending, health>>
  <2>1. /\ inFlight' \in Flights /\ inFlight'.key = inFlight.key
        /\ inFlight'.step = "set" /\ inFlight'.warming = inFlight.warming
    BY <1>2, <1>7 DEF Flights, Steps
  <2>2. inFlight' # Null
    BY <2>1, SentinelAssumption
  <2>3. /\ Served(inFlight.key)' <=> Served(inFlight.key)
        /\ Served(appliedKey)' <=> Served(appliedKey)
        /\ Served(desired)' <=> Served(desired)
    BY <1>2, <1>7, <2>1 DEF Served
  <2>4. TypeOK' /\ FlightOK' /\ PortsOK'
    BY <1>1, <1>2, <1>7, <2>1, <2>2, <2>3
       DEF TypeOK, FlightOK, PortsOK, PortStep
  <2>5. ProbedOK' /\ InPlaceOK' /\ ReportOK'
    BY <1>1, <1>2, <1>3, <1>7, <2>1, <2>2, <2>3
       DEF ProbedOK, InPlaceOK, ReportOK, Untouched, At
  <2> QED
    BY <2>4, <2>5 DEF IInv
<1>8. \/ /\ appliedKey' = appliedKey
         /\ Flush(desired, appliedKey, errorKey, authRoutingPending)
      \/ Fail("unavailable") \/ Fail("conflicted")
      \/ /\ inFlight' = [inFlight EXCEPT !.step = "set"]
         /\ UNCHANGED <<appliedKey, authRoutingPending, health>>
  BY DEF GetReturned
<1> QED
  BY <1>5, <1>6, <1>7, <1>8

OnItsWay ==
    \/ inFlight'.step = "verify"
    \/ inFlight'.step = "probe" /\ inFlight.warming /\ setting' # Clear

\* A flush() on its way from one await to the next, with the setting that
\* Chrome has by then.
LEMMA FlightKeeps ==
  ASSUME IInv, PortStep, inFlight # Null, inFlight' \in Flights,
         inFlight'.key = inFlight.key, inFlight'.warming = inFlight.warming,
         OnItsWay,
         setting' \in Settings, health' \in Healths,
         health' = health \/ health' # "active",
         UNCHANGED <<desired, appliedKey, errorKey, authRoutingPending,
                     session, readyPort, other, failing>>,
         changes' \in Nat
  PROVE  IInv'
<1>1. TypeOK /\ FlightOK /\ PortsOK /\ ProbedOK /\ InPlaceOK /\ ReportOK
  BY DEF IInv
<1>2. inFlight' # Null
  BY SentinelAssumption
<1>3. /\ Served(inFlight.key)' <=> Served(inFlight.key)
      /\ Served(appliedKey)' <=> Served(appliedKey)
      /\ Served(desired)' <=> Served(desired)
  BY DEF Served
<1>4. TypeOK' /\ FlightOK' /\ PortsOK'
  BY <1>1, <1>2, <1>3 DEF OnItsWay, TypeOK, FlightOK, PortsOK, PortStep
<1>5. ProbedOK' /\ ReportOK'
  BY <1>1, <1>2, <1>3 DEF ProbedOK, ReportOK
<1>6. InPlaceOK'
  BY <1>2 DEF OnItsWay, InPlaceOK, Untouched, At
<1> QED
  BY <1>4, <1>5, <1>6 DEF IInv

LEMMA SetDoneKeeps ==
  ASSUME IInv, PortStep, SetDone
  PROVE  IInv'
<1>1. TypeOK
  BY DEF IInv
<1>2. inFlight # Null /\ inFlight \in Flights
  BY <1>1 DEF SetDone, At, TypeOK
<1>3. setting' \in Settings
  BY <1>2 DEF SetDone, Value, Settings, Flights, Keys
<1>4. changes' \in Nat
  BY <1>1 DEF SetDone, TypeOK
<1>5. /\ inFlight' \in Flights /\ inFlight'.key = inFlight.key
      /\ inFlight'.step = "verify" /\ inFlight'.warming = inFlight.warming
  BY <1>2 DEF SetDone, Flights, Steps
<1>6. /\ UNCHANGED <<desired, appliedKey, errorKey, authRoutingPending, session,
                     readyPort, other, failing>>
  BY DEF SetDone, auth
<1>7. health' \in Healths /\ (health' = health \/ health' # "active")
  BY <1>1 DEF SetDone, TypeOK
<1>8. OnItsWay
  BY <1>5 DEF OnItsWay
<1> QED
  BY <1>2, <1>3, <1>4, <1>5, <1>6, <1>7, <1>8, FlightKeeps

LEMMA SetFailedKeeps ==
  ASSUME IInv, PortStep, Blame, SetFailed
  PROVE  IInv'
<1>1. TypeOK /\ FlightOK
  BY DEF IInv
<1>2. /\ inFlight # Null /\ Fail("unavailable")
      /\ UNCHANGED <<desired, errorKey, session, readyPort, setting, other,
                     changes, failing>>
  BY DEF SetFailed, At, auth, browser
<1>3. Prepared
  BY <1>1, <1>2, KeptIsPrepared DEF TypeOK, FlightOK, Fail
<1> QED
  BY <1>1, <1>2, <1>3, FailKeeps DEF TypeOK

\* The setting was read back and is the one that was asked for.
LEMMA FinishKeeps ==
  ASSUME IInv, PortStep, Blame, inFlight # Null, inFlight.step = "verify",
         ~inFlight.warming,
         inFlight.key = Clear \/ setting = Value(inFlight), Finish,
         UNCHANGED <<desired, errorKey, session, readyPort, setting, other,
                     changes, failing>>
  PROVE  IInv'
<1>1. TypeOK /\ FlightOK /\ PortsOK /\ ProbedOK /\ InPlaceOK /\ ReportOK
  BY DEF IInv
<1>2. inFlight \in Flights /\ inFlight.key \in Keys /\ appliedKey' = inFlight.key
  BY <1>1 DEF TypeOK, Flights, Finish
<1>3. /\ Served(appliedKey)' <=> Served(inFlight.key)
      /\ Served(desired)' <=> Served(desired)
  BY <1>2 DEF Served
<1>4. inFlight.key \in PACs => setting = Final(inFlight.key) /\ setting # Clear
  <2> SUFFICES ASSUME inFlight.key \in PACs
               PROVE  setting = Final(inFlight.key) /\ setting # Clear
    OBVIOUS
  <2>1. inFlight.key # Clear
    BY SentinelAssumption
  <2>2. inFlight.warming = FALSE
    BY <1>2 DEF Flights
  <2>3. setting = Final(inFlight.key)
    BY <2>1, <2>2 DEF Value, Final
  <2>4. Final(inFlight.key) \in [key: PACs, probe: BOOLEAN]
    BY DEF Final
  <2> QED
    BY <2>3, <2>4, SentinelAssumption
<1>5. Prepared
  <2>1. Served(appliedKey)' => inFlight.key \in PACs
    BY <1>3 DEF Served, Act
  <2>2. Served(appliedKey)' => readyPort' = session'.port
    BY <1>1, <1>3 DEF ProbedOK
  <2>3. Act(appliedKey') => appliedKey'.port \in used'
    BY <1>1, <1>2 DEF PortsOK, PortStep
  <2>4. desired' \in Keys /\ (Act(desired') => Served(desired)')
    BY <1>1, <1>3 DEF FlightOK, PortsOK
  <2> QED
    BY <1>1, <1>2, <1>4, <2>1, <2>2, <2>3, <2>4 DEF Prepared, TypeOK, PortStep
<1>6. CASE inFlight.key = desired
  <2>1. /\ inFlight' = Null /\ health' = HealthOf(desired)
        /\ authRoutingPending' = FALSE
    BY <1>6 DEF Finish
  <2>2. health' = "active" => Act(desired')
    BY <1>2, <1>6, <2>1 DEF HealthOf, IsActive, Act, Keys
  <2>3. ReportOK'
    BY <1>2, <1>4, <1>6, <2>1, <2>2 DEF ReportOK
  <2> QED
    BY <1>5, <2>1, <2>3, RestKeeps, HealthType
<1>7. CASE inFlight.key # desired
  <2>1. Flush(desired', appliedKey', errorKey', FALSE)
    BY <1>2, <1>7 DEF Finish
  <2> QED
    BY <1>1, <1>5, <2>1, ActiveKept, FlushKeeps DEF TypeOK
<1> QED
  BY <1>6, <1>7

LEMMA VerifiedKeeps ==
  ASSUME IInv, PortStep, Blame, NEW err \in BOOLEAN, Verified(err)
  PROVE  IInv'
<1>1. TypeOK /\ FlightOK
  BY DEF IInv
<1>2. /\ inFlight # Null /\ inFlight.step = "verify" /\ inFlight \in Flights
      /\ UNCHANGED <<desired, errorKey, session, readyPort, setting, other,
                     changes, failing>>
  BY <1>1 DEF Verified, At, auth, browser, TypeOK
<1> DEFINE mine == inFlight.key = Clear \/ (~other /\ setting = Value(inFlight))
<1>3. CASE /\ inFlight' = [inFlight EXCEPT !.changed = FALSE]
           /\ UNCHANGED <<appliedKey, health, authRoutingPending>>
  <2>1. /\ inFlight' \in Flights /\ inFlight'.key = inFlight.key
        /\ inFlight'.step = "verify" /\ inFlight'.warming = inFlight.warming
    BY <1>2, <1>3 DEF Flights
  <2>2. health' \in Healths /\ (health' = health \/ health' # "active")
    BY <1>1, <1>3 DEF TypeOK
  <2> QED
    BY <1>1, <1>2, <1>3, <2>1, <2>2, FlightKeeps DEF OnItsWay, TypeOK
<1>4. ASSUME NEW status \in {"unavailable", "conflicted"}, Fail(status)
      PROVE  IInv'
  <2>1. Prepared
    BY <1>1, <1>2, <1>4, KeptIsPrepared DEF TypeOK, FlightOK, Fail
  <2> QED
    BY <1>1, <1>2, <1>4, <2>1, FailKeeps DEF TypeOK
<1>5. CASE /\ mine /\ inFlight.warming
           /\ health' = IF inFlight.key = desired THEN "blocked" ELSE health
           /\ inFlight' = [inFlight EXCEPT !.step = "probe", !.aborted = FALSE]
           /\ UNCHANGED <<appliedKey, authRoutingPending>>
  <2>1. /\ inFlight' \in Flights /\ inFlight'.key = inFlight.key
        /\ inFlight'.step = "probe" /\ inFlight'.warming = inFlight.warming
    BY <1>2, <1>5 DEF Flights, Steps
  <2>2. inFlight.key \in PACs /\ inFlight.key # Clear
    BY <1>1, <1>2, <1>5, SentinelAssumption DEF FlightOK, Act
  <2>3. setting # Clear
    <3>1. Value(inFlight) \in [key: PACs, probe: BOOLEAN]
      BY <1>2, <2>2 DEF Value, Flights
    <3> QED
      BY <1>5, <2>2, <3>1, SentinelAssumption
  <2>4. health' \in Healths /\ (health' = health \/ health' # "active")
    BY <1>1, <1>5 DEF TypeOK, Healths
  <2> QED
    BY <1>1, <1>2, <1>5, <2>1, <2>3, <2>4, FlightKeeps DEF OnItsWay, TypeOK
<1>6. CASE mine /\ ~inFlight.warming /\ Finish
  BY <1>2, <1>6, FinishKeeps
<1> QED
  BY <1>3, <1>4, <1>5, <1>6 DEF Verified

LEMMA ProbeAnsweredKeeps ==
  ASSUME IInv, PortStep, Blame, ProbeAnswered
  PROVE  IInv'
<1>1. TypeOK /\ FlightOK
  BY DEF IInv
<1>2. /\ inFlight # Null /\ At("probe")
      /\ UNCHANGED <<desired, appliedKey, errorKey, session, setting, other,
                     changes, failing>>
      /\ Flush(desired', appliedKey', errorKey', authRoutingPending)
  BY DEF ProbeAnswered, At, browser
<1>3. readyPort' \in HelperPorts
  BY <1>1 DEF ProbeAnswered, HasSession, TypeOK, Sessions
<1>4. Prepared
  BY <1>1, <1>2, <1>3, KeptIsPrepared DEF TypeOK, FlightOK
<1> QED
  BY <1>1, <1>2, <1>4, ActiveKept, FlushKeeps DEF TypeOK

LEMMA ProbeRejectedKeeps ==
  ASSUME IInv, PortStep, Blame, ProbeRejected
  PROVE  IInv'
<1>1. TypeOK /\ FlightOK
  BY DEF IInv
<1>2. /\ inFlight # Null /\ At("probe") /\ inFlight \in Flights
      /\ UNCHANGED <<desired, session, readyPort, setting, other, changes,
                     failing>>
  BY <1>1 DEF ProbeRejected, At, auth, browser, TypeOK
<1>3. CASE /\ UNCHANGED <<appliedKey, errorKey>>
           /\ Flush(desired, appliedKey, errorKey, authRoutingPending)
  <2>1. Prepared
    BY <1>1, <1>2, <1>3, KeptIsPrepared DEF TypeOK, FlightOK
  <2> QED
    BY <1>1, <1>2, <1>3, <2>1, ActiveKept, FlushKeeps DEF TypeOK
<1>4. CASE /\ inFlight.key = desired
           /\ errorKey' = inFlight.key /\ Fail("unavailable")
  <2>1. Prepared
    BY <1>1, <1>2, <1>4, KeptIsPrepared DEF TypeOK, FlightOK, Fail
  <2>2. /\ inFlight' = Null /\ authRoutingPending' \in BOOLEAN
        /\ health' = "unavailable"
    BY <1>1, <1>4 DEF Fail, TypeOK
  <2> QED
    BY <2>1, <2>2, RestKeeps DEF ReportOK, Healths
<1> QED
  BY <1>3, <1>4 DEF ProbeRejected

-----------------------------------------------------------------------------
(* Events of the browser.                                                  *)

\* An event that changes nothing of the manager, its session or its setting.
LEMMA QuietKeeps ==
  ASSUME IInv, PortStep, Blame,
         UNCHANGED <<desired, appliedKey, errorKey, authRoutingPending,
                     inFlight, session, readyPort, health, setting>>,
         other' \in BOOLEAN, changes' \in Nat, failing' \in BOOLEAN
  PROVE  IInv'
<1>1. TypeOK /\ FlightOK /\ PortsOK /\ ProbedOK /\ InPlaceOK /\ ReportOK
  BY DEF IInv
<1>2. /\ Served(inFlight.key)' <=> Served(inFlight.key)
      /\ Served(appliedKey)' <=> Served(appliedKey)
      /\ Served(desired)' <=> Served(desired)
  BY DEF Served
<1>3. TypeOK' /\ FlightOK' /\ PortsOK'
  BY <1>1, <1>2 DEF TypeOK, FlightOK, PortsOK, PortStep
<1>4. ProbedOK' /\ InPlaceOK'
  BY <1>1, <1>2 DEF ProbedOK, InPlaceOK, Untouched, At
<1>5. ~blamed' => ~blamed
  BY DEF Blame
<1>6. ReportOK'
  BY <1>1, <1>5 DEF ReportOK
<1> QED
  BY <1>3, <1>4, <1>6 DEF IInv

LEMMA ChangeEventKeeps ==
  ASSUME IInv, PortStep, Blame, ChangeEvent
  PROVE  IInv'
<1>1. TypeOK /\ FlightOK /\ PortsOK /\ ProbedOK /\ InPlaceOK /\ ReportOK
  BY DEF IInv
<1>2. /\ changes' \in Nat
      /\ UNCHANGED <<desired, errorKey, session, readyPort, setting, other,
                     failing>>
      /\ other' \in BOOLEAN /\ failing' \in BOOLEAN
      /\ authRoutingPending \in BOOLEAN /\ health \in Healths
  BY <1>1 DEF ChangeEvent, TypeOK, auth
<1>3. CASE /\ inFlight # Null
           /\ inFlight' = [inFlight EXCEPT !.changed = TRUE]
           /\ UNCHANGED <<appliedKey, health, authRoutingPending>>
  <2>1. inFlight \in Flights
    BY <1>1, <1>3 DEF TypeOK
  <2>2. /\ inFlight' \in Flights /\ inFlight'.key = inFlight.key
        /\ inFlight'.step = inFlight.step /\ inFlight'.warming = inFlight.warming
    BY <1>3, <2>1 DEF Flights
  <2>3. inFlight' # Null
    BY <2>2, SentinelAssumption
  <2>4. /\ Served(inFlight.key)' <=> Served(inFlight.key)
        /\ Served(appliedKey)' <=> Served(appliedKey)
        /\ Served(desired)' <=> Served(desired)
    BY <1>2, <1>3, <2>2 DEF Served
  <2>5. TypeOK' /\ FlightOK' /\ PortsOK'
    BY <1>1, <1>2, <1>3, <2>2, <2>3, <2>4
       DEF TypeOK, FlightOK, PortsOK, PortStep
  <2>6. ProbedOK' /\ InPlaceOK' /\ ReportOK'
    BY <1>1, <1>2, <1>3, <2>2, <2>3, <2>4
       DEF ProbedOK, InPlaceOK, ReportOK, Untouched, At
  <2> QED
    BY <2>5, <2>6 DEF IInv
<1>4. CASE UNCHANGED <<inFlight, appliedKey, health, authRoutingPending>>
  BY <1>2, <1>4, QuietKeeps
<1>5. CASE inFlight = Null /\ desired \in PACs /\ appliedKey' \in {appliedKey, Null}
  <2>1. desired \in Keys /\ Untouched
    BY <1>5 DEF Keys, Untouched
  <2>2. Prepared
    BY <1>1, <1>2, <1>5, <2>1, KeptIsPrepared DEF TypeOK
  <2>3. CASE health' = "conflicted" /\ UNCHANGED <<inFlight, authRoutingPending>>
    BY <1>2, <1>5, <2>2, <2>3, RestKeeps DEF ReportOK, Healths
  <2>4. CASE /\ health' = "conflicted" /\ errorKey # desired
             /\ Begin(desired, authRoutingPending)
    BY <1>2, <2>2, <2>4, BeginKeeps DEF Healths
  <2>5. CASE /\ appliedKey' = IF setting = [key |-> desired, probe |-> FALSE]
                              THEN appliedKey ELSE Null
             /\ Flush(desired, appliedKey', errorKey, authRoutingPending)
    <3>1. ASSUME health = "active" PROVE Act(desired') /\ appliedKey' = desired'
      <4>1. Act(desired) /\ appliedKey = desired
        BY <1>1, <1>5, <3>1 DEF ReportOK
      <4>2. Served(appliedKey)
        BY <1>1, <4>1 DEF PortsOK
      <4>3. setting = [key |-> desired, probe |-> FALSE]
        BY <1>1, <2>1, <4>1, <4>2 DEF InPlaceOK, Final
      <4> QED
        BY <1>2, <2>5, <4>1, <4>3
    <3> QED
      BY <1>2, <2>2, <2>5, <3>1, FlushKeeps
  <2>6. \/ health' = "conflicted" /\ UNCHANGED <<inFlight, authRoutingPending>>
        \/ /\ health' = "conflicted" /\ errorKey # desired
           /\ Begin(desired, authRoutingPending)
        \/ /\ appliedKey' = IF setting = [key |-> desired, probe |-> FALSE]
                            THEN appliedKey ELSE Null
           /\ Flush(desired, appliedKey', errorKey, authRoutingPending)
        \/ UNCHANGED <<inFlight, appliedKey, health, authRoutingPending>>
    BY <1>5 DEF ChangeEvent
  <2> QED
    BY <1>4, <2>3, <2>4, <2>5, <2>6
<1> QED
  BY <1>3, <1>4, <1>5 DEF ChangeEvent

LEMMA ProxyErrorKeeps ==
  ASSUME IInv, PortStep, Blame, NEW error, NEW fatal, ProxyError(error, fatal)
  PROVE  IInv'
<1>1. TypeOK /\ FlightOK /\ PortsOK /\ ProbedOK /\ InPlaceOK /\ ReportOK
  BY DEF IInv
<1>2. /\ failing' = FALSE
      /\ UNCHANGED <<desired, authRoutingPending, inFlight, session, readyPort,
                     setting, other, changes>>
  BY DEF ProxyError, auth
<1>3. CASE UNCHANGED <<appliedKey, errorKey, health>>
  BY <1>1, <1>2, <1>3, QuietKeeps DEF TypeOK
<1>4. CASE /\ desired \notin {Null, Clear}
           /\ errorKey' = desired /\ appliedKey' = Null
           /\ health' \in {"blocked", "unavailable"}
  <2>1. /\ appliedKey' \notin PACs /\ ~Act(appliedKey') /\ ~Served(appliedKey)'
    BY <1>4, SentinelAssumption DEF Keys, Act, Served
  <2>2. /\ Served(inFlight.key)' <=> Served(inFlight.key)
        /\ Served(desired)' <=> Served(desired)
    BY <1>2 DEF Served
  <2>3. blamed' = TRUE
    BY <1>2, <1>4 DEF Blame
  <2>4. TypeOK' /\ FlightOK' /\ PortsOK'
    BY <1>1, <1>2, <1>4, <2>1, <2>2
       DEF TypeOK, FlightOK, PortsOK, PortStep, Healths
  <2>5. ProbedOK' /\ InPlaceOK'
    BY <1>1, <1>2, <2>1, <2>2 DEF ProbedOK, InPlaceOK
  <2>6. ReportOK'
    BY <1>4, <2>3 DEF ReportOK
  <2> QED
    BY <2>4, <2>5, <2>6 DEF IInv
<1> QED
  BY <1>3, <1>4 DEF ProxyError

-----------------------------------------------------------------------------
LEMMA IInvInit == MCInit => IInv
<1> SUFFICES ASSUME MCInit PROVE IInv
  OBVIOUS
<1>1. /\ desired = Null /\ appliedKey = Null /\ errorKey = Null
      /\ inFlight = Null /\ session = Null /\ health = "inactive"
  BY DEF MCInit, Init
<1>2. Null \notin PACs /\ ~Act(Null) /\ ~Served(Null)
  BY SentinelAssumption DEF Keys, Act, Served
<1>3. setting \in Settings
  BY DEF MCInit, Init, Settings
<1>4. TypeOK
  BY <1>3 DEF MCInit, Init, TypeOK, Healths
<1>5. FlightOK /\ PortsOK /\ ProbedOK /\ InPlaceOK /\ ReportOK
  BY <1>1, <1>2 DEF FlightOK, PortsOK, ProbedOK, InPlaceOK, ReportOK
<1> QED
  BY <1>4, <1>5 DEF IInv

LEMMA SessionKept ==
  ASSUME Callbacks PROVE session' = session
BY DEF Callbacks, GetReturned, SetDone, Verified, ProbeAnswered,
   ProbeRejected, ChangeEvent, ProxyError, auth

LEMMA IInvStep ==
  IInv /\ [MCNext]_<<vars, events, used, blamed>> => IInv'
<1> SUFFICES ASSUME IInv, [MCNext]_<<vars, events, used, blamed>> PROVE IInv'
  OBVIOUS
<1>1. CASE Callbacks /\ UNCHANGED <<events, used>> /\ Blame
  <2>1. PortStep
    BY <1>1, SessionKept DEF PortStep, IInv, PortsOK
  <2>2. CASE GetReturned(FALSE)
    BY <1>1, <2>1, <2>2, GetReturnedKeeps
  <2>3. CASE SetDone
    BY <2>1, <2>3, SetDoneKeeps
  <2>4. CASE Verified(FALSE)
    BY <1>1, <2>1, <2>4, VerifiedKeeps
  <2>5. CASE ProbeAnswered \/ ProbeRejected
    BY <1>1, <2>1, <2>5, ProbeAnsweredKeeps, ProbeRejectedKeeps
  <2>6. CASE ChangeEvent
    BY <1>1, <2>1, <2>6, ChangeEventKeeps
  <2>7. ASSUME NEW error, NEW fatal, ProxyError(error, fatal)
        PROVE  IInv'
    BY <1>1, <2>1, <2>7, ProxyErrorKeeps
  <2> QED
    BY <1>1, <2>2, <2>3, <2>4, <2>5, <2>6, <2>7 DEF Callbacks
<1>2. CASE (Environment \/ Failures) /\ FreshPort /\ Blame
  <2>1. PortStep
    BY <1>2 DEF FreshPort, PortStep
  <2>2. ASSUME NEW port \in HelperPorts \cup {Blocked, Null},
               NEW routes \in Routes, Apply(port, routes)
        PROVE  IInv'
    BY <1>2, <2>1, <2>2, ApplyKeeps
  <2>3. ASSUME NEW port \in HelperPorts \cup {Blocked, Null},
               NEW routes \in Routes, NEW s \in Sessions \cup {Null},
               SetProxySession(s, port, routes)
        PROVE  IInv'
    BY <1>2, <2>1, <2>3, SetProxySessionKeeps
  <2>4. CASE SetNoSessionAgain
    BY <1>2, <2>1, <2>4, SetNoSessionAgainKeeps
  <2>5. CASE RequestFails
    BY <1>2, <2>1, <2>5, QuietKeeps DEF RequestFails, auth, IInv, TypeOK
  <2>6. CASE ControlChanges
    <3>1. other' \in BOOLEAN /\ changes' \in Nat /\ failing' \in BOOLEAN
      BY <2>6 DEF ControlChanges, IInv, TypeOK
    <3> QED
      BY <1>2, <2>1, <2>6, <3>1, QuietKeeps DEF ControlChanges, auth
  <2>7. CASE GetReturned(TRUE)
    BY <1>2, <2>1, <2>7, GetReturnedKeeps
  <2>8. CASE SetFailed
    BY <1>2, <2>1, <2>8, SetFailedKeeps
  <2>9. CASE Verified(TRUE)
    BY <1>2, <2>1, <2>9, VerifiedKeeps
  <2> QED
    BY <1>2, <2>2, <2>3, <2>4, <2>5, <2>6, <2>7, <2>8, <2>9
       DEF Environment, Failures
<1>3. CASE UNCHANGED <<vars, events, used, blamed>>
  BY <1>3 DEF vars, auth, browser, IInv, TypeOK, FlightOK, PortsOK, ProbedOK,
     InPlaceOK, ReportOK, Served, Untouched, At
<1> QED
  BY <1>1, <1>2, <1>3 DEF MCNext

LEMMA Invariance == MCSpec => []IInv
  BY IInvInit, IInvStep, PTL DEF MCSpec

\* Every variable of the manager and of Chrome keeps its type; above all, no
\* flush() is ever begun for a policy that does not exist.
THEOREM TypeCorrect == MCSpec => []TypeOK
<1>1. IInv => TypeOK
  BY DEF IInv
<1> QED
  BY <1>1, Invariance, PTL

\* "active" is a true report (flush(), reportHealth()): the PAC in place is
\* the one wanted now, for any interleaving of policies, sessions, callbacks
\* and errors.
THEOREM ActiveEffective == MCSpec => []ActiveIsEffective
<1>1. IInv => ActiveIsEffective
  <2> SUFFICES ASSUME IInv, Quiet, health = "active"
               PROVE  desired \in PACs /\ setting = [key |-> desired, probe |-> FALSE]
    BY DEF ActiveIsEffective
  <2>1. inFlight = Null /\ Untouched
    BY DEF Quiet, Untouched
  <2>2. Act(desired) /\ appliedKey = desired
    BY <2>1 DEF IInv, ReportOK
  <2>3. Served(appliedKey)
    BY <2>2 DEF IInv, PortsOK
  <2> QED
    BY <2>1, <2>2, <2>3 DEF IInv, InPlaceOK, Final, Act
<1> QED
  BY <1>1, Invariance, PTL

\* Routes are enabled only for a helper session whose probe has succeeded
\* (chrome-proxy-auth.ts, prepare() and isReadyFor()).
THEOREM ActiveAuthenticated == MCSpec => []ActiveIsAuthenticated
<1>1. IInv => ActiveIsAuthenticated
  <2> SUFFICES ASSUME IInv, appliedKey = desired, desired \in PACs,
                      IsActive(desired)
               PROVE  IsReadyFor(desired.port)
    BY DEF ActiveIsAuthenticated
  <2>1. Act(desired)
    BY DEF IsActive, Act
  <2>2. Served(desired)
    BY <2>1 DEF IInv, PortsOK
  <2>3. readyPort = session.port
    BY <2>2 DEF IInv, ProbedOK
  <2> QED
    BY <2>2, <2>3 DEF IsReadyFor, HasSession, Served
<1> QED
  BY <1>1, Invariance, PTL

\* The browser is not left open while protection is wanted, unless the user
\* has been told of a problem or an error has been held against the policy
\* (fail(), the onProxyError listener).
THEOREM NeverOpen == MCSpec => []NotOpenWhenProtected
<1>1. IInv => NotOpenWhenProtected
  BY DEF IInv, ReportOK, NotOpenWhenProtected, Quiet
<1> QED
  BY <1>1, Invariance, PTL
=============================================================================
