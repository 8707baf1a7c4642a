-------------------------- MODULE HelperRecovery ---------------------------
(***************************************************************************)
(* Finding a helper that is missing, refused or failing, and getting over  *)
(* it (background.ts: the helper retry record and its timer,               *)
(* handleNativeConnectionEvent, procRunning and init replies,              *)
(* maybeCompleteHelperRecovery; native-host.ts: classifyDisconnect; the    *)
(* timer services; the install view's buttons).                            *)
(*                                                                         *)
(* A chain of retries is a record that is stored, then armed as a timer.   *)
(* Both outlive the worker: a new worker reads the stored record and goes  *)
(* on with it.  Storage calls take effect in the order they were made, and *)
(* a record is armed when its own call has answered, whatever happened     *)
(* since.                                                                  *)
(***************************************************************************)
EXTENDS Naturals, Sequences

CONSTANTS
    Retries,      \* number of delays, INSTALL_RETRY_DELAYS_MS.length
    MaxStarts,    \* bound: chains the user starts
    MaxFaults,    \* bound: restarts of the worker, rejected storage calls and
                  \* changes of the installed helper
    MaxCalls      \* bound: storage calls still unanswered when a port opens

ASSUME RetriesAssumption == Retries \in Nat \ {0}
ASSUME BoundsAssumption == {MaxStarts, MaxFaults, MaxCalls} \subseteq Nat

None == "none"
Sources == {"package", "fallback", "manual"}   \* HelperRetrySource
Missing == {"helper-unavailable", "helper-not-allowed"}
Reported == {"helper-reported-error", "helper-incompatible"}
Failures == Missing \cup Reported \cup {"helper-start-failed", "helper-stopped"}

\* nextRetryAt only tells records apart that one chain never holds at once.
Records == [source : Sources, nextRetryIndex : 0..Retries]
NoRecord == [source |-> None, nextRetryIndex |-> 0]

VARIABLES
    hostConnected, helperFailure, reconnecting,   \* of the popup's state
    repairRegistrationAvailable,
    sawHealthyProcRunning, sawHealthyInit,
    helperRetryRecord,
    timer,        \* the record HELPER_RETRY_TIMER_NAME was armed with
    rehydrating,  \* what rehydrateHelperRetries() read, while it waits
    calls,        \* storage calls that have not answered, in order
    storedRecord, storedRepair,
    port,         \* "none", "opening" (connect() waits), "silent", "talking"
    helper,       \* what the browser finds: see HelperKinds
    said,         \* the replies to init on the port there is: "no", "ok", "bad"
    newest,       \* history: source of the newest chain, while it found no
                  \* helper and nothing interfered with it
    budget

retry == <<repairRegistrationAvailable, helperRetryRecord, timer, rehydrating,
           calls, storedRecord, storedRepair, newest>>
link == <<hostConnected, helperFailure, reconnecting, sawHealthyProcRunning,
          sawHealthyInit, port, said>>
vars == <<retry, link, helper, budget>>

HelperKinds == {"missing", "forbidden", "failing", "working"}

Nothing == [proc |-> "no", init |-> "no"]
NotRehydrating == [waits |-> FALSE, record |-> NoRecord, repair |-> FALSE]
-----------------------------------------------------------------------------
(* Storage calls and the retry chain.                                      *)

Call(op, record) == [op |-> op, record |-> record]
SetRecord(record) == Call("setRecord", record)
RemoveRecord == Call("removeRecord", NoRecord)
RemoveRepair == Call("removeRepair", NoRecord)
SetRepair == Call("setRepair", NoRecord)

\* nativeHost.connect(): joins an attempt that waits; otherwise closes the
\* port there is, without an event, and opens another.
Connect == port' = "opening" /\ said' = Nothing
NoConnect == UNCHANGED <<port, said>>

\* persistAndArmHelperRetry(): the record counts at once, its timer later.
PersistAndArm(record) ==
    /\ helperRetryRecord' = record
    /\ calls' = Append(calls, SetRecord(record))

\* clearHelperRetryStorage().
ClearKeepingTimer ==
    /\ helperRetryRecord' = NoRecord
    /\ timer' = timer
    /\ newest' = None
    /\ calls' = calls \o <<RemoveRecord, RemoveRepair>>
ClearRetries ==
    /\ helperRetryRecord' = NoRecord
    /\ timer' = NoRecord
    /\ newest' = None
    /\ calls' = calls \o <<RemoveRecord, RemoveRepair>>

\* A call answers; the answer to a record arms it, rejected or not.
Armed(record, current) ==
    IF Head(calls).op = "setRecord" THEN record ELSE current
CallAnswers ==
    /\ calls # <<>>
    /\ calls' = Tail(calls)
    /\ helperRetryRecord' = Armed(Head(calls).record, helperRetryRecord)
    /\ timer' = Armed(Head(calls).record, timer)
    /\ storedRecord' = CASE Head(calls).op = "setRecord" -> Head(calls).record
                         [] Head(calls).op = "removeRecord" -> NoRecord
                         [] OTHER -> storedRecord
    /\ storedRepair' = CASE Head(calls).op = "setRepair" -> TRUE
                         [] Head(calls).op = "removeRepair" -> FALSE
                         [] OTHER -> storedRepair
    /\ UNCHANGED <<repairRegistrationAvailable, rehydrating, newest, link,
                   helper, budget>>
CallRejects ==
    /\ calls # <<>>
    /\ budget.faults > 0
    /\ budget' = [budget EXCEPT !.faults = @ - 1]
    /\ calls' = Tail(calls)
    /\ helperRetryRecord' = Armed(Head(calls).record, helperRetryRecord)
    /\ timer' = Armed(Head(calls).record, timer)
    /\ newest' = None
    /\ UNCHANGED <<repairRegistrationAvailable, rehydrating, storedRecord,
                   storedRepair, link, helper>>

\* startHelperRetries(): the install view's download link ("package"), copy
\* button ("fallback") and retry button ("manual").  It shows while there
\* is no helper, or one that reported a failure.
InstallViewShown == ~hostConnected \/ helperFailure # None
StartOfferingNoRepair(source) ==
    IF source = "manual" THEN UNCHANGED repairRegistrationAvailable
                         ELSE repairRegistrationAvailable' = FALSE
StartHelperRetries(source) ==
    LET record == [source |-> source, nextRetryIndex |-> 0]
    IN  /\ InstallViewShown
        /\ budget.starts > 0
        /\ budget' = [budget EXCEPT !.starts = @ - 1]
        /\ timer' = NoRecord
        /\ StartOfferingNoRepair(source)
        /\ helperRetryRecord' = record
        /\ calls' = calls \o IF source = "manual" THEN <<SetRecord(record)>>
                             ELSE <<RemoveRepair, SetRecord(record)>>
        /\ IF source = "manual" THEN Connect ELSE NoConnect
        /\ newest' = IF rehydrating.waits \/ helperFailure \in Reported
                     THEN None ELSE source
        /\ UNCHANGED <<rehydrating, storedRecord, storedRepair, hostConnected,
                       helperFailure, reconnecting, sawHealthyProcRunning,
                       sawHealthyInit, helper>>

\* finishUnsuccessfulHelperRetries(): offer to repair the registration.
OffersRepairIfUnavailable(source) ==
    source # "manual" /\ ~hostConnected /\ helperFailure = "helper-unavailable"
OffersRepair(source) ==
    source # "manual" /\ ~hostConnected /\ helperFailure \in Missing
FinishUnsuccessful(source, repair) ==
    /\ helperRetryRecord' = NoRecord
    /\ timer' = NoRecord
    /\ repairRegistrationAvailable' =
         (repair \/ OffersRepair(source))
    /\ calls' = calls \o IF OffersRepair(source)
                         THEN <<RemoveRecord, SetRepair>>
                         ELSE <<RemoveRecord>>

\* executeHelperRetry(expected), for the record that is current.
NextRetryForever(current) == current
NextRetry(current) == [current EXCEPT !.nextRetryIndex = @ + 1]
UsedUpOneTooLate(current) == current.nextRetryIndex > Retries
UsedUp(current) == current.nextRetryIndex >= Retries
ExecuteHelperRetry(current, armed) ==
    CASE hostConnected ->
           ClearRetries /\ NoConnect /\ UNCHANGED repairRegistrationAvailable
      [] ~hostConnected /\ UsedUp(current) ->
           /\ FinishUnsuccessful(current.source, repairRegistrationAvailable)
           /\ NoConnect
           /\ UNCHANGED newest
      [] OTHER ->
           /\ PersistAndArm(NextRetry(current))
           /\ timer' = armed
           /\ Connect
           /\ UNCHANGED <<repairRegistrationAvailable, newest>>

\* The timer, or the alarm behind it: fires once, and only for the record
\* that is still current.  A connection has failed or succeeded, and storage
\* has answered, well within the shortest delay (two seconds).
TimerFires ==
    /\ timer # NoRecord
    /\ calls = <<>>
    /\ port \notin {"opening", "silent"}
    /\ IF helperRetryRecord = timer
       THEN ExecuteHelperRetry(helperRetryRecord, NoRecord)
       ELSE /\ timer' = NoRecord
            /\ NoConnect
            /\ UNCHANGED <<repairRegistrationAvailable, helperRetryRecord,
                           calls, newest>>
    /\ UNCHANGED <<rehydrating, storedRecord, storedRepair, hostConnected,
                   helperFailure, reconnecting, sawHealthyProcRunning,
                   sawHealthyInit, helper, budget>>

\* rehydrateHelperRetries() resumes: the stored record is due, or it is
\* armed for its deadline.
Rehydrate ==
    /\ rehydrating.waits
    /\ rehydrating' = NotRehydrating
    /\ LET record == rehydrating.record
           repair == repairRegistrationAvailable \/ rehydrating.repair
       IN  \/ /\ record = NoRecord
              /\ repairRegistrationAvailable' = repair
              /\ NoConnect
              /\ UNCHANGED <<helperRetryRecord, timer, calls, newest>>
           \/ /\ record # NoRecord
              /\ hostConnected
              /\ ClearRetries
              /\ repairRegistrationAvailable' = repair
              /\ NoConnect
           \/ /\ record # NoRecord
              /\ ~hostConnected
              /\ helperRetryRecord' = record
              /\ timer' = record
              /\ repairRegistrationAvailable' = repair
              /\ NoConnect
              /\ UNCHANGED <<calls, newest>>
           \/ /\ record # NoRecord   \* nextRetryAt has passed
              /\ ~hostConnected
              /\ IF UsedUp(record)
                 THEN /\ FinishUnsuccessful(record.source, repair)
                      /\ NoConnect
                 ELSE /\ PersistAndArm(NextRetry(record))
                      /\ repairRegistrationAvailable' = repair
                      /\ Connect
                      /\ UNCHANGED timer
              /\ UNCHANGED newest
    /\ UNCHANGED <<storedRecord, storedRepair, hostConnected, helperFailure,
                   reconnecting, sawHealthyProcRunning, sawHealthyInit,
                   helper, budget>>
-----------------------------------------------------------------------------
(* The port and what the helper says on it.                                *)

\* NativeHostConnection connects by itself after a failure (its own timer).
Reconnects ==
    /\ port = "none"
    /\ Connect
    /\ UNCHANGED <<retry, hostConnected, helperFailure, reconnecting,
                   sawHealthyProcRunning, sawHealthyInit, helper, budget>>
PortOpens ==
    /\ port = "opening"
    /\ Len(calls) <= MaxCalls
    /\ port' = "silent"
    /\ UNCHANGED <<retry, hostConnected, helperFailure, reconnecting,
                   sawHealthyProcRunning, sawHealthyInit, said, helper,
                   budget>>

\* The first valid message of a port, event "connected": a failure that the
\* helper itself reported stays until procRunning and init both succeed.
KeptNever(failure) == None
KeptOnConnect(failure) == IF failure \in Reported THEN failure ELSE None
AfterConnected ==
    IF port = "talking"
    THEN [failure |-> helperFailure, proc |-> sawHealthyProcRunning,
          init |-> sawHealthyInit]
    ELSE [failure |-> KeptOnConnect(helperFailure), proc |-> FALSE,
          init |-> FALSE]

NoRecovery == UNCHANGED <<repairRegistrationAvailable, helperRetryRecord,
                          timer, calls, newest>>

\* maybeCompleteHelperRecovery(), after either of the two succeeded.
MaybeComplete(failure, proc, init) ==
    IF proc /\ init
    THEN /\ helperFailure' = None
         /\ repairRegistrationAvailable' = FALSE
         /\ ClearRetries
    ELSE /\ helperFailure' = failure
         /\ NoRecovery

\* procRunning: fine, with an error, or without the proxy session that this
\* version of the extension needs.
ReceiveProcRunning ==
    /\ port \in {"silent", "talking"}
    /\ said.proc = "no"
    /\ helper = "working"
    /\ port' = "talking"
    /\ hostConnected' = TRUE
    /\ reconnecting' = FALSE
    /\ sawHealthyInit' = AfterConnected.init
    /\ \/ /\ sawHealthyProcRunning' = TRUE
          /\ said' = [said EXCEPT !.proc = "ok"]
          /\ MaybeComplete(AfterConnected.failure, TRUE, AfterConnected.init)
       \/ /\ sawHealthyProcRunning' = FALSE
          /\ said' = [said EXCEPT !.proc = "bad"]
          /\ helperFailure' \in Reported
          /\ NoRecovery
    /\ UNCHANGED <<rehydrating, storedRecord, storedRepair, helper, budget>>
ReceiveInit ==
    /\ port \in {"silent", "talking"}
    /\ said.init = "no"
    /\ helper = "working"
    /\ port' = "talking"
    /\ hostConnected' = TRUE
    /\ reconnecting' = FALSE
    /\ sawHealthyProcRunning' = AfterConnected.proc
    /\ \/ /\ sawHealthyInit' = TRUE
          /\ said' = [said EXCEPT !.init = "ok"]
          /\ MaybeComplete(AfterConnected.failure, AfterConnected.proc, TRUE)
       \/ /\ sawHealthyInit' = FALSE
          /\ said' = [said EXCEPT !.init = "bad"]
          /\ helperFailure' = "helper-reported-error"
          /\ NoRecovery
    /\ UNCHANGED <<rehydrating, storedRecord, storedRepair, helper, budget>>

\* classifyDisconnect(): what the browser's error says of the helper.
ClassifyDisconnect(wasHealthy) ==
    IF wasHealthy THEN "helper-stopped"
    ELSE IF helper = "missing" THEN "helper-unavailable"
    ELSE IF helper = "forbidden" THEN "helper-not-allowed"
    ELSE "helper-start-failed"

\* Event "disconnected": a reported failure outlives the port as well.
ShownFailure(failure) ==
    IF helperFailure \in Reported THEN helperFailure ELSE failure
ExpectedBackAlways(failure) == TRUE
ExpectedBack(failure) == failure \notin Missing \cup Reported
PortDrops ==
    LET failure == ShownFailure(ClassifyDisconnect(port = "talking"))
    IN  /\ port \in {"silent", "talking"}
        /\ port' = "none"
        /\ hostConnected' = FALSE
        /\ sawHealthyProcRunning' = FALSE
        /\ sawHealthyInit' = FALSE
        /\ said' = Nothing
        /\ helperFailure' = failure
        /\ reconnecting' = ExpectedBack(failure)
        /\ UNCHANGED <<retry, helper, budget>>
-----------------------------------------------------------------------------
(* The environment.                                                        *)

\* The user installs, repairs, breaks or removes the helper.
HelperChanges ==
    /\ port # "talking"
    /\ budget.faults > 0
    /\ budget' = [budget EXCEPT !.faults = @ - 1]
    /\ helper' \in HelperKinds \ {helper}
    /\ newest' = None
    /\ UNCHANGED <<repairRegistrationAvailable, helperRetryRecord, timer,
                   rehydrating, calls, storedRecord, storedRepair, link>>

\* The worker is stopped; an alarm, a click or an event starts another.
WorkerRestarts ==
    /\ budget.faults > 0
    /\ budget' = [budget EXCEPT !.faults = @ - 1]
    /\ hostConnected' = FALSE
    /\ helperFailure' = None
    /\ reconnecting' = FALSE
    /\ repairRegistrationAvailable' = FALSE
    /\ sawHealthyProcRunning' = FALSE
    /\ sawHealthyInit' = FALSE
    /\ helperRetryRecord' = NoRecord
    /\ timer' = NoRecord
    /\ rehydrating' = [waits |-> TRUE, record |-> storedRecord,
                       repair |-> storedRepair]
    /\ calls' = <<>>
    /\ Connect
    /\ newest' = IF /\ calls = <<>>
                    /\ ~rehydrating.waits
                    /\ storedRecord.nextRetryIndex < Retries
                 THEN newest ELSE None
    /\ UNCHANGED <<storedRecord, storedRepair, helper>>
-----------------------------------------------------------------------------
Init ==
    /\ hostConnected = FALSE /\ helperFailure = None /\ reconnecting = FALSE
    /\ repairRegistrationAvailable = FALSE
    /\ sawHealthyProcRunning = FALSE /\ sawHealthyInit = FALSE
    /\ helperRetryRecord = NoRecord /\ timer = NoRecord
    /\ rehydrating = [waits |-> TRUE, record |-> NoRecord, repair |-> FALSE]
    /\ calls = <<>> /\ storedRecord = NoRecord /\ storedRepair = FALSE
    /\ port = "opening"
    /\ helper \in HelperKinds
    /\ said = Nothing /\ newest = None
    /\ budget = [starts |-> MaxStarts, faults |-> MaxFaults]

Next ==
    \/ \E source \in Sources : StartHelperRetries(source)
    \/ CallAnswers \/ CallRejects \/ TimerFires \/ Rehydrate
    \/ Reconnects \/ PortOpens \/ ReceiveProcRunning \/ ReceiveInit
    \/ PortDrops \/ HelperChanges \/ WorkerRestarts

\* Storage answers, timers fire, and a helper that is not there is noticed.
Fairness ==
    /\ WF_vars(CallAnswers)
    /\ SF_vars(TimerFires)   \* a deadline passes, whatever the port does
    /\ WF_vars(Rehydrate)
    /\ WF_vars(PortOpens) /\ WF_vars(Reconnects)
    /\ WF_vars(PortDrops /\ helper # "working")
    /\ WF_vars(ReceiveProcRunning)

Spec == Init /\ [][Next]_vars /\ Fairness
-----------------------------------------------------------------------------
(* Properties.                                                             *)

\* Every variable has its type.
TypeOK ==
    /\ {hostConnected, reconnecting, repairRegistrationAvailable,
        sawHealthyProcRunning, sawHealthyInit, storedRepair}
         \subseteq BOOLEAN
    /\ helperFailure \in Failures \cup {None}
    /\ {helperRetryRecord, timer, storedRecord, rehydrating.record}
         \subseteq Records \cup {NoRecord}
    /\ \A i \in DOMAIN calls : calls[i].record \in Records \cup {NoRecord}
    /\ port \in {"none", "opening", "silent", "talking"}
    /\ helper \in HelperKinds
    /\ newest \in Sources \cup {None}

\* A chain is never stranded: when storage is quiet, a record that is
\* stored, or that the worker holds, is the one its timer is armed with
\* (the record is armed after the call that stores it, while the chain may
\* have been cleared, finished or started again).
StoredIsArmed ==
    calls = <<>> /\ ~rehydrating.waits =>
      /\ helperRetryRecord = timer
      /\ newest # None => storedRecord \in {NoRecord, timer}

\* A failure that the helper reported, or an incompatible helper, is only
\* taken back by one connection on which procRunning and init both
\* succeeded, not by reconnecting nor by the successes of two connections
\* (a new worker, whose first connection is opening, knows of none).
ReportedFailureStays ==
    [][(helperFailure \in Reported /\ helperFailure' = None)
         => said' = [proc |-> "ok", init |-> "ok"] \/ port' = "opening"]_vars

\* The popup says "reconnecting" of a helper that is away and expected back.
ReconnectingIsHonest ==
    reconnecting => ~hostConnected /\ helperFailure \notin Missing \cup Reported

\* Every chain of retries ends, with a helper or without one.
RetriesEnd == []<>(timer = NoRecord /\ helperRetryRecord = NoRecord)

\* A user who has run an installer and still has no helper is offered the
\* repair of its registration once the retries are used up, restarts of the
\* worker included.  Excepted are a restart after the last retry (the new
\* worker ends the chain before it knows that the helper is missing) and a
\* failure that a helper reported before it was removed, which hides that.
RepairIsOffered ==
    <>[](newest \in {"package", "fallback"} /\ ~hostConnected
         /\ helperFailure \in Missing)
      => <>[](repairRegistrationAvailable)
=============================================================================
