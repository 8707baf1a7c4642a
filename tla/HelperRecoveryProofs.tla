------------------------ MODULE HelperRecoveryProofs -----------------------
(***************************************************************************)
(* Proofs about HelperRecovery, for any number of retries, chains, faults  *)
(* and unanswered storage calls: the chain of retries is never stranded    *)
(* between its record and its timer, and what the popup says of a helper   *)
(* that failed is true.                                                    *)
(***************************************************************************)
EXTENDS HelperRecovery, SequenceTheorems, TLAPS

-----------------------------------------------------------------------------
(* Types.                                                                  *)

MaybeRecords == Records \cup {NoRecord}
Operations == {"setRecord", "removeRecord", "setRepair", "removeRepair"}
Calls == [op: Operations, record: MaybeRecords]
Rehydrations == [waits: BOOLEAN, record: MaybeRecords, repair: BOOLEAN]
Replies == [proc: {"no", "ok", "bad"}, init: {"no", "ok", "bad"}]

\* TypeOK, in two parts, with the types of what its values come from.
RetryTypes ==
    /\ repairRegistrationAvailable \in BOOLEAN /\ storedRepair \in BOOLEAN
    /\ helperRetryRecord \in MaybeRecords /\ timer \in MaybeRecords
    /\ storedRecord \in MaybeRecords
    /\ rehydrating \in Rehydrations
    /\ calls \in Seq(Calls)
    /\ newest \in Sources \cup {None}
LinkTypes ==
    /\ hostConnected \in BOOLEAN /\ reconnecting \in BOOLEAN
    /\ sawHealthyProcRunning \in BOOLEAN /\ sawHealthyInit \in BOOLEAN
    /\ helperFailure \in Failures \cup {None}
    /\ port \in {"none", "opening", "silent", "talking"}
    /\ said \in Replies
TypeInv == RetryTypes /\ LinkTypes /\ helper \in HelperKinds

LEMMA TypeInvImplies == TypeInv => TypeOK
<1> SUFFICES ASSUME TypeInv PROVE TypeOK
  OBVIOUS
<1>1. \A i \in DOMAIN calls : calls[i] \in Calls
  BY DEF TypeInv, RetryTypes
<1>2. \A i \in DOMAIN calls : calls[i].record \in Records \cup {NoRecord}
  BY <1>1 DEF Calls, MaybeRecords
<1>3. rehydrating.record \in MaybeRecords
  BY DEF TypeInv, RetryTypes, Rehydrations
<1> QED
  BY <1>2, <1>3 DEF TypeInv, RetryTypes, LinkTypes, TypeOK, MaybeRecords

LEMMA CallType ==
  /\ \A r \in MaybeRecords : SetRecord(r) \in Calls
  /\ RemoveRecord \in Calls /\ RemoveRepair \in Calls /\ SetRepair \in Calls
BY DEF SetRecord, RemoveRecord, RemoveRepair, SetRepair, Call, Calls,
   Operations, MaybeRecords

LEMMA NothingType == Nothing \in Replies
  BY DEF Nothing, Replies

\* A record that is not used up has a successor.
LEMMA NextRetryType ==
  ASSUME NEW r \in MaybeRecords, r # NoRecord, ~UsedUp(r)
  PROVE  NextRetry(r) \in MaybeRecords
<1>1. r \in Records
  BY DEF MaybeRecords
<1>2. r.nextRetryIndex \in 0..Retries /\ r.nextRetryIndex < Retries
  BY <1>1, RetriesAssumption DEF Records, UsedUp
<1>3. r.nextRetryIndex + 1 \in 0..Retries
  BY <1>2, RetriesAssumption
<1> QED
  BY <1>1, <1>3 DEF NextRetry, Records, MaybeRecords

-----------------------------------------------------------------------------
(* What is pending.                                                        *)

Pending(q, ops) == \E i \in DOMAIN q : q[i].op \in ops
RecordOps == {"setRecord", "removeRecord"}

\* Calls that are added at the end keep those before them.
LEMMA ConcatPending ==
  ASSUME NEW q \in Seq(Calls), NEW t \in Seq(Calls), NEW ops
  PROVE  /\ q \o t \in Seq(Calls)
         /\ Pending(q, ops) \/ Pending(t, ops) => Pending(q \o t, ops)
<1> DEFINE r == q \o t
<1>1. /\ r \in Seq(Calls) /\ Len(r) = Len(q) + Len(t)
      /\ Len(q) \in Nat /\ Len(t) \in Nat
      /\ DOMAIN q = 1..Len(q) /\ DOMAIN t = 1..Len(t)
      /\ DOMAIN r = 1..(Len(q) + Len(t))
      /\ \A i \in 1..Len(q) : r[i] = q[i]
      /\ \A i \in 1..Len(t) : r[Len(q) + i] = t[i]
  OBVIOUS
<1> HIDE DEF r
<1>2. ASSUME Pending(q, ops) PROVE Pending(r, ops)
  <2>1. PICK i \in 1..Len(q) : q[i].op \in ops
    BY <1>1, <1>2 DEF Pending
  <2> QED
    BY <1>1, <2>1 DEF Pending
<1>3. ASSUME Pending(t, ops) PROVE Pending(r, ops)
  <2>1. PICK i \in 1..Len(t) : t[i].op \in ops
    BY <1>1, <1>3 DEF Pending
  <2>2. Len(q) + i \in DOMAIN r
    BY <1>1
  <2> QED
    BY <1>1, <2>1, <2>2 DEF Pending
<1> QED
  BY <1>1, <1>2, <1>3 DEF r

LEMMA OnePending ==
  ASSUME NEW c \in Calls
  PROVE  /\ <<c>> \in Seq(Calls)
         /\ \A ops : c.op \in ops => Pending(<<c>>, ops)
<1>1. <<c>> \in Seq(Calls) /\ 1 \in DOMAIN <<c>> /\ <<c>>[1] = c
  OBVIOUS
<1> QED
  BY <1>1 DEF Pending

LEMMA TwoPending ==
  ASSUME NEW c \in Calls, NEW d \in Calls
  PROVE  /\ <<c, d>> \in Seq(Calls)
         /\ \A ops : c.op \in ops \/ d.op \in ops => Pending(<<c, d>>, ops)
<1>1. /\ <<c, d>> \in Seq(Calls)
      /\ 1 \in DOMAIN <<c, d>> /\ <<c, d>>[1] = c
      /\ 2 \in DOMAIN <<c, d>> /\ <<c, d>>[2] = d
  OBVIOUS
<1> QED
  BY <1>1 DEF Pending

LEMMA AppendPending ==
  ASSUME NEW q \in Seq(Calls), NEW c \in Calls, NEW ops
  PROVE  /\ Append(q, c) \in Seq(Calls)
         /\ Pending(q, ops) \/ c.op \in ops => Pending(Append(q, c), ops)
<1>1. Append(q, c) = q \o <<c>>
  OBVIOUS
<1> QED
  BY <1>1, ConcatPending, OnePending

LEMMA TailPending ==
  ASSUME NEW q \in Seq(Calls), q # <<>>, NEW ops
  PROVE  /\ Head(q) \in Calls /\ Tail(q) \in Seq(Calls)
         /\ Pending(q, ops) /\ Head(q).op \notin ops => Pending(Tail(q), ops)
<1>1. /\ Tail(q) \in Seq(Calls) /\ Len(q) \in Nat \ {0}
      /\ DOMAIN q = 1..Len(q) /\ DOMAIN Tail(q) = 1..(Len(q) - 1)
      /\ \A i \in 1..(Len(q) - 1) : Tail(q)[i] = q[i + 1]
      /\ Head(q) = q[1] /\ Head(q) \in Calls
  BY EmptySeq
<1>2. ASSUME Pending(q, ops), Head(q).op \notin ops
      PROVE  Pending(Tail(q), ops)
  <2>1. PICK i \in DOMAIN q : q[i].op \in ops
    BY <1>2 DEF Pending
  <2>2. i - 1 \in 1..(Len(q) - 1)
    BY <1>1, <1>2, <2>1
  <2>3. Tail(q)[i - 1] = q[i]
    BY <1>1, <2>1, <2>2
  <2> QED
    BY <1>1, <2>1, <2>2, <2>3 DEF Pending
<1> QED
  BY <1>1, <1>2
-----------------------------------------------------------------------------
(* Type correctness.                                                       *)

\* The types of what an operation on the chain may change.
ChainTypes ==
    /\ repairRegistrationAvailable \in BOOLEAN
    /\ helperRetryRecord \in MaybeRecords /\ timer \in MaybeRecords
    /\ calls \in Seq(Calls)
    /\ newest \in Sources \cup {None}

LEMMA NoRecordType == NoRecord \in MaybeRecords
  BY DEF MaybeRecords

LEMMA ClearTypes ==
  ASSUME calls \in Seq(Calls), ClearRetries
  PROVE  /\ helperRetryRecord' \in MaybeRecords /\ timer' \in MaybeRecords
         /\ calls' \in Seq(Calls)
         /\ newest' \in Sources \cup {None}
<1>1. calls \o <<RemoveRecord, RemoveRepair>> \in Seq(Calls)
  BY CallType, TwoPending, ConcatPending
<1> QED
  BY <1>1, NoRecordType DEF ClearRetries

LEMMA FinishTypes ==
  ASSUME calls \in Seq(Calls), NEW source, NEW repair \in BOOLEAN,
         FinishUnsuccessful(source, repair)
  PROVE  /\ helperRetryRecord' \in MaybeRecords /\ timer' \in MaybeRecords
         /\ calls' \in Seq(Calls)
         /\ repairRegistrationAvailable' \in BOOLEAN
         /\ Pending(calls', RecordOps)
<1>1. RemoveRecord.op \in RecordOps
  BY DEF RemoveRecord, Call, RecordOps
<1>2. /\ calls \o <<RemoveRecord, SetRepair>> \in Seq(Calls)
      /\ Pending(calls \o <<RemoveRecord, SetRepair>>, RecordOps)
  BY <1>1, CallType, TwoPending, ConcatPending
<1>3. /\ calls \o <<RemoveRecord>> \in Seq(Calls)
      /\ Pending(calls \o <<RemoveRecord>>, RecordOps)
  BY <1>1, CallType, OnePending, ConcatPending
<1>4. (repair \/ OffersRepair(source)) \in BOOLEAN
  BY DEF OffersRepair
<1> QED
  BY <1>2, <1>3, <1>4, NoRecordType DEF FinishUnsuccessful

LEMMA PersistTypes ==
  ASSUME calls \in Seq(Calls), NEW record \in MaybeRecords,
         PersistAndArm(record)
  PROVE  /\ helperRetryRecord' \in MaybeRecords
         /\ calls' \in Seq(Calls)
         /\ Pending(calls', {"setRecord"}) /\ Pending(calls', RecordOps)
<1>1. SetRecord(record).op = "setRecord"
  BY DEF SetRecord, Call
<1> QED
  BY <1>1, CallType, AppendPending DEF PersistAndArm, RecordOps

LEMMA ExecuteTypes ==
  ASSUME RetryTypes, NEW armed \in MaybeRecords, helperRetryRecord # NoRecord,
         ExecuteHelperRetry(helperRetryRecord, armed)
  PROVE  ChainTypes'
<1>1. CASE hostConnected
  BY <1>1, ClearTypes DEF ExecuteHelperRetry, ChainTypes, RetryTypes
<1>2. CASE ~hostConnected /\ UsedUp(helperRetryRecord)
  BY <1>2, FinishTypes DEF ExecuteHelperRetry, ChainTypes, RetryTypes
<1>3. CASE ~hostConnected /\ ~UsedUp(helperRetryRecord)
  <2>1. NextRetry(helperRetryRecord) \in MaybeRecords
    BY <1>3, NextRetryType DEF RetryTypes
  <2> QED
    BY <1>3, <2>1, PersistTypes DEF ExecuteHelperRetry, ChainTypes, RetryTypes
<1> QED
  BY <1>1, <1>2, <1>3

LEMMA CompleteTypes ==
  ASSUME RetryTypes, NEW failure \in Failures \cup {None}, NEW proc, NEW init,
         MaybeComplete(failure, proc, init)
  PROVE  ChainTypes' /\ helperFailure' \in Failures \cup {None}
<1>1. CASE proc /\ init
  BY <1>1, ClearTypes DEF MaybeComplete, ChainTypes, RetryTypes
<1>2. CASE ~(proc /\ init)
  BY <1>2 DEF MaybeComplete, NoRecovery, ChainTypes, RetryTypes
<1> QED
  BY <1>1, <1>2

LEMMA ConnectTypes ==
  ASSUME LinkTypes, Connect \/ NoConnect
  PROVE  port' \in {"none", "opening", "silent", "talking"} /\ said' \in Replies
BY NothingType DEF Connect, NoConnect, LinkTypes

LEMMA TypeInit == Init => TypeInv
<1> SUFFICES ASSUME Init PROVE TypeInv
  OBVIOUS
<1>1. <<>> \in Seq(Calls)
  OBVIOUS
<1>2. [waits |-> TRUE, record |-> NoRecord, repair |-> FALSE] \in Rehydrations
  BY NoRecordType DEF Rehydrations
<1> QED
  BY <1>1, <1>2, NoRecordType, NothingType
  DEF Init, TypeInv, RetryTypes, LinkTypes

LEMMA TypeStep == TypeInv /\ [Next]_vars => TypeInv'
<1> SUFFICES ASSUME TypeInv, [Next]_vars PROVE TypeInv'
  OBVIOUS
<1> USE DEF TypeInv
<1>1. ASSUME NEW source \in Sources, StartHelperRetries(source) PROVE TypeInv'
  <2> DEFINE record == [source |-> source, nextRetryIndex |-> 0]
  <2>1. record \in MaybeRecords
    BY RetriesAssumption DEF Records, MaybeRecords
  <2>2. /\ calls \o <<SetRecord(record)>> \in Seq(Calls)
        /\ calls \o <<RemoveRepair, SetRecord(record)>> \in Seq(Calls)
    BY <2>1, CallType, OnePending, TwoPending, ConcatPending DEF RetryTypes
  <2>3. calls' \in Seq(Calls)
    BY <1>1, <2>2 DEF StartHelperRetries
  <2>4. /\ repairRegistrationAvailable' \in BOOLEAN
        /\ newest' \in Sources \cup {None}
    BY <1>1 DEF StartHelperRetries, StartOfferingNoRepair, RetryTypes
  <2>5. Connect \/ NoConnect
    BY <1>1 DEF StartHelperRetries
  <2> HIDE DEF record
  <2> QED
    BY <1>1, <2>1, <2>3, <2>4, <2>5, ConnectTypes, NoRecordType
    DEF StartHelperRetries, RetryTypes, LinkTypes, record
<1>2. ASSUME CallAnswers PROVE TypeInv'
  <2>1. Head(calls) \in Calls /\ Tail(calls) \in Seq(Calls)
    BY <1>2, TailPending DEF CallAnswers, RetryTypes
  <2>2. Head(calls).record \in MaybeRecords
    BY <2>1 DEF Calls
  <2>3. storedRecord' \in MaybeRecords /\ storedRepair' \in BOOLEAN
    BY <1>2, <2>2, NoRecordType DEF CallAnswers, RetryTypes
  <2> QED
    BY <1>2, <2>1, <2>2, <2>3
    DEF CallAnswers, Armed, RetryTypes, LinkTypes, link
<1>3. ASSUME CallRejects PROVE TypeInv'
  <2>1. Head(calls) \in Calls /\ Tail(calls) \in Seq(Calls)
    BY <1>3, TailPending DEF CallRejects, RetryTypes
  <2>2. Head(calls).record \in MaybeRecords
    BY <2>1 DEF Calls
  <2> QED
    BY <1>3, <2>1, <2>2 DEF CallRejects, Armed, RetryTypes, LinkTypes, link
<1>4. ASSUME TimerFires PROVE TypeInv'
  <2>1. CASE helperRetryRecord = timer
    <3>1. ExecuteHelperRetry(helperRetryRecord, NoRecord)
      BY <1>4, <2>1 DEF TimerFires
    <3>2. ChainTypes'
      BY <1>4, <2>1, <3>1, ExecuteTypes, NoRecordType DEF TimerFires
    <3>3. Connect \/ NoConnect
      BY <3>1 DEF ExecuteHelperRetry
    <3> QED
      BY <1>4, <3>2, <3>3, ConnectTypes
      DEF TimerFires, ChainTypes, RetryTypes, LinkTypes
  <2>2. CASE helperRetryRecord # timer
    BY <1>4, <2>2, ConnectTypes, NoRecordType
    DEF TimerFires, RetryTypes, LinkTypes
  <2> QED
    BY <2>1, <2>2
<1>5. ASSUME Rehydrate PROVE TypeInv'
  <2> DEFINE record == rehydrating.record
             repair == repairRegistrationAvailable \/ rehydrating.repair
  <2>1. record \in MaybeRecords /\ repair \in BOOLEAN
    BY DEF RetryTypes, Rehydrations
  <2>2. NotRehydrating \in Rehydrations
    BY NoRecordType DEF NotRehydrating, Rehydrations
  <2>3. ChainTypes' /\ (Connect \/ NoConnect)
    <3>1. CASE /\ record = NoRecord
               /\ repairRegistrationAvailable' = repair
               /\ NoConnect
               /\ UNCHANGED <<helperRetryRecord, timer, calls, newest>>
      BY <2>1, <3>1 DEF ChainTypes, RetryTypes
    <3>2. CASE ClearRetries /\ repairRegistrationAvailable' = repair /\ NoConnect
      BY <2>1, <3>2, ClearTypes DEF ChainTypes, RetryTypes
    <3>3. CASE /\ helperRetryRecord' = record
               /\ timer' = record
               /\ repairRegistrationAvailable' = repair
               /\ NoConnect
               /\ UNCHANGED <<calls, newest>>
      BY <2>1, <3>3 DEF ChainTypes, RetryTypes
    <3>4. CASE /\ FinishUnsuccessful(record.source, repair)
               /\ NoConnect
               /\ UNCHANGED newest
      BY <2>1, <3>4, FinishTypes DEF ChainTypes, RetryTypes
    <3>5. CASE /\ record # NoRecord /\ ~UsedUp(record)
               /\ PersistAndArm(NextRetry(record))
               /\ repairRegistrationAvailable' = repair
               /\ Connect
               /\ UNCHANGED <<timer, newest>>
      <4>1. NextRetry(record) \in MaybeRecords
        BY <2>1, <3>5, NextRetryType
      <4> QED
        BY <2>1, <3>5, <4>1, PersistTypes DEF ChainTypes, RetryTypes
    <3> QED
      BY <1>5, <3>1, <3>2, <3>3, <3>4, <3>5 DEF Rehydrate
  <2> QED
    BY <1>5, <2>2, <2>3, ConnectTypes
    DEF Rehydrate, ChainTypes, RetryTypes, LinkTypes
<1>6. ASSUME Reconnects \/ PortOpens PROVE TypeInv'
  BY <1>6, ConnectTypes DEF Reconnects, PortOpens, RetryTypes, LinkTypes, retry
<1>7. ASSUME ReceiveProcRunning PROVE TypeInv'
  <2>1. /\ AfterConnected.failure \in Failures \cup {None}
        /\ AfterConnected.init \in BOOLEAN
    BY DEF AfterConnected, KeptOnConnect, LinkTypes
  <2>2. /\ [said EXCEPT !.proc = "ok"] \in Replies
        /\ [said EXCEPT !.proc = "bad"] \in Replies
    BY DEF LinkTypes, Replies
  <2>3. ChainTypes' /\ helperFailure' \in Failures \cup {None}
    <3>1. CASE MaybeComplete(AfterConnected.failure, TRUE, AfterConnected.init)
      BY <2>1, <3>1, CompleteTypes
    <3>2. CASE helperFailure' \in Reported /\ NoRecovery
      BY <3>2 DEF NoRecovery, ChainTypes, RetryTypes, Failures
    <3> QED
      BY <1>7, <3>1, <3>2 DEF ReceiveProcRunning
  <2>4. said' \in Replies /\ sawHealthyProcRunning' \in BOOLEAN
    BY <1>7, <2>2 DEF ReceiveProcRunning
  <2> QED
    BY <1>7, <2>1, <2>3, <2>4
    DEF ReceiveProcRunning, ChainTypes, RetryTypes, LinkTypes
<1>8. ASSUME ReceiveInit PROVE TypeInv'
  <2>1. /\ AfterConnected.failure \in Failures \cup {None}
        /\ AfterConnected.proc \in BOOLEAN
    BY DEF AfterConnected, KeptOnConnect, LinkTypes
  <2>2. /\ [said EXCEPT !.init = "ok"] \in Replies
        /\ [said EXCEPT !.init = "bad"] \in Replies
    BY DEF LinkTypes, Replies
  <2>3. ChainTypes' /\ helperFailure' \in Failures \cup {None}
    <3>1. CASE MaybeComplete(AfterConnected.failure, AfterConnected.proc, TRUE)
      BY <2>1, <3>1, CompleteTypes
    <3>2. CASE helperFailure' = "helper-reported-error" /\ NoRecovery
      BY <3>2 DEF NoRecovery, ChainTypes, RetryTypes, Failures, Reported
    <3> QED
      BY <1>8, <3>1, <3>2 DEF ReceiveInit
  <2>4. said' \in Replies /\ sawHealthyInit' \in BOOLEAN
    BY <1>8, <2>2 DEF ReceiveInit
  <2> QED
    BY <1>8, <2>1, <2>3, <2>4
    DEF ReceiveInit, ChainTypes, RetryTypes, LinkTypes
<1>9. ASSUME PortDrops PROVE TypeInv'
  <2>1. helperFailure' \in Failures
    BY <1>9 DEF PortDrops, ShownFailure, ClassifyDisconnect, Failures, Missing
  <2>2. reconnecting' \in BOOLEAN
    BY <1>9 DEF PortDrops, ExpectedBack
  <2> QED
    BY <1>9, <2>1, <2>2, NothingType DEF PortDrops, RetryTypes, LinkTypes, retry
<1>10. ASSUME HelperChanges PROVE TypeInv'
  BY <1>10 DEF HelperChanges, RetryTypes, LinkTypes, link
<1>11. ASSUME WorkerRestarts PROVE TypeInv'
  <2>1. rehydrating' \in Rehydrations
    BY <1>11 DEF WorkerRestarts, RetryTypes, Rehydrations
  <2>2. calls' \in Seq(Calls)
    BY <1>11 DEF WorkerRestarts
  <2>3. newest' \in Sources \cup {None}
    BY <1>11 DEF WorkerRestarts, RetryTypes
  <2> QED
    BY <1>11, <2>1, <2>2, <2>3, ConnectTypes, NoRecordType
    DEF WorkerRestarts, RetryTypes, LinkTypes
<1>12. CASE UNCHANGED vars
  BY <1>12 DEF vars, retry, link, RetryTypes, LinkTypes
<1> QED
  BY <1>1, <1>2, <1>3, <1>4, <1>5, <1>6, <1>7, <1>8, <1>9, <1>10, <1>11, <1>12
  DEF Next

\* Every variable of the helper's recovery keeps its type, for any number of
\* delays, chains, faults and unanswered storage calls.
THEOREM TypeCorrect == Spec => []TypeOK
<1>1. Spec => []TypeInv
  BY TypeInit, TypeStep, PTL DEF Spec
<1> QED
  BY <1>1, TypeInvImplies, PTL
-----------------------------------------------------------------------------
(* The chain is not stranded.  A record and its timer differ only while the *)
(* call that will arm it is pending; what is stored differs from the timer  *)
(* only while a call on the record is pending, or while a new worker has    *)
(* read it and not gone on with it.                                         *)

RecordIsArmed == helperRetryRecord = timer \/ Pending(calls, {"setRecord"})
StoredFollows ==
    newest # None /\ ~rehydrating.waits =>
      storedRecord \in {NoRecord, timer} \/ Pending(calls, RecordOps)
WorkerReads ==
    newest # None /\ rehydrating.waits =>
      calls = <<>> /\ timer = NoRecord /\ rehydrating.record = storedRecord
ChainInv == RecordIsArmed /\ StoredFollows /\ WorkerReads

LEMMA NonePending == \A ops : ~Pending(<<>>, ops)
  BY DEF Pending

LEMMA ClearKeepsChain ==
  ASSUME ClearRetries PROVE ChainInv'
BY DEF ClearRetries, ChainInv, RecordIsArmed, StoredFollows, WorkerReads

\* A chain that ended or went on has its calls pending.
LEMMA FinishKeepsChain ==
  ASSUME TypeInv, NEW source, NEW repair \in BOOLEAN,
         FinishUnsuccessful(source, repair), newest = None \/ ~rehydrating'.waits,
         newest' = newest
  PROVE  ChainInv'
<1>1. Pending(calls', RecordOps)
  BY FinishTypes DEF TypeInv, RetryTypes
<1> QED
  BY <1>1 DEF FinishUnsuccessful, ChainInv, RecordIsArmed, StoredFollows,
     WorkerReads

LEMMA PersistKeepsChain ==
  ASSUME TypeInv, NEW record \in MaybeRecords, PersistAndArm(record),
         newest = None \/ ~rehydrating'.waits, newest' = newest
  PROVE  ChainInv'
<1>1. Pending(calls', {"setRecord"}) /\ Pending(calls', RecordOps)
  BY PersistTypes DEF TypeInv, RetryTypes
<1> QED
  BY <1>1 DEF ChainInv, RecordIsArmed, StoredFollows, WorkerReads

LEMMA ChainStep == TypeInv /\ ChainInv /\ [Next]_vars => ChainInv'
<1> SUFFICES ASSUME TypeInv, ChainInv, [Next]_vars PROVE ChainInv'
  OBVIOUS
<1>0. ASSUME UNCHANGED retry PROVE ChainInv'
  BY <1>0 DEF retry, ChainInv, RecordIsArmed, StoredFollows, WorkerReads
<1>1. ASSUME NEW source \in Sources, StartHelperRetries(source) PROVE ChainInv'
  <2> DEFINE record == [source |-> source, nextRetryIndex |-> 0]
  <2>1. record \in MaybeRecords
    BY RetriesAssumption DEF Records, MaybeRecords
  <2>2. SetRecord(record).op = "setRecord"
    BY DEF SetRecord, Call
  <2>3. ASSUME NEW ops, "setRecord" \in ops
        PROVE  /\ Pending(calls \o <<SetRecord(record)>>, ops)
               /\ Pending(calls \o <<RemoveRepair, SetRecord(record)>>, ops)
    <3> DEFINE c == SetRecord(record)
    <3>1. c \in Calls /\ c.op \in ops /\ calls \in Seq(Calls)
      BY <2>1, <2>2, <2>3, CallType DEF TypeInv, RetryTypes
    <3> HIDE DEF c
    <3>2. <<c>> \in Seq(Calls) /\ Pending(<<c>>, ops)
      BY <3>1, OnePending
    <3>3. <<RemoveRepair, c>> \in Seq(Calls) /\ Pending(<<RemoveRepair, c>>, ops)
      BY <3>1, TwoPending, CallType
    <3>4. Pending(calls \o <<c>>, ops) /\ Pending(calls \o <<RemoveRepair, c>>, ops)
      BY <3>1, <3>2, <3>3, ConcatPending
    <3> QED
      BY <3>4 DEF c
  <2>4. \A ops : "setRecord" \in ops => Pending(calls', ops)
    BY <1>1, <2>3 DEF StartHelperRetries
  <2>5. rehydrating'.waits => newest' = None
    BY <1>1 DEF StartHelperRetries
  <2> QED
    BY <2>4, <2>5 DEF ChainInv, RecordIsArmed, StoredFollows, WorkerReads,
       RecordOps
<1>2. ASSUME CallAnswers PROVE ChainInv'
  <2>1. \A ops : Pending(calls, ops) /\ Head(calls).op \notin ops
                   => Pending(calls', ops)
    BY <1>2, TailPending DEF CallAnswers, TypeInv, RetryTypes
  <2>2. RecordIsArmed'
    BY <1>2, <2>1 DEF CallAnswers, Armed, ChainInv, RecordIsArmed
  <2>3. StoredFollows'
    <3>1. CASE Head(calls).op = "setRecord"
      BY <1>2, <3>1 DEF CallAnswers, Armed, StoredFollows
    <3>2. CASE Head(calls).op = "removeRecord"
      BY <1>2, <3>2 DEF CallAnswers, StoredFollows
    <3>3. CASE Head(calls).op \notin RecordOps
      BY <1>2, <2>1, <3>3
      DEF CallAnswers, Armed, ChainInv, StoredFollows, RecordOps
    <3> QED
      BY <3>1, <3>2, <3>3 DEF RecordOps
  <2>4. WorkerReads'
    BY <1>2 DEF CallAnswers, ChainInv, WorkerReads
  <2> QED
    BY <2>2, <2>3, <2>4 DEF ChainInv
<1>3. ASSUME CallRejects PROVE ChainInv'
  <2>1. \A ops : Pending(calls, ops) /\ Head(calls).op \notin ops
                   => Pending(calls', ops)
    BY <1>3, TailPending DEF CallRejects, TypeInv, RetryTypes
  <2> QED
    BY <1>3, <2>1 DEF CallRejects, Armed, ChainInv, RecordIsArmed,
       StoredFollows, WorkerReads
<1>4. ASSUME TimerFires PROVE ChainInv'
  <2>1. helperRetryRecord = timer
    BY <1>4, NonePending DEF TimerFires, ChainInv, RecordIsArmed
  <2>2. newest = None \/ ~rehydrating'.waits
    BY <1>4 DEF TimerFires, ChainInv, WorkerReads
  <2>3. ExecuteHelperRetry(helperRetryRecord, NoRecord)
    BY <1>4, <2>1 DEF TimerFires
  <2>4. CASE hostConnected
    BY <2>3, <2>4, ClearKeepsChain DEF ExecuteHelperRetry
  <2>5. CASE ~hostConnected /\ UsedUp(helperRetryRecord)
    BY <2>2, <2>3, <2>5, FinishKeepsChain
    DEF ExecuteHelperRetry, TypeInv, RetryTypes
  <2>6. CASE ~hostConnected /\ ~UsedUp(helperRetryRecord)
    <3>1. NextRetry(helperRetryRecord) \in MaybeRecords
      BY <1>4, <2>1, <2>6, NextRetryType DEF TimerFires, TypeInv, RetryTypes
    <3> QED
      BY <2>2, <2>3, <2>6, <3>1, PersistKeepsChain DEF ExecuteHelperRetry
  <2> QED
    BY <2>4, <2>5, <2>6
<1>5. ASSUME Rehydrate PROVE ChainInv'
  <2> DEFINE record == rehydrating.record
             repair == repairRegistrationAvailable \/ rehydrating.repair
  <2>1. record \in MaybeRecords /\ repair \in BOOLEAN
    BY DEF TypeInv, RetryTypes, Rehydrations
  <2>2. ~rehydrating'.waits /\ storedRecord' = storedRecord
    BY <1>5 DEF Rehydrate, NotRehydrating
  <2>3. newest # None => record = storedRecord
    BY <1>5 DEF Rehydrate, ChainInv, WorkerReads
  <2>4. CASE /\ record = NoRecord
             /\ UNCHANGED <<helperRetryRecord, timer, calls, newest>>
    BY <2>2, <2>3, <2>4
    DEF ChainInv, RecordIsArmed, StoredFollows, WorkerReads
  <2>5. CASE ClearRetries
    BY <2>5, ClearKeepsChain
  <2>6. CASE /\ helperRetryRecord' = record
             /\ timer' = record
             /\ UNCHANGED <<calls, newest>>
    BY <2>2, <2>3, <2>6
    DEF ChainInv, RecordIsArmed, StoredFollows, WorkerReads
  <2>7. CASE FinishUnsuccessful(record.source, repair) /\ UNCHANGED newest
    BY <2>1, <2>2, <2>7, FinishKeepsChain
  <2>8. CASE /\ record # NoRecord /\ ~UsedUp(record)
             /\ PersistAndArm(NextRetry(record))
             /\ UNCHANGED newest
    <3>1. NextRetry(record) \in MaybeRecords
      BY <2>1, <2>8, NextRetryType
    <3> QED
      BY <2>2, <2>8, <3>1, PersistKeepsChain
  <2> QED
    BY <1>5, <2>4, <2>5, <2>6, <2>7, <2>8 DEF Rehydrate
<1>6. ASSUME Reconnects \/ PortOpens \/ PortDrops PROVE ChainInv'
  BY <1>0, <1>6 DEF Reconnects, PortOpens, PortDrops
<1>7. ASSUME ReceiveProcRunning \/ ReceiveInit PROVE ChainInv'
  <2>1. CASE ClearRetries
    BY <2>1, ClearKeepsChain
  <2>2. CASE NoRecovery
    BY <1>0, <1>7, <2>2 DEF ReceiveProcRunning, ReceiveInit, NoRecovery, retry
  <2> QED
    BY <1>7, <2>1, <2>2 DEF ReceiveProcRunning, ReceiveInit, MaybeComplete
<1>8. ASSUME HelperChanges PROVE ChainInv'
  BY <1>8 DEF HelperChanges, ChainInv, RecordIsArmed, StoredFollows,
     WorkerReads
<1>9. ASSUME WorkerRestarts PROVE ChainInv'
  BY <1>9 DEF WorkerRestarts, ChainInv, RecordIsArmed, StoredFollows,
     WorkerReads
<1>10. CASE UNCHANGED vars
  BY <1>0, <1>10 DEF vars
<1> QED
  BY <1>1, <1>2, <1>3, <1>4, <1>5, <1>6, <1>7, <1>8, <1>9, <1>10 DEF Next

\* A chain of retries is never stranded between its record, its timer and
\* what is stored, through clears, new chains, rejected storage calls and
\* restarts of the worker.
THEOREM ChainNotStranded == Spec => []StoredIsArmed
<1>1. Init => ChainInv
  BY DEF Init, ChainInv, RecordIsArmed, StoredFollows, WorkerReads
<1>2. TypeInv /\ ChainInv => StoredIsArmed
  BY NonePending DEF ChainInv, RecordIsArmed, StoredFollows, StoredIsArmed
<1> QED
  BY <1>1, <1>2, TypeInit, TypeStep, ChainStep, PTL DEF Spec
-----------------------------------------------------------------------------
(* What the popup says of the helper.                                      *)

\* "Reconnecting" is only said of a helper that is away and expected back:
\* not of one that is missing, refused, or that reported a failure.
THEOREM HonestReconnecting == Spec => []ReconnectingIsHonest
<1>1. Init => ReconnectingIsHonest
  BY DEF Init, ReconnectingIsHonest
<1>2. ReconnectingIsHonest /\ [Next]_vars => ReconnectingIsHonest'
  <2> SUFFICES ASSUME ReconnectingIsHonest, [Next]_vars
               PROVE  ReconnectingIsHonest'
    OBVIOUS
  <2>1. CASE UNCHANGED <<reconnecting, hostConnected, helperFailure>>
    BY <2>1 DEF ReconnectingIsHonest
  <2>2. CASE ReceiveProcRunning \/ ReceiveInit \/ WorkerRestarts
    BY <2>2
    DEF ReceiveProcRunning, ReceiveInit, WorkerRestarts, ReconnectingIsHonest
  <2>3. CASE PortDrops
    BY <2>3 DEF PortDrops, ExpectedBack, ReconnectingIsHonest
  <2> QED
    BY <2>1, <2>2, <2>3
    DEF Next, StartHelperRetries, CallAnswers, CallRejects, TimerFires,
        Rehydrate, Reconnects, PortOpens, HelperChanges, vars, link
<1> QED
  BY <1>1, <1>2, PTL DEF Spec

\* What the worker holds for healthy was said on the port there is.
SaidOnThisPort ==
    port = "talking" =>
      /\ sawHealthyProcRunning => said.proc = "ok"
      /\ sawHealthyInit => said.init = "ok"

\* Steps that leave the connection's health and its failure alone.
LEMMA QuietSteps ==
  ASSUME TypeInv, Next,
         ~ReceiveProcRunning, ~ReceiveInit, ~PortDrops, ~WorkerRestarts
  PROVE  /\ UNCHANGED <<helperFailure, sawHealthyProcRunning, sawHealthyInit>>
         /\ UNCHANGED <<port, said>> \/ port' \in {"opening", "silent"}
<1>1. CASE \E source \in Sources : StartHelperRetries(source)
  BY <1>1 DEF StartHelperRetries, Connect, NoConnect
<1>2. CASE CallAnswers \/ CallRejects \/ HelperChanges
  BY <1>2 DEF CallAnswers, CallRejects, HelperChanges, link
<1>3. CASE TimerFires
  BY <1>3 DEF TimerFires, ExecuteHelperRetry, Connect, NoConnect
<1>4. CASE Rehydrate
  BY <1>4 DEF Rehydrate, Connect, NoConnect
<1>5. CASE Reconnects \/ PortOpens
  BY <1>5 DEF Reconnects, PortOpens, Connect
<1> QED
  BY <1>1, <1>2, <1>3, <1>4, <1>5 DEF Next

LEMMA SaidStep == TypeInv /\ SaidOnThisPort /\ [Next]_vars => SaidOnThisPort'
<1> SUFFICES ASSUME TypeInv, SaidOnThisPort, [Next]_vars
             PROVE  SaidOnThisPort'
  OBVIOUS
<1>1. CASE ReceiveProcRunning
  <2>1. AfterConnected.init => said.init = "ok"
    BY DEF AfterConnected, SaidOnThisPort
  <2>2. said'.init = said.init /\ (sawHealthyProcRunning' => said'.proc = "ok")
    BY <1>1 DEF ReceiveProcRunning, TypeInv, LinkTypes, Replies
  <2> QED
    BY <1>1, <2>1, <2>2 DEF ReceiveProcRunning, SaidOnThisPort
<1>2. CASE ReceiveInit
  <2>1. AfterConnected.proc => said.proc = "ok"
    BY DEF AfterConnected, SaidOnThisPort
  <2>2. said'.proc = said.proc /\ (sawHealthyInit' => said'.init = "ok")
    BY <1>2 DEF ReceiveInit, TypeInv, LinkTypes, Replies
  <2> QED
    BY <1>2, <2>1, <2>2 DEF ReceiveInit, SaidOnThisPort
<1>3. CASE PortDrops \/ WorkerRestarts
  BY <1>3 DEF PortDrops, WorkerRestarts, Connect, SaidOnThisPort
<1>4. CASE UNCHANGED vars
  BY <1>4 DEF vars, link, SaidOnThisPort
<1> QED
  BY <1>1, <1>2, <1>3, <1>4, QuietSteps DEF SaidOnThisPort

\* A step takes a reported failure back only as ReportedFailureStays allows.
LEMMA FailureStep ==
  ASSUME TypeInv, SaidOnThisPort, Next,
         helperFailure \in Reported, helperFailure' = None
  PROVE  said' = [proc |-> "ok", init |-> "ok"] \/ port' = "opening"
<1>0. None \notin Reported /\ AfterConnected.failure = helperFailure
  BY DEF None, Reported, AfterConnected, KeptOnConnect
<1>1. CASE ReceiveProcRunning
  <2>1. MaybeComplete(AfterConnected.failure, TRUE, AfterConnected.init)
        /\ said' = [said EXCEPT !.proc = "ok"]
    BY <1>0, <1>1 DEF ReceiveProcRunning
  <2>2. AfterConnected.init
    BY <1>0, <2>1 DEF MaybeComplete
  <2>3. said.init = "ok"
    BY <2>2 DEF AfterConnected, SaidOnThisPort
  <2> QED
    BY <2>1, <2>3 DEF TypeInv, LinkTypes, Replies
<1>2. CASE ReceiveInit
  <2>1. MaybeComplete(AfterConnected.failure, AfterConnected.proc, TRUE)
        /\ said' = [said EXCEPT !.init = "ok"]
    BY <1>0, <1>2 DEF ReceiveInit, None
  <2>2. AfterConnected.proc
    BY <1>0, <2>1 DEF MaybeComplete
  <2>3. said.proc = "ok"
    BY <2>2 DEF AfterConnected, SaidOnThisPort
  <2> QED
    BY <2>1, <2>3 DEF TypeInv, LinkTypes, Replies
<1>3. CASE PortDrops
  BY <1>0, <1>3 DEF PortDrops, ShownFailure
<1>4. CASE WorkerRestarts
  BY <1>4 DEF WorkerRestarts, Connect
<1> QED
  BY <1>0, <1>1, <1>2, <1>3, <1>4, QuietSteps

\* A failure that the helper reported is taken back by the two successes of
\* one connection, or forgotten with the worker, and in no other way.
THEOREM FailureStays == Spec => ReportedFailureStays
<1>1. Init => SaidOnThisPort
  BY DEF Init, SaidOnThisPort
<1>2. TypeInv /\ SaidOnThisPort /\ [Next]_vars =>
        [(helperFailure \in Reported /\ helperFailure' = None)
           => said' = [proc |-> "ok", init |-> "ok"] \/ port' = "opening"]_vars
  BY FailureStep
<1> QED
  BY <1>1, <1>2, TypeInit, TypeStep, SaidStep, PTL
  DEF Spec, ReportedFailureStays
=============================================================================
