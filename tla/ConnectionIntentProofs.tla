----------------------- MODULE ConnectionIntentProofs ----------------------
(***************************************************************************)
(* Proofs about ConnectionIntent, for any number of events and of pending  *)
(* reads: a connection the user asked for stays the worker's decision, and *)
(* a connection sees at most one corrective down.                          *)
(***************************************************************************)
EXTENDS ConnectionIntent, SequenceTheorems, TLAPS

\* ConnectStands is not inductive: handleBrowserStartup() and
\* handleInstalled() leave a decision alone because of the flag that
\* recordIntent() set with it.
StandsInv == decided = "up" => mirror = "up" /\ explicit

\* OneCorrection is not inductive either: it needs that the latch is closed
\* once the correction of this connection has been sent.
CorrectionInv ==
    /\ attempted \in BOOLEAN
    /\ corrections \in {0, 1}
    /\ connecting = "open" /\ corrections = 1 => attempted

-----------------------------------------------------------------------------
LEMMA StandsStep == StandsInv /\ [Next]_vars => StandsInv'
<1> SUFFICES ASSUME StandsInv, [Next]_vars PROVE StandsInv'
  OBVIOUS
<1> USE DEF StandsInv
<1>1. CASE User
  BY <1>1 DEF User, Toggle, ReleaseOrLogout, RequestLogin, SwitchProfile,
     SetPref, Decide, RecordIntent, None
<1>2. CASE ChainStep
  BY <1>2 DEF ChainStep, history
<1>3. CASE Connects
  BY <1>3 DEF Connects, BeginConnect, ReadSessionIntent, ReadPrefs,
     FinishResolution, OpenPort, Resolve, history, None
<1>4. CASE Automatic
  BY <1>4 DEF Automatic, AutoDisconnectReads, AutoConnectReads,
     AutoConnectGoesUp, HydratePref, CorrectsAfterRead, RecordIntent, history
<1>5. CASE ReceiveStatus
  BY <1>5 DEF ReceiveStatus
<1>6. CASE Lifecycle
  BY <1>6 DEF Lifecycle, HandleBrowserStartup, HandleInstalled,
     RederivesPref, RestoresRun, history
<1>7. CASE HostHandles
  BY <1>7 DEF HostHandles, worker, history
<1>8. CASE Faults
  BY <1>8 DEF Faults, ReadFails, ChainStepFails, PortDrops, WorkerRestarts,
     ExtensionUpdates, BrowserStarts, FreshWorker, None
<1>9. CASE UNCHANGED vars
  BY <1>9 DEF vars, worker, history
<1> QED
  BY <1>1, <1>2, <1>3, <1>4, <1>5, <1>6, <1>7, <1>8, <1>9 DEF Next, Answers

\* A connection the user has asked for stays the worker's decision
\* (recordIntent(true)), whatever late event, resolution or storage read
\* arrives, for as long as the worker lives.
THEOREM ConnectionStands == Spec => []ConnectStands
<1>1. Init => StandsInv
  BY DEF Init, StandsInv, None
<1>2. StandsInv => ConnectStands
  BY DEF StandsInv, ConnectStands
<1> QED
  BY <1>1, <1>2, StandsStep, PTL DEF Spec

-----------------------------------------------------------------------------
\* What sendCorrectiveDown() and maybeAutoDisconnect() do to the latch.
LEMMA SendCorrectiveDownStep ==
  ASSUME CorrectionInv, ~attempted, SendCorrectiveDown,
         connecting' = connecting
  PROVE  CorrectionInv'
<1>1. CASE connecting = "open"
  <2>1. corrections = 0
    BY <1>1 DEF CorrectionInv
  <2>2. corrections' = 1
    BY <1>1, <2>1 DEF SendCorrectiveDown
  <2>3. attempted' = TRUE
    BY <1>1 DEF SendCorrectiveDown
  <2> QED
    BY <2>2, <2>3 DEF CorrectionInv
<1>2. CASE connecting # "open"
  <2>1. corrections' = corrections
    BY <1>2 DEF SendCorrectiveDown
  <2>2. attempted' = FALSE
    BY <1>2 DEF SendCorrectiveDown
  <2> QED
    BY <1>2, <2>1, <2>2 DEF CorrectionInv
<1> QED
  BY <1>1, <1>2

LEMMA MaybeAutoDisconnectStep ==
  ASSUME CorrectionInv, NEW state, NEW intent,
         MaybeAutoDisconnect(state, intent), connecting' = connecting
  PROVE  CorrectionInv'
<1>1. CASE NoCorrection
  BY <1>1 DEF CorrectionInv, NoCorrection
<1>2. CASE ~attempted /\ SendCorrectiveDown
  BY <1>2, SendCorrectiveDownStep
<1> QED
  BY <1>1, <1>2 DEF MaybeAutoDisconnect

LEMMA CorrectionStep == CorrectionInv /\ [Next]_vars => CorrectionInv'
<1> SUFFICES ASSUME CorrectionInv, [Next]_vars PROVE CorrectionInv'
  OBVIOUS
<1> USE DEF CorrectionInv
<1>1. CASE User
  BY <1>1 DEF User, Toggle, ReleaseOrLogout, RequestLogin, SwitchProfile,
     SetPref
<1>2. CASE ChainStep
  BY <1>2 DEF ChainStep, history
<1>3. CASE Connects
  BY <1>3 DEF Connects, BeginConnect, ReadSessionIntent, ReadPrefs,
     FinishResolution, OpenPort, Resolve, ToStage, history
<1>4. CASE Automatic
  <2>1. CASE AutoDisconnectReads /\ CorrectsAfterRead(session)
    BY <2>1, SendCorrectiveDownStep DEF AutoDisconnectReads, CorrectsAfterRead
  <2>2. CASE AutoDisconnectReads /\ ~CorrectsAfterRead(session)
    BY <2>2 DEF AutoDisconnectReads, NoCorrection
  <2>3. CASE AutoConnectReads \/ AutoConnectGoesUp \/ HydratePref
    BY <2>3 DEF AutoConnectReads, AutoConnectGoesUp, HydratePref, history
  <2> QED
    BY <1>4, <2>1, <2>2, <2>3 DEF Automatic
<1>5. CASE ReceiveStatus
  BY <1>5, MaybeAutoDisconnectStep DEF ReceiveStatus
<1>6. CASE HandleBrowserStartup
  <2>1. CASE RederivesPref /\ latest # None
    BY <1>6, <2>1, MaybeAutoDisconnectStep DEF HandleBrowserStartup
  <2>2. CASE ~(RederivesPref /\ latest # None)
    BY <1>6, <2>2 DEF HandleBrowserStartup, NoCorrection
  <2> QED
    BY <2>1, <2>2
<1>7. CASE HandleInstalled
  BY <1>7 DEF HandleInstalled, history
<1>8. CASE HostHandles
  BY <1>8 DEF HostHandles, worker, history
<1>9. CASE Faults
  BY <1>9 DEF Faults, ReadFails, ChainStepFails, PortDrops, WorkerRestarts,
     ExtensionUpdates, BrowserStarts, FreshWorker, CloseConnection, ToStage
<1>10. CASE UNCHANGED vars
  BY <1>10 DEF vars, worker, history
<1> QED
  BY <1>1, <1>2, <1>3, <1>4, <1>5, <1>6, <1>7, <1>8, <1>9, <1>10
     DEF Next, Answers, Lifecycle

\* The worker sends at most one corrective down per connection
\* (autoDisconnectAttempted), however statuses, storage reads and late
\* lifecycle events race for it.
THEOREM CorrectsOnce == Spec => []OneCorrection
<1>1. Init => CorrectionInv
  BY DEF Init, CorrectionInv
<1>2. CorrectionInv => OneCorrection
  BY DEF CorrectionInv, OneCorrection
<1> QED
  BY <1>1, <1>2, CorrectionStep, PTL DEF Spec

-----------------------------------------------------------------------------
(* Types.                                                                  *)

Values == Decisions \cup {None}
Jobs == [op: Ops, value: Values]

\* TypeOK, with the types of what the next values are computed from.
TypeInv ==
    /\ mirror \in Values /\ session \in Values /\ persisted \in Values
    /\ decided \in Values /\ autoConnect \in Values /\ pref \in Values
    /\ explicit \in BOOLEAN /\ attempted \in BOOLEAN
    /\ handled \in BOOLEAN /\ lost \in BOOLEAN
    /\ resolution \in [pref: Values, persisted: Values, usedRecovery: BOOLEAN]
    /\ local \in [pref: Values, persisted: Values]
    /\ saw \in SUBSET {"startup", "update"}
    /\ events \in SUBSET {"startup", "update"}
    /\ chain \in Seq(Jobs)
    /\ connecting \in Stages
    /\ latest \in BackendStates \cup {None}
    /\ shown \in BackendStates
    /\ node \in NodeStates
    /\ toHost \in Seq(Commands)
    /\ inbox \in Seq(BackendStates)

LEMMA TypeInvImplies == TypeInv => TypeOK
<1> SUFFICES ASSUME TypeInv PROVE TypeOK
  OBVIOUS
<1>1. \A i \in DOMAIN chain : chain[i].op \in Ops
  <2>1. \A i \in DOMAIN chain : chain[i] \in Jobs
    BY DEF TypeInv
  <2> QED
    BY <2>1 DEF Jobs
<1>2. \A i \in DOMAIN toHost : toHost[i] \in Commands
  BY DEF TypeInv
<1>3. \A i \in DOMAIN inbox : inbox[i] \in BackendStates
  BY DEF TypeInv
<1>4. resolution.usedRecovery \in BOOLEAN
  BY DEF TypeInv
<1> QED
  BY <1>1, <1>2, <1>3, <1>4 DEF TypeInv, TypeOK, Values

LEMMA Appended ==
  ASSUME NEW S, NEW s \in Seq(S), NEW x \in S
  PROVE  Append(s, x) \in Seq(S)
OBVIOUS

LEMMA JobType == \A op \in Ops : Job(op) \in Jobs
  BY DEF Job, Jobs, Values

LEMMA SendsType ==
  ASSUME TypeInv, NEW cmd \in Commands, Sends(cmd)
  PROVE  toHost' \in Seq(Commands)
<1>1. toHost \in Seq(Commands)
  BY DEF TypeInv
<1> QED
  BY <1>1, Appended DEF Sends

\* One await of the chain's first job leaves known jobs and known values.
LEMMA ChainType ==
  ASSUME TypeInv, chain # <<>>
  PROVE  /\ AfterStep \in Seq(Jobs)
         /\ StepSession \in Values
         /\ StepPersisted \in Values
<1>1. Head(chain) \in Jobs /\ Tail(chain) \in Seq(Jobs)
  BY DEF TypeInv
<1>2. [op |-> "persist", value |-> mirror] \in Jobs
  BY DEF TypeInv, Jobs, Ops
<1>3. Job("clearPersisted") \in Jobs
  BY JobType DEF Ops
<1>4. AfterStep \in Seq(Jobs)
  BY <1>1, <1>2, <1>3 DEF AfterStep
<1>5. StepSession \in Values
  BY DEF TypeInv, StepSession, Values
<1>6. StepPersisted \in Values
  BY <1>1 DEF TypeInv, StepPersisted, Jobs, Values
<1> QED
  BY <1>4, <1>5, <1>6

LEMMA MaybeAutoDisconnectType ==
  ASSUME TypeInv, NEW state, NEW intent, MaybeAutoDisconnect(state, intent)
  PROVE  attempted' \in BOOLEAN /\ toHost' \in Seq(Commands)
<1>1. CASE NoCorrection
  BY <1>1 DEF TypeInv, NoCorrection
<1>2. CASE SendCorrectiveDown
  BY <1>2, SendsType DEF SendCorrectiveDown, Commands
<1> QED
  BY <1>1, <1>2 DEF MaybeAutoDisconnect

LEMMA TypeStep == TypeInv /\ [Next]_vars => TypeInv'
<1> SUFFICES ASSUME TypeInv, [Next]_vars PROVE TypeInv'
  OBVIOUS
<1>1. CASE User
  <2>1. ASSUME NEW value \in Decisions, NEW cmd \in Commands,
               Decide(value, cmd)
        PROVE  /\ mirror' \in Values /\ decided' \in Values
               /\ explicit' \in BOOLEAN
               /\ chain' \in Seq(Jobs) /\ toHost' \in Seq(Commands)
    BY <2>1, SendsType, JobType DEF TypeInv, Decide, RecordIntent, Values, Ops
  <2>2. CASE Toggle
    BY <2>1, <2>2 DEF TypeInv, Toggle, Decisions, Commands
  <2>3. CASE ReleaseOrLogout
    BY <2>1, <2>3 DEF TypeInv, ReleaseOrLogout, Decisions, Commands, storage
  <2>4. CASE RequestLogin
    BY <2>1, <2>4 DEF TypeInv, RequestLogin, Decisions, Commands, storage
  <2>5. CASE SwitchProfile
    BY <2>5, SendsType, JobType
       DEF TypeInv, SwitchProfile, Commands, Ops, storage, Values
  <2>6. CASE SetPref
    BY <2>6 DEF TypeInv, SetPref, Values, Decisions, world
  <2> QED
    BY <1>1, <2>2, <2>3, <2>4, <2>5, <2>6 DEF User
<1>2. CASE ChainStep
  BY <1>2, ChainType DEF ChainStep, TypeInv, world, history
<1>3. CASE Connects
  <2>1. CASE BeginConnect
    BY <2>1 DEF BeginConnect, ToStage, Stages, TypeInv, storage, world, history
  <2>2. CASE ReadSessionIntent
    <3>1. Append(chain, Job("writeAwaited")) \in Seq(Jobs)
      BY JobType, Appended DEF TypeInv, Ops
    <3> QED
      BY <2>2, <3>1 DEF ReadSessionIntent, Resolve, ToStage, Stages,
         TypeInv, storage, world, history
  <2>3. CASE ReadPrefs
    BY <2>3 DEF ReadPrefs, ToStage, Stages, TypeInv, storage, world, history
  <2>4. CASE FinishResolution
    <3>1. (IF RecoverUpdateIntent THEN local.persisted ELSE local.pref) \in Values
      BY DEF TypeInv
    <3>2. NotRead \in [pref: Values, persisted: Values]
      BY DEF NotRead, Values
    <3>3. RecoverUpdateIntent \in BOOLEAN
      BY DEF RecoverUpdateIntent
    <3>4. resolution' \in [pref: Values, persisted: Values, usedRecovery: BOOLEAN]
      BY <2>4, <3>3 DEF FinishResolution, TypeInv
    <3>5. mirror' \in Values /\ chain' \in Seq(Jobs) /\ connecting' \in Stages
      BY <2>4, <3>1, JobType DEF FinishResolution, Resolve, ToStage, Stages,
         Ops, TypeInv
    <3> QED
      BY <2>4, <3>2, <3>4, <3>5
         DEF FinishResolution, TypeInv, storage, world, history
  <2>5. CASE OpenPort
    <3>1. node' \in NodeStates
      BY <2>5 DEF OpenPort, HintedStates, NodeStates
    <3>2. inbox' \in Seq(BackendStates)
      <4>1. node' \in BackendStates /\ "NoState" \in BackendStates
        BY <3>1 DEF BackendStates
      <4>2. /\ <<node'>> \in Seq(BackendStates)
            /\ <<"NoState", node'>> \in Seq(BackendStates)
        BY <4>1
      <4> QED
        BY <2>5, <4>2 DEF OpenPort
    <3>3. toHost' \in Seq(Commands)
      BY <2>5, EmptySeq DEF OpenPort
    <3> QED
      BY <2>5, <3>1, <3>2, <3>3 DEF OpenPort, ToStage, Stages, TypeInv, storage
  <2> QED
    BY <1>3, <2>1, <2>2, <2>3, <2>4, <2>5 DEF Connects
<1>4. CASE Automatic
  <2>1. CASE AutoDisconnectReads
    <3>1. attempted' \in BOOLEAN /\ toHost' \in Seq(Commands)
      BY <2>1, SendsType DEF AutoDisconnectReads, SendCorrectiveDown,
         NoCorrection, Commands, TypeInv
    <3> QED
      BY <2>1, <3>1 DEF AutoDisconnectReads, TypeInv, Values, Decisions,
         storage
  <2>2. CASE AutoConnectReads
    BY <2>2 DEF AutoConnectReads, TypeInv, storage, world, history
  <2>3. CASE AutoConnectGoesUp
    BY <2>3, SendsType, JobType DEF AutoConnectGoesUp, RecordIntent, TypeInv,
       Values, Decisions, Commands, Ops, history
  <2>4. CASE HydratePref
    BY <2>4 DEF HydratePref, TypeInv, storage, world, history
  <2> QED
    BY <1>4, <2>1, <2>2, <2>3, <2>4 DEF Automatic
<1>5. CASE ReceiveStatus
  <2>1. Head(inbox) \in BackendStates /\ inbox' \in Seq(BackendStates)
    BY <1>5 DEF ReceiveStatus, TypeInv
  <2>2. attempted' \in BOOLEAN /\ toHost' \in Seq(Commands)
    BY <1>5, MaybeAutoDisconnectType DEF ReceiveStatus
  <2> QED
    BY <1>5, <2>1, <2>2 DEF ReceiveStatus, TypeInv, storage
<1>6. CASE HandleBrowserStartup
  <2>1. attempted' \in BOOLEAN /\ toHost' \in Seq(Commands)
    <3>1. CASE NoCorrection
      BY <3>1 DEF NoCorrection, TypeInv
    <3>2. CASE MaybeAutoDisconnect(latest, mirror')
      BY <3>2, MaybeAutoDisconnectType
    <3> QED
      BY <1>6, <3>1, <3>2 DEF HandleBrowserStartup
  <2>2. Job("clearPersisted") \in Jobs /\ Job("write") \in Jobs
    BY JobType DEF Ops
  <2>3. chain' \in Seq(Jobs)
    <3>1. <<Job("clearPersisted"), Job("write")>> \in Seq(Jobs)
      BY <2>2
    <3>2. chain \in Seq(Jobs)
      BY DEF TypeInv
    <3> QED
      BY <1>6, <2>2, <3>1, <3>2, Appended, ConcatProperties
         DEF HandleBrowserStartup
  <2>4. events' \in SUBSET {"startup", "update"} /\ saw' \in SUBSET {"startup", "update"}
    BY <1>6 DEF HandleBrowserStartup, TypeInv
  <2>5. mirror' \in Values
    BY <1>6 DEF HandleBrowserStartup, TypeInv
  <2> QED
    BY <1>6, <2>1, <2>3, <2>4, <2>5 DEF HandleBrowserStartup, TypeInv, storage
<1>7. CASE HandleInstalled
  <2>1. resolution' \in [pref: Values, persisted: Values, usedRecovery: BOOLEAN]
    BY <1>7 DEF HandleInstalled, TypeInv
  <2>2. mirror' \in Values /\ chain' \in Seq(Jobs)
    <3>1. Append(chain, Job("writeBoth")) \in Seq(Jobs)
      BY JobType, Appended DEF TypeInv, Ops
    <3> QED
      BY <1>7, <3>1 DEF HandleInstalled, TypeInv, Values, Decisions
  <2>3. toHost' \in Seq(Commands)
    BY <1>7, SendsType DEF HandleInstalled, TypeInv, Commands
  <2>4. events' \in SUBSET {"startup", "update"} /\ saw' \in SUBSET {"startup", "update"}
    BY <1>7 DEF HandleInstalled, TypeInv
  <2> QED
    BY <1>7, <2>1, <2>2, <2>3, <2>4
       DEF HandleInstalled, TypeInv, storage, history
<1>8. CASE HostHandles
  <2>1. node' \in NodeStates
    BY <1>8 DEF HostHandles, NodeAfter, NodeStates, TypeInv
  <2> QED
    BY <1>8, <2>1 DEF HostHandles, TypeInv, BackendStates, worker, storage,
       history
<1>9. CASE Faults
  <2>1. CASE ReadFails
    BY <2>1 DEF ReadFails, ToStage, Stages, TypeInv, storage, world
  <2>2. CASE ChainStepFails
    BY <2>2, ChainType DEF ChainStepFails, TypeInv, storage, world
  <2>3. CASE PortDrops
    BY <2>3, EmptySeq DEF PortDrops, ToStage, Stages, CloseConnection, TypeInv, storage,
       BackendStates
  <2>4. CASE FreshWorker
    <3>1. /\ NotRead \in [pref: Values, persisted: Values]
          /\ NoResolution \in [pref: Values, persisted: Values, usedRecovery: BOOLEAN]
      BY DEF NotRead, NoResolution, Values
    <3>2. CASE WorkerRestarts
      <4>1. lost' \in BOOLEAN
        BY <3>2 DEF WorkerRestarts
      <4>2. UNCHANGED <<session, persisted, handled, pref, events, node>>
        BY <3>2 DEF WorkerRestarts, storage
      <4> QED
        BY <2>4, <3>1, <4>1, <4>2, EmptySeq
           DEF FreshWorker, TypeInv, Values, Stages, BackendStates
    <3>3. CASE ExtensionUpdates \/ BrowserStarts
      BY <2>4, <3>1, <3>3, EmptySeq DEF FreshWorker, ExtensionUpdates, BrowserStarts,
         TypeInv, Values, Stages, BackendStates
    <3> QED
      BY <1>9, <2>4, <2>1, <2>2, <2>3, <3>2, <3>3 DEF Faults
  <2> QED
    BY <1>9, <2>1, <2>2, <2>3, <2>4
       DEF Faults, WorkerRestarts, ExtensionUpdates, BrowserStarts
<1>10. CASE UNCHANGED vars
  BY <1>10 DEF vars, worker, storage, world, history, TypeInv
<1> QED
  BY <1>1, <1>2, <1>3, <1>4, <1>5, <1>6, <1>7, <1>8, <1>9, <1>10
     DEF Next, Answers, Lifecycle

LEMMA TypeInit == Init => TypeInv
<1> SUFFICES ASSUME Init PROVE TypeInv
  OBVIOUS
<1>1. /\ NotRead \in [pref: Values, persisted: Values]
      /\ NoResolution \in [pref: Values, persisted: Values, usedRecovery: BOOLEAN]
  BY DEF NotRead, NoResolution, Values
<1> QED
  BY <1>1, EmptySeq DEF Init, TypeInv, Values, Decisions, Stages, BackendStates,
     NodeStates

\* Every variable of the worker, of its storage and of the helper's side
\* keeps its type, and the chain holds known jobs only.
THEOREM TypeCorrect == Spec => []TypeOK
  BY TypeInit, TypeStep, TypeInvImplies, PTL DEF Spec

-----------------------------------------------------------------------------
(* The stored copies.                                                      *)

Has(q, ops) == \E i \in DOMAIN q : q[i].op \in ops
NoneIn(q, op) == \A i \in DOMAIN q : q[i].op # op
Persists(q) == q # <<>> /\ q[1].op = "persist"
Writes == {"write", "writeAwaited", "writeBoth"}

\* A write of the persisted copy is the second half of a job: it comes first.
PersistsFirst(q) == \A i \in DOMAIN q : i # 1 => q[i].op # "persist"

\* StoredIsNewest holds of an empty chain.  On the way there, a copy that is
\* not the newest has a job in the chain that will make it so, and no job
\* behind that one undoes it.
SessionFollows == mirror # None => session = mirror \/ Has(chain, Writes)
PersistedFollows ==
    decided # None =>
      \/ Has(chain, {"writeBoth"})
      \/ Persists(chain) /\ chain[1].value = mirror
      \/ ~Persists(chain) /\ persisted \in {mirror, None}
ClearFollows ==
    explicit /\ mirror = None =>
      \/ Has(chain, {"clear"})
      \/ /\ ~Persists(chain) /\ session = None
         /\ persisted = None \/ Has(chain, {"clearPersisted"})

StoreInv ==
    /\ PersistsFirst(chain)
    /\ decided # None => mirror # None /\ explicit
    /\ ~lost => SessionFollows /\ PersistedFollows /\ ClearFollows

\* A chain q that grows to r by jobs other than "persist" keeps what it has.
Grown(q, r) ==
    /\ PersistsFirst(q) => PersistsFirst(r)
    /\ Persists(r) <=> Persists(q)
    /\ Persists(q) => r[1] = q[1]
    /\ \A ops \in SUBSET Ops : Has(q, ops) => Has(r, ops)

LEMMA AppendGrows ==
  ASSUME NEW q \in Seq(Jobs), NEW op \in Ops \ {"persist"}
  PROVE  /\ Grown(q, Append(q, Job(op)))
         /\ \A ops \in SUBSET Ops : op \in ops => Has(Append(q, Job(op)), ops)
         /\ Append(q, Job(op)) \in Seq(Jobs)
<1> DEFINE j == Job(op)
           r == Append(q, j)
<1>1. j \in Jobs /\ j.op = op
  BY JobType DEF Job
<1> HIDE DEF j
<1>2. /\ r \in Seq(Jobs) /\ Len(r) = Len(q) + 1 /\ Len(q) \in Nat
      /\ \A i \in 1..Len(q) : r[i] = q[i]
      /\ r[Len(q) + 1] = j
      /\ DOMAIN q = 1..Len(q) /\ DOMAIN r = 1..(Len(q) + 1)
  BY <1>1
<1> HIDE DEF r
<1>3. PersistsFirst(q) => PersistsFirst(r)
  BY <1>1, <1>2 DEF PersistsFirst
<1>4. q = <<>> <=> Len(q) = 0
  BY EmptySeq
<1>5. r # <<>>
  BY <1>2, EmptySeq
<1>6. Persists(q) => r[1] = q[1]
  BY <1>2, <1>4 DEF Persists
<1>7. Persists(r) <=> Persists(q)
  BY <1>1, <1>2, <1>4, <1>5 DEF Persists
<1>8. \A ops \in SUBSET Ops : Has(q, ops) => Has(r, ops)
  BY <1>2 DEF Has
<1>9. \A ops \in SUBSET Ops : op \in ops => Has(r, ops)
  BY <1>1, <1>2 DEF Has
<1> QED
  BY <1>2, <1>3, <1>6, <1>7, <1>8, <1>9 DEF Grown, r, j

\* The first job of the chain ends: the others are still there.
LEMMA TailKeeps ==
  ASSUME NEW q \in Seq(Jobs), q # <<>>, PersistsFirst(q)
  PROVE  /\ Tail(q) \in Seq(Jobs) /\ NoneIn(Tail(q), "persist")
         /\ \A ops \in SUBSET Ops :
              Has(q, ops) /\ Head(q).op \notin ops => Has(Tail(q), ops)
<1>1. /\ Tail(q) \in Seq(Jobs) /\ Len(q) \in Nat \ {0}
      /\ DOMAIN q = 1..Len(q) /\ DOMAIN Tail(q) = 1..(Len(q) - 1)
      /\ \A i \in 1..(Len(q) - 1) : Tail(q)[i] = q[i + 1]
      /\ Head(q) = q[1]
  BY EmptySeq
<1>2. NoneIn(Tail(q), "persist")
  BY <1>1 DEF NoneIn, PersistsFirst
<1>3. ASSUME NEW ops \in SUBSET Ops, Has(q, ops), Head(q).op \notin ops
      PROVE  Has(Tail(q), ops)
  <2>1. PICK i \in DOMAIN q : q[i].op \in ops
    BY <1>3 DEF Has
  <2>2. i - 1 \in 1..(Len(q) - 1)
    BY <1>1, <1>3, <2>1
  <2>3. Tail(q)[i - 1] = q[i]
    BY <1>1, <2>1, <2>2
  <2> QED
    BY <1>1, <2>1, <2>2, <2>3 DEF Has
<1> QED
  BY <1>1, <1>2, <1>3

\* Its second half takes its place.
LEMMA ConsKeeps ==
  ASSUME NEW t \in Seq(Jobs), NEW j \in Jobs, NoneIn(t, "persist")
  PROVE  /\ <<j>> \o t \in Seq(Jobs)
         /\ PersistsFirst(<<j>> \o t)
         /\ (<<j>> \o t)[1] = j /\ <<j>> \o t # <<>>
         /\ \A ops \in SUBSET Ops :
              Has(t, ops) \/ j.op \in ops => Has(<<j>> \o t, ops)
<1> DEFINE r == <<j>> \o t
<1>1. /\ r \in Seq(Jobs) /\ Len(t) \in Nat
      /\ DOMAIN t = 1..Len(t) /\ DOMAIN r = 1..(Len(t) + 1)
      /\ r[1] = j
      /\ \A i \in 1..Len(t) : r[i + 1] = t[i]
  OBVIOUS
<1>2. Len(r) = Len(t) + 1
  OBVIOUS
<1> HIDE DEF r
<1>3. r # <<>>
  BY <1>1, <1>2, EmptySeq
<1>4. PersistsFirst(r)
  <2> SUFFICES ASSUME NEW i \in DOMAIN r, i # 1 PROVE r[i].op # "persist"
    BY DEF PersistsFirst
  <2>1. i - 1 \in 1..Len(t) /\ r[i] = t[i - 1]
    BY <1>1
  <2> QED
    BY <1>1, <2>1 DEF NoneIn
<1>5. ASSUME NEW ops \in SUBSET Ops, Has(t, ops) \/ j.op \in ops
      PROVE  Has(r, ops)
  <2>1. CASE j.op \in ops
    BY <1>1, <2>1 DEF Has
  <2>2. CASE Has(t, ops)
    <3>1. PICK i \in DOMAIN t : t[i].op \in ops
      BY <2>2 DEF Has
    <3>2. i + 1 \in DOMAIN r /\ r[i + 1] = t[i]
      BY <1>1
    <3> QED
      BY <3>1, <3>2 DEF Has
  <2> QED
    BY <1>5, <2>1, <2>2
<1> QED
  BY <1>1, <1>3, <1>4, <1>5 DEF r

\* One job ends, or its first half: what the copies wait for is done or
\* still in the chain.
LEMMA ChainStepStore ==
  ASSUME TypeInv, StoreInv, ChainStep
  PROVE  StoreInv'
<1> DEFINE h == Head(chain)
           t == Tail(chain)
<1>1. /\ chain # <<>> /\ chain \in Seq(Jobs) /\ PersistsFirst(chain)
      /\ chain' = AfterStep /\ session' = StepSession
      /\ persisted' = StepPersisted
      /\ UNCHANGED <<mirror, explicit, decided, lost>>
  BY DEF TypeInv, StoreInv, ChainStep, history
<1>2. /\ h \in Jobs /\ chain[1] = h
      /\ t \in Seq(Jobs) /\ NoneIn(t, "persist")
      /\ \A ops \in SUBSET Ops : Has(chain, ops) /\ h.op \notin ops => Has(t, ops)
  BY <1>1, TailKeeps
<1>3. /\ Writes \in SUBSET Ops /\ {"writeBoth"} \in SUBSET Ops
      /\ {"clear"} \in SUBSET Ops /\ {"clearPersisted"} \in SUBSET Ops
  BY DEF Writes, Ops
<1> HIDE DEF h, t
<1>4. Persists(chain) <=> h.op = "persist"
  BY <1>1, <1>2 DEF Persists
<1>5. PersistsFirst(t) /\ ~Persists(t)
  <2>1. DOMAIN t = 1..Len(t) /\ Len(t) \in Nat
    BY <1>2
  <2>2. t # <<>> => 1 \in DOMAIN t
    BY <1>2, <2>1, EmptySeq
  <2> QED
    BY <1>2, <2>2 DEF PersistsFirst, Persists, NoneIn
<1>6. CASE h.op = "writeBoth" /\ mirror # None
  <2> DEFINE j == [op |-> "persist", value |-> mirror]
  <2>1. j \in Jobs /\ j.op = "persist" /\ j.value = mirror
    BY DEF TypeInv, Jobs, Ops
  <2>2. chain' = <<j>> \o t
    BY <1>1, <1>6 DEF AfterStep, h, t
  <2> HIDE DEF j
  <2>3. PersistsFirst(chain') /\ Persists(chain') /\ chain'[1] = j
    BY <1>2, <2>1, <2>2, ConsKeeps DEF Persists
  <2>4. session' = mirror
    BY <1>1, <1>6 DEF StepSession, h
  <2>5. SessionFollows' /\ PersistedFollows' /\ ClearFollows'
    BY <1>1, <1>6, <2>1, <2>3, <2>4
       DEF SessionFollows, PersistedFollows, ClearFollows
  <2> QED
    BY <1>1, <2>3, <2>5 DEF StoreInv
<1>7. CASE h.op = "clear" /\ mirror = None
  <2> DEFINE j == Job("clearPersisted")
  <2>1. j \in Jobs /\ j.op = "clearPersisted"
    BY JobType DEF Job, Ops
  <2>2. chain' = <<j>> \o t
    BY <1>1, <1>7 DEF AfterStep, h, t
  <2> HIDE DEF j
  <2>3. PersistsFirst(chain') /\ ~Persists(chain') /\ Has(chain', {"clearPersisted"})
    BY <1>2, <1>3, <2>1, <2>2, ConsKeeps DEF Persists
  <2>4. session' = None
    BY <1>1, <1>7 DEF StepSession, h
  <2>5. decided = None
    BY <1>7 DEF StoreInv
  <2>6. SessionFollows' /\ PersistedFollows' /\ ClearFollows'
    BY <1>1, <1>7, <2>3, <2>4, <2>5
       DEF SessionFollows, PersistedFollows, ClearFollows
  <2> QED
    BY <1>1, <2>3, <2>6 DEF StoreInv
<1>8. CASE /\ ~(h.op = "writeBoth" /\ mirror # None)
           /\ ~(h.op = "clear" /\ mirror = None)
  <2>1. chain' = t
    BY <1>1, <1>8 DEF AfterStep, h, t
  <2>2. session' = IF h.op \in {"write", "writeAwaited"} /\ mirror # None
                   THEN mirror ELSE session
    BY <1>1, <1>8 DEF StepSession, h
  <2>3. persisted' = IF h.op = "persist" THEN h.value
                     ELSE IF h.op = "clearPersisted" THEN None ELSE persisted
    BY <1>1 DEF StepPersisted, h
  <2>4. ASSUME ~lost PROVE SessionFollows'
    <3>1. CASE h.op \in {"write", "writeAwaited"}
      BY <1>1, <2>2, <3>1 DEF SessionFollows
    <3>2. CASE h.op \notin {"write", "writeAwaited"} /\ mirror # None
      <4>1. h.op \notin Writes
        BY <1>8, <3>2 DEF Writes
      <4> QED
        BY <1>1, <1>2, <1>3, <2>1, <2>2, <2>4, <3>2, <4>1
           DEF StoreInv, SessionFollows
    <3> QED
      BY <1>1, <3>1, <3>2 DEF SessionFollows
  <2>5. ASSUME ~lost PROVE PersistedFollows'
    <3> SUFFICES ASSUME decided # None PROVE PersistedFollows'
      BY <1>1 DEF PersistedFollows
    <3>1. mirror # None /\ h.op # "writeBoth"
      BY <1>8 DEF StoreInv
    <3>2. CASE Has(chain, {"writeBoth"})
      BY <1>2, <1>3, <2>1, <3>1, <3>2 DEF PersistedFollows
    <3>3. CASE Persists(chain) /\ chain[1].value = mirror
      BY <1>1, <1>2, <1>4, <1>5, <2>1, <2>3, <3>3 DEF PersistedFollows
    <3>4. CASE ~Persists(chain) /\ persisted \in {mirror, None}
      BY <1>1, <1>4, <1>5, <2>1, <2>3, <3>4 DEF PersistedFollows
    <3> QED
      BY <2>5, <3>2, <3>3, <3>4 DEF StoreInv, PersistedFollows
  <2>6. ASSUME ~lost PROVE ClearFollows'
    <3> SUFFICES ASSUME explicit, mirror = None PROVE ClearFollows'
      BY <1>1 DEF ClearFollows
    <3>1. h.op # "clear" /\ session' = session
      BY <1>8, <2>2
    <3>2. CASE Has(chain, {"clear"})
      BY <1>2, <1>3, <2>1, <3>1, <3>2 DEF ClearFollows
    <3>3. CASE /\ ~Persists(chain) /\ session = None
               /\ persisted = None \/ Has(chain, {"clearPersisted"})
      <4>1. CASE h.op = "clearPersisted"
        BY <1>5, <2>1, <2>3, <3>1, <3>3, <4>1 DEF ClearFollows
      <4>2. CASE h.op # "clearPersisted"
        BY <1>2, <1>3, <1>4, <1>5, <2>1, <2>3, <3>1, <3>3, <4>2 DEF ClearFollows
      <4> QED
        BY <4>1, <4>2
    <3> QED
      BY <2>6, <3>2, <3>3 DEF StoreInv, ClearFollows
  <2> QED
    BY <1>1, <1>5, <2>1, <2>4, <2>5, <2>6 DEF StoreInv
<1> QED
  BY <1>6, <1>7, <1>8

\* A rejected storage call loses a copy, and the chain goes on.
LEMMA ChainStepFailsStore ==
  ASSUME TypeInv, StoreInv, ChainStepFails
  PROVE  StoreInv'
<1>1. /\ chain # <<>> /\ chain \in Seq(Jobs) /\ PersistsFirst(chain)
      /\ chain' = AfterStep /\ lost' = TRUE
      /\ UNCHANGED <<mirror, explicit, decided>>
  BY DEF TypeInv, StoreInv, ChainStepFails
<1>2. Tail(chain) \in Seq(Jobs) /\ NoneIn(Tail(chain), "persist")
  BY <1>1, TailKeeps
<1>3. /\ [op |-> "persist", value |-> mirror] \in Jobs
      /\ Job("clearPersisted") \in Jobs
  BY JobType DEF TypeInv, Jobs, Ops
<1>4. PersistsFirst(Tail(chain))
  BY <1>2 DEF PersistsFirst, NoneIn
<1>5. PersistsFirst(chain')
  BY <1>1, <1>2, <1>3, <1>4, ConsKeeps DEF AfterStep
<1> QED
  BY <1>1, <1>5 DEF StoreInv

\* A decision that appends a write of both copies.
LEMMA RecordStore ==
  ASSUME TypeInv, StoreInv, mirror' \in Decisions,
         chain' = Append(chain, Job("writeBoth")),
         lost' = lost, decided' # None => explicit'
  PROVE  StoreInv'
<1>1. chain \in Seq(Jobs)
  BY DEF TypeInv
<1>2. "writeBoth" \in Ops \ {"persist"}
  BY DEF Ops
<1>3. /\ Grown(chain, chain')
      /\ \A ops \in SUBSET Ops : "writeBoth" \in ops => Has(chain', ops)
  BY <1>1, <1>2, AppendGrows
<1>4. Has(chain', Writes) /\ Has(chain', {"writeBoth"})
  BY <1>3 DEF Writes, Ops
<1>5. mirror' # None
  BY DEF Decisions, None
<1> QED
  BY <1>3, <1>4, <1>5 DEF StoreInv, Grown, SessionFollows, PersistedFollows,
     ClearFollows

\* A startup resolution, which a decision of the user outlives.
LEMMA ResolveStore ==
  ASSUME TypeInv, StoreInv, NEW value, Resolve(value),
         UNCHANGED <<explicit, session, persisted, decided, lost>>
  PROVE  StoreInv'
<1>1. chain \in Seq(Jobs) /\ chain' = Append(chain, Job("writeAwaited"))
  BY DEF TypeInv, Resolve
<1>2. "writeAwaited" \in Ops \ {"persist"}
  BY DEF Ops
<1>3. /\ Grown(chain, chain')
      /\ \A ops \in SUBSET Ops : "writeAwaited" \in ops => Has(chain', ops)
  BY <1>1, <1>2, AppendGrows
<1>4. Has(chain', Writes)
  BY <1>3 DEF Writes, Ops
<1>5. /\ Has(chain, {"writeBoth"}) => Has(chain', {"writeBoth"})
      /\ Has(chain, {"clear"}) => Has(chain', {"clear"})
      /\ Has(chain, {"clearPersisted"}) => Has(chain', {"clearPersisted"})
  BY <1>3 DEF Grown, Ops
<1>6. mirror # None => mirror' = mirror
  BY DEF Resolve
<1> QED
  BY <1>3, <1>4, <1>5, <1>6 DEF StoreInv, Grown, SessionFollows,
     PersistedFollows, ClearFollows

\* The variables that StoreInv is about.
stored == <<mirror, explicit, chain, session, persisted, decided, lost>>

LEMMA StoreUnchanged == StoreInv /\ UNCHANGED stored => StoreInv'
  BY DEF stored, StoreInv, SessionFollows, PersistedFollows, ClearFollows

LEMMA StoreStep == TypeInv /\ StoreInv /\ [Next]_vars => StoreInv'
<1> SUFFICES ASSUME TypeInv, StoreInv, [Next]_vars PROVE StoreInv'
  OBVIOUS
<1>1. CASE User
  <2>1. ASSUME NEW value \in Decisions, NEW cmd, Decide(value, cmd),
               lost' = lost
        PROVE  StoreInv'
    BY <2>1, RecordStore DEF Decide, RecordIntent
  <2>2. CASE Toggle
    BY <2>1, <2>2 DEF Toggle, Decisions
  <2>3. CASE ReleaseOrLogout
    BY <2>1, <2>3 DEF ReleaseOrLogout, Decisions
  <2>4. CASE RequestLogin
    BY <2>1, <2>4 DEF RequestLogin, Decisions
  <2>5. CASE SwitchProfile
    <3>1. /\ chain \in Seq(Jobs) /\ chain' = Append(chain, Job("clear"))
          /\ mirror' = None /\ decided' = None /\ lost' = lost
      BY <2>5 DEF TypeInv, SwitchProfile
    <3>2. "clear" \in Ops \ {"persist"} /\ {"clear"} \in SUBSET Ops
      BY DEF Ops
    <3>3. Grown(chain, chain') /\ Has(chain', {"clear"})
      BY <3>1, <3>2, AppendGrows
    <3> QED
      BY <3>1, <3>3 DEF StoreInv, Grown, SessionFollows, PersistedFollows,
         ClearFollows
  <2>6. CASE SetPref
    BY <2>6, StoreUnchanged DEF SetPref, stored
  <2> QED
    BY <1>1, <2>2, <2>3, <2>4, <2>5, <2>6 DEF User
<1>2. CASE ChainStep
  BY <1>2, ChainStepStore
<1>3. CASE Connects
  <2>1. CASE BeginConnect \/ ReadPrefs \/ OpenPort
    BY <2>1, StoreUnchanged DEF BeginConnect, ReadPrefs, OpenPort, stored,
       storage, history
  <2>2. CASE ReadSessionIntent /\ session # None
    BY <2>2, ResolveStore DEF ReadSessionIntent, storage, history
  <2>3. CASE ReadSessionIntent /\ session = None
    BY <2>3, StoreUnchanged DEF ReadSessionIntent, stored, storage, history
  <2>4. CASE FinishResolution
    BY <2>4, ResolveStore DEF FinishResolution, storage, history
  <2> QED
    BY <1>3, <2>1, <2>2, <2>3, <2>4 DEF Connects
<1>4. CASE Automatic
  <2>1. CASE AutoDisconnectReads /\ CorrectsAfterRead(session)
    <3>1. /\ session = "down" /\ mirror # "up" /\ mirror' = "down"
          /\ UNCHANGED <<explicit, chain, session, persisted, decided, lost>>
      BY <2>1 DEF AutoDisconnectReads, CorrectsAfterRead, storage
    <3>2. mirror # None => mirror' = mirror
      BY <3>1 DEF TypeInv, Values, Decisions
    <3>3. mirror' # None
      BY <3>1 DEF None
    <3> QED
      BY <3>1, <3>2, <3>3 DEF StoreInv, SessionFollows, PersistedFollows,
         ClearFollows
  <2>2. CASE AutoDisconnectReads /\ ~CorrectsAfterRead(session)
    BY <2>2, StoreUnchanged DEF AutoDisconnectReads, stored, storage
  <2>3. CASE AutoConnectReads \/ HydratePref
    BY <2>3, StoreUnchanged DEF AutoConnectReads, HydratePref, stored,
       storage, history
  <2>4. CASE AutoConnectGoesUp
    BY <2>4, RecordStore DEF AutoConnectGoesUp, RecordIntent, Decisions, history
  <2> QED
    BY <1>4, <2>1, <2>2, <2>3, <2>4 DEF Automatic
<1>5. CASE ReceiveStatus
  BY <1>5, StoreUnchanged DEF ReceiveStatus, stored, storage
<1>6. CASE HandleBrowserStartup
  <2> DEFINE cleared == Append(chain, Job("clearPersisted"))
             rewritten == Append(cleared, Job("write"))
  <2>1. /\ UNCHANGED <<explicit, session, persisted, decided, lost>>
        /\ chain \in Seq(Jobs)
    BY <1>6 DEF HandleBrowserStartup, TypeInv, storage
  <2>2. /\ "clearPersisted" \in Ops \ {"persist"} /\ "write" \in Ops \ {"persist"}
        /\ Writes \in SUBSET Ops /\ {"writeBoth"} \in SUBSET Ops
        /\ {"clear"} \in SUBSET Ops /\ {"clearPersisted"} \in SUBSET Ops
    BY DEF Ops, Writes
  <2>3. cleared \in Seq(Jobs) /\ Grown(chain, cleared)
    BY <2>1, <2>2, AppendGrows
  <2>4. CASE RederivesPref
    <3>1. chain' = rewritten /\ ~explicit
      <4>1. chain \o <<Job("clearPersisted"), Job("write")>> = rewritten
        BY <2>1, <2>2, JobType
      <4> QED
        BY <1>6, <2>4, <4>1 DEF HandleBrowserStartup, RederivesPref
    <3> HIDE DEF cleared
    <3>2. Grown(cleared, chain') /\ Has(chain', Writes)
      BY <2>2, <2>3, <3>1, AppendGrows DEF Writes
    <3>3. decided = None
      BY <3>1 DEF StoreInv
    <3> QED
      BY <2>1, <2>3, <3>1, <3>2, <3>3 DEF StoreInv, Grown, SessionFollows,
         PersistedFollows, ClearFollows
  <2>5. CASE ~RederivesPref
    <3>1. chain' = cleared /\ mirror' = mirror
      BY <1>6, <2>5 DEF HandleBrowserStartup
    <3> HIDE DEF cleared
    <3>2. /\ Has(chain, Writes) => Has(chain', Writes)
          /\ Has(chain, {"writeBoth"}) => Has(chain', {"writeBoth"})
          /\ Has(chain, {"clear"}) => Has(chain', {"clear"})
          /\ Has(chain, {"clearPersisted"}) => Has(chain', {"clearPersisted"})
      BY <2>2, <2>3, <3>1 DEF Grown
    <3> QED
      BY <2>1, <2>3, <3>1, <3>2 DEF StoreInv, Grown, SessionFollows,
         PersistedFollows, ClearFollows
  <2> QED
    BY <2>4, <2>5
<1>7. CASE HandleInstalled
  <2>1. CASE RestoresRun
    BY <1>7, <2>1, RecordStore DEF HandleInstalled, StoreInv, Decisions, history
  <2>2. CASE ~RestoresRun
    BY <1>7, <2>2, StoreUnchanged DEF HandleInstalled, stored, storage, history
  <2> QED
    BY <2>1, <2>2
<1>8. CASE HostHandles
  BY <1>8, StoreUnchanged DEF HostHandles, stored, worker, storage, history
<1>9. CASE Faults
  <2>1. CASE ReadFails
    BY <2>1 DEF ReadFails, StoreInv
  <2>2. CASE ChainStepFails
    BY <2>2, ChainStepFailsStore
  <2>3. CASE PortDrops
    BY <2>3, StoreUnchanged DEF PortDrops, stored, storage
  <2>4. CASE FreshWorker
    <3>1. PersistsFirst(chain')
      BY <2>4 DEF FreshWorker, PersistsFirst
    <3> QED
      BY <2>4, <3>1 DEF FreshWorker, StoreInv, SessionFollows,
         PersistedFollows, ClearFollows
  <2> QED
    BY <1>9, <2>1, <2>2, <2>3, <2>4
       DEF Faults, WorkerRestarts, ExtensionUpdates, BrowserStarts
<1>10. CASE UNCHANGED vars
  BY <1>10, StoreUnchanged DEF vars, worker, storage, history, stored
<1> QED
  BY <1>1, <1>2, <1>3, <1>4, <1>5, <1>6, <1>7, <1>8, <1>9, <1>10
     DEF Next, Answers, Lifecycle

\* Once the write chain has drained, both stored copies hold the newest
\* decision and never an older one (enqueueIntentWrite, clearIntent), for any
\* number of decisions, resolutions, lifecycle events and restarts.
THEOREM StoredDecision == Spec => []StoredIsNewest
<1>1. Init => StoreInv
  BY DEF Init, StoreInv, PersistsFirst, SessionFollows, PersistedFollows,
     ClearFollows
<1>2. StoreInv => StoredIsNewest
  <2> SUFFICES ASSUME StoreInv, chain = <<>>, ~lost PROVE StoredIsNewest
    BY DEF StoredIsNewest
  <2>1. ~Persists(chain) /\ \A ops \in SUBSET Ops : ~Has(chain, ops)
    BY DEF Persists, Has
  <2>2. /\ Writes \in SUBSET Ops /\ {"writeBoth"} \in SUBSET Ops
        /\ {"clear"} \in SUBSET Ops /\ {"clearPersisted"} \in SUBSET Ops
    BY DEF Ops, Writes
  <2> QED
    BY <2>1, <2>2 DEF StoreInv, SessionFollows, PersistedFollows,
       ClearFollows, StoredIsNewest
<1> QED
  BY <1>1, <1>2, TypeInit, TypeStep, StoreStep, PTL DEF Spec
=============================================================================
