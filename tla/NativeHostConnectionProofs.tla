--------------------- MODULE NativeHostConnectionProofs --------------------
(***************************************************************************)
(* The safety properties of NativeHostConnection, for any set of ports and *)
(* any reconnect delays.                                                   *)
(*                                                                         *)
(* None of them is inductive alone.  That a new port never leaves an older *)
(* helper behind rests on two facts about the awaits of performConnect():  *)
(* there is at most one attempt (Serialized), and between the awaits there *)
(* is no port (NoPortWhileOpening).                                        *)
(***************************************************************************)
EXTENDS NativeHostConnection, TLAPS

Serialized == attempts["profile"] + attempts["wantRunning"] <= 1

NoPortWhileOpening == attempts["wantRunning"] > 0 => port = Null

\* A port that the worker holds has a helper: its end is always heard.
PortIsOpen == port # Null => port \in open

Inv ==
    /\ TypeOK
    /\ Serialized
    /\ NoPortWhileOpening
    /\ PortIsOpen
    /\ OneHelper
    /\ HealthyHasPort
    /\ NeverStranded

\* A worker that has just asked for its first connection satisfies Inv.
LEMMA InitInv == Init => Inv
  <1>. SUFFICES ASSUME Init PROVE Inv
    OBVIOUS
  <1>1. /\ attempts \in [Stages -> Nat]
        /\ attempts["profile"] = 1 /\ attempts["wantRunning"] = 0
    BY DEF Init, Stages
  <1>. RECONNECT_BASE_MS \in RECONNECT_BASE_MS .. RECONNECT_MAX_MS
    BY DelayAssumption
  <1>2. TypeOK
    BY <1>1 DEF Init, TypeOK
  <1>3. NeverStranded
    BY <1>1 DEF NeverStranded, Connecting, Stages
  <1>. QED
    BY <1>1, <1>2, <1>3
    DEF Init, Inv, Serialized, NoPortWhileOpening, PortIsOpen, OneHelper,
        HealthyHasPort

\* The delay that backoffAndReconnect() sets next stays within its limits.
LEMMA BackoffInRange ==
    ASSUME reconnectDelay \in RECONNECT_BASE_MS .. RECONNECT_MAX_MS,
           BackoffAndReconnect
    PROVE  /\ reconnectDelay' \in RECONNECT_BASE_MS .. RECONNECT_MAX_MS
           /\ timer' = TRUE
  BY DelayAssumption, SMT DEF BackoffAndReconnect

\* connect() never starts a second attempt, and leaves one running.
LEMMA StartOrJoinSerialized ==
    ASSUME TypeOK, Serialized, StartOrJoin
    PROVE  /\ attempts' \in [Stages -> Nat]
           /\ Serialized'
           /\ Connecting'
           /\ attempts'["wantRunning"] = attempts["wantRunning"]
           /\ intentionalDisconnect' \in BOOLEAN
  <1>1. CASE Connecting
    BY <1>1 DEF StartOrJoin, Connecting, TypeOK, Serialized
  <1>2. CASE ~Connecting
    <2>1. attempts["wantRunning"] = 0 /\ attempts["profile"] = 0
      BY <1>2 DEF Connecting, TypeOK, Stages
    <2>2. attempts' = [attempts EXCEPT !["profile"] = 1]
      BY <1>2 DEF StartOrJoin
    <2>3. attempts'["profile"] = 1 /\ attempts'["wantRunning"] = 0
      BY <2>1, <2>2 DEF TypeOK, Stages
    <2>4. attempts' \in [Stages -> Nat] /\ Connecting'
      BY <2>2, <2>3 DEF TypeOK, Connecting, Stages
    <2>5. Serialized'
      BY <2>3 DEF Serialized
    <2>6. intentionalDisconnect' = FALSE
      BY <1>2 DEF StartOrJoin
    <2>. QED
      BY <2>1, <2>3, <2>4, <2>5, <2>6
  <1>. QED  BY <1>1, <1>2

\* Every step keeps Inv.
LEMMA NextInv == Inv /\ [Next]_vars => Inv'
  <1>. SUFFICES ASSUME Inv, [Next]_vars PROVE Inv'
    OBVIOUS
  <1>. USE DEF Inv
  <1>1. CASE RequestConnect
    <2>1. timer' \in BOOLEAN
      BY <1>1 DEF RequestConnect
    <2>. QED
      BY <1>1, <2>1, StartOrJoinSerialized
      DEF RequestConnect, TypeOK, NoPortWhileOpening, PortIsOpen, OneHelper,
          HealthyHasPort, NeverStranded
  <1>2. CASE TimerFires
    BY <1>2, StartOrJoinSerialized
    DEF TimerFires, TypeOK, NoPortWhileOpening, PortIsOpen, OneHelper,
        HealthyHasPort, NeverStranded
  <1>3. CASE ProfileRead
    <2>1. attempts'["wantRunning"] = 1 /\ attempts'["profile"] = 0
      BY <1>3 DEF ProfileRead, Advance, TypeOK, Serialized, Stages
    <2>2. attempts' \in [Stages -> Nat]
      BY <1>3 DEF ProfileRead, Advance, TypeOK, Stages
    <2>3. TypeOK'
      BY <1>3, <2>2 DEF ProfileRead, ClosePort, TypeOK
    <2>4. OneHelper' /\ PortIsOpen' /\ NoPortWhileOpening' /\ HealthyHasPort'
      BY <1>3 DEF ProfileRead, ClosePort, OneHelper, PortIsOpen,
                  NoPortWhileOpening, HealthyHasPort
    <2>. QED
      BY <2>1, <2>3, <2>4 DEF Serialized, NeverStranded, Connecting, Stages
  <1>4. CASE ProfileReadFailed
    <2>1. attempts'["wantRunning"] = 0 /\ attempts'["profile"] = 0
      BY <1>4 DEF ProfileReadFailed, Advance, TypeOK, Serialized, Stages
    <2>2. attempts' \in [Stages -> Nat]
      BY <1>4 DEF ProfileReadFailed, Advance, TypeOK, Stages
    <2>3. /\ reconnectDelay' \in RECONNECT_BASE_MS .. RECONNECT_MAX_MS
          /\ timer' = TRUE /\ hostConnected' = FALSE
      BY <1>4, BackoffInRange DEF ProfileReadFailed, HandleStartFailure, TypeOK
    <2>4. TypeOK'
      BY <1>4, <2>2, <2>3 DEF ProfileReadFailed, TypeOK
    <2>5. Serialized' /\ NoPortWhileOpening'
      BY <2>1 DEF Serialized, NoPortWhileOpening
    <2>6. PortIsOpen' /\ OneHelper' /\ HealthyHasPort'
      BY <1>4 DEF ProfileReadFailed, PortIsOpen, OneHelper, HealthyHasPort
    <2>7. NeverStranded'
      BY <2>3 DEF NeverStranded
    <2>. QED
      BY <2>4, <2>5, <2>6, <2>7
  <1>5. CASE PortOpened
    <2>1. attempts'["wantRunning"] = 0 /\ attempts'["profile"] = 0
      BY <1>5 DEF PortOpened, Advance, TypeOK, Serialized, Stages
    <2>2. attempts' \in [Stages -> Nat]
      BY <1>5 DEF PortOpened, Advance, TypeOK, Stages
    <2>3. port = Null /\ open = {} /\ ~hasReceivedValidMessage
      BY <1>5, PortsAssumption
      DEF PortOpened, NoPortWhileOpening, OneHelper, HealthyHasPort, TypeOK
    <2>4. PICK p \in Ports \ (open \cup lingering) :
              port' = p /\ open' = open \cup {p}
      BY <1>5 DEF PortOpened
    <2>. QED
      BY <1>5, <2>1, <2>2, <2>3, <2>4, PortsAssumption
      DEF PortOpened, TypeOK, Serialized, OneHelper, PortIsOpen,
          NoPortWhileOpening, HealthyHasPort, NeverStranded
  <1>6. CASE OpenFailed
    <2>1. attempts'["wantRunning"] = 0 /\ attempts'["profile"] = 0
      BY <1>6 DEF OpenFailed, Advance, TypeOK, Serialized, Stages
    <2>2. attempts' \in [Stages -> Nat]
      BY <1>6 DEF OpenFailed, Advance, TypeOK, Stages
    <2>3. port = Null /\ port' = Null /\ lingering' \subseteq Ports
      BY <1>6 DEF OpenFailed, NoPortWhileOpening, TypeOK
    <2>4. /\ reconnectDelay' \in RECONNECT_BASE_MS .. RECONNECT_MAX_MS
          /\ timer' = TRUE /\ hostConnected' = FALSE
      BY <1>6, BackoffInRange DEF OpenFailed, HandleStartFailure, TypeOK
    <2>5. TypeOK'
      BY <1>6, <2>2, <2>4, <2>3 DEF OpenFailed, TypeOK
    <2>6. Serialized' /\ NoPortWhileOpening'
      BY <2>1 DEF Serialized, NoPortWhileOpening
    <2>7. PortIsOpen' /\ OneHelper' /\ HealthyHasPort'
      BY <1>6, <2>3 DEF OpenFailed, PortIsOpen, OneHelper, HealthyHasPort
    <2>8. NeverStranded'
      BY <2>4 DEF NeverStranded
    <2>. QED
      BY <2>5, <2>6, <2>7, <2>8
  <1>7. CASE Disconnect
    BY <1>7
    DEF Disconnect, ClosePort, TypeOK, Serialized, OneHelper, PortIsOpen,
        NoPortWhileOpening, HealthyHasPort, NeverStranded
  <1>8. ASSUME NEW p \in Ports, HandleMessage(p) PROVE Inv'
    <2>1. CASE p # port
      BY <1>8, <2>1
      DEF HandleMessage, TypeOK, Serialized, OneHelper, PortIsOpen,
          NoPortWhileOpening, HealthyHasPort, NeverStranded, Connecting
    <2>2. CASE p = port
      <3>1. port \in open
        BY <2>2, PortsAssumption DEF PortIsOpen
      <3>2. TypeOK'
        BY <1>8, <2>2, DelayAssumption DEF HandleMessage, TypeOK
      <3>3. NeverStranded'
        BY <1>8, <2>2 DEF HandleMessage, NeverStranded, Connecting, TypeOK
      <3>. QED
        BY <1>8, <2>2, <3>1, <3>2, <3>3
        DEF HandleMessage, Serialized, OneHelper, PortIsOpen,
            NoPortWhileOpening, HealthyHasPort
    <2>. QED  BY <2>1, <2>2
  <1>9. ASSUME NEW p \in Ports, HandleDisconnect(p) PROVE Inv'
    <2>1. CASE p # port
      BY <1>9, <2>1
      DEF HandleDisconnect, TypeOK, Serialized, OneHelper, PortIsOpen,
          NoPortWhileOpening, HealthyHasPort, NeverStranded, Connecting
    <2>2. CASE p = port
      BY <1>9, <2>2, BackoffInRange
      DEF HandleDisconnect, TypeOK, Serialized, OneHelper, PortIsOpen,
          NoPortWhileOpening, HealthyHasPort, NeverStranded, Connecting
    <2>. QED  BY <2>1, <2>2
  <1>10. ASSUME NEW p \in Ports, Forgotten(p) PROVE Inv'
    BY <1>10
    DEF Forgotten, TypeOK, Serialized, OneHelper, PortIsOpen,
        NoPortWhileOpening, HealthyHasPort, NeverStranded, Connecting
  <1>11. CASE UNCHANGED vars
    BY <1>11
    DEF vars, TypeOK, Serialized, OneHelper, PortIsOpen, NoPortWhileOpening,
        HealthyHasPort, NeverStranded, Connecting
  <1>. QED
    BY <1>1, <1>2, <1>3, <1>4, <1>5, <1>6, <1>7, <1>8, <1>9, <1>10, <1>11
    DEF Next, Progress, Trouble

\* Inv holds in every reachable state.
LEMMA Invariance == Spec => []Inv
  BY InitInv, NextInv, PTL DEF Spec

\* The fields of NativeHostConnection keep their types; in particular the
\* delay of backoffAndReconnect() never leaves its limits.
THEOREM TypeCorrect == Spec => []TypeOK
  BY Invariance, PTL DEF Inv

\* At no time does a helper run other than that of the current port.
THEOREM OneHelperAlways == Spec => []OneHelper
  BY Invariance, PTL DEF Inv

\* Without a disconnect() the worker is never left without a connection, an
\* attempt and a timer at once.
THEOREM NeverStrandedAlways == Spec => []NeverStranded
  BY Invariance, PTL DEF Inv

\* Only a message of the current, running helper makes a connection healthy.
THEOREM HealthyHasPortAlways == Spec => []HealthyHasPort
  BY Invariance, PTL DEF Inv
=============================================================================
