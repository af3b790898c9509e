--------------------------- MODULE LifecycleProofs ---------------------------
(***************************************************************************)
(* For every number of requests and every pool larger than the number of   *)
(* concurrent listings: the pool is never overdrawn and never stuck, and   *)
(* the store is closed last.                                               *)
(***************************************************************************)
EXTENDS Lifecycle, FiniteSetTheorems, TLAPS

(* A leaf that names no prover may take its time with either. *)
USE SMTT(20), ZenonT(30)

Actors == Requests \cup Workers

BootPhases == {"storage", "probe", "ping", "listen", "parse", "native"}
Phases == BootPhases \cup {"serving", "shutdown", "stopOrch", "stopSched", "close", "closing",
                           "closed", "exited"}

Flags == signalled \in BOOLEAN /\ late \in BOOLEAN /\ serveFailed \in BOOLEAN /\ panicked \in BOOLEAN

(* TypeOK without the pool's bound. *)
CallsOK ==
    /\ phase \in Phases
    /\ alive \subseteq Workers
    /\ call \in [Actors -> Places]
    /\ \A a \in Actors :
          /\ a \in Streams => call[a] \in {"none", "open"}
          /\ a \in Callers => call[a] # "open"
          /\ call[a] \in {"second", "nested"} => Nests(a)
          /\ a \in Workers \ alive => call[a] = "none"

(* Nothing runs before the server does. *)
Early == phase \in BootPhases => alive = {} /\ \A a \in Actors : call[a] = "none"

(* What a shutdown without timeouts has waited for, phase by phase. *)
Ordered ==
    ~late /\ ~serveFailed =>
        /\ ~panicked
        /\ phase \in {"stopOrch", "stopSched", "close", "closing", "closed"} => Idle
        /\ phase \in {"stopSched", "close", "closing", "closed"} => "orchestrator" \notin alive
        /\ phase \in {"close", "closing", "closed"} => "scheduler" \notin alive

Inv == Flags /\ CallsOK /\ Early /\ Ordered

IndInv == Inv /\ InUse <= MaxConns

LEMMA Split == TypeOK <=> Flags /\ CallsOK /\ InUse <= MaxConns
  BY Zenon DEF TypeOK, Flags, CallsOK, Phases, BootPhases, Actors

LEMMA Finite ==
  /\ IsFiniteSet(Callers) /\ IsFiniteSet(Listers)
  /\ Cardinality(Listers) \in Nat /\ Cardinality(Listers) < MaxConns /\ MaxConns \in Nat
  <1>1. IsFiniteSet(Lists) /\ IsFiniteSet(Statements)
    BY LifecycleAssumption, Zenon
  <1>2. IsFiniteSet(Lists \cup {"orchestrator"}) /\ IsFiniteSet({"scheduler"})
    BY <1>1, FS_AddElement, FS_Singleton, Zenon
  <1>3. IsFiniteSet(Statements \cup (Lists \cup {"orchestrator"}))
    BY <1>1, <1>2, FS_Union, Zenon
  <1>4. IsFiniteSet((Statements \cup (Lists \cup {"orchestrator"})) \cup {"scheduler"})
    BY <1>2, <1>3, FS_Union, Zenon
  <1>5. Callers = (Statements \cup (Lists \cup {"orchestrator"})) \cup {"scheduler"}
    BY Zenon DEF Callers, Workers
  <1>6. Cardinality(Listers) \in Nat
    BY <1>2, FS_CardinalityType, Zenon DEF Listers
  <1> QED
    BY <1>2, <1>4, <1>5, <1>6, LifecycleAssumption, Zenon DEF Listers

(* Connections in use are counted by natural numbers. *)
LEMMA Counts ==
  /\ IsFiniteSet(First) /\ IsFiniteSet(Second)
  /\ Cardinality(First) \in Nat /\ Cardinality(Second) \in Nat
  <1>1. First \in SUBSET Callers /\ Second \in SUBSET Callers
    BY Zenon DEF First, Second
  <1>2. IsFiniteSet(First) /\ IsFiniteSet(Second)
    BY <1>1, Finite, FS_Subset, Zenon
  <1> QED
    BY <1>2, FS_CardinalityType, Zenon

LEMMA InitInv == Init => IndInv
  <1> SUFFICES ASSUME Init PROVE Inv /\ InUse <= MaxConns
    BY Zenon DEF IndInv
  <1>1. Flags
    BY Zenon DEF Init, Flags
  <1>2. CallsOK /\ Early /\ Ordered
    BY Zenon DEF Init, CallsOK, Early, Ordered, Phases, BootPhases, Actors, Places, Idle
  <1>3. First = {} /\ Second = {}
    BY Zenon DEF Init, First, Second, Callers, Requests
  <1>4. InUse = 0
    BY <1>3, FS_EmptySet DEF InUse
  <1> QED
    BY <1>1, <1>2, <1>4, Finite DEF Inv

(* The steps of main, of the sidecar and of the environment move no call. *)
LEMMA MainInv == Inv /\ (Main \/ Sidecar \/ ServeFails \/ Signal) => Inv' /\ call' = call
  <1> SUFFICES ASSUME Inv, Main \/ Sidecar \/ ServeFails \/ Signal PROVE Inv' /\ call' = call
    BY Zenon
  <1> USE DEF Inv, Goto, kept
  <1>1. call' = call
    BY Zenon DEF Main, Sidecar, ServeFails, Signal, openStorage, EffectiveStrategy, Ping, ProbeDeadline,
           Listen, Interrupted, Shutdown, stopAnomaly, stopScheduler, Close, Exit, runParseSBOM,
           ParseNPMLockfile
  <1>2. Flags'
    BY Zenon DEF Flags, Main, Sidecar, ServeFails, Signal, openStorage, EffectiveStrategy, Ping,
           ProbeDeadline, Listen, Interrupted, Shutdown, stopAnomaly, stopScheduler, Close, Exit,
           runParseSBOM, ParseNPMLockfile, Timeout
  <1>3. phase' \in Phases /\ alive' \subseteq Workers /\ (phase # "listen" => alive' = alive)
    BY Zenon DEF CallsOK, Phases, BootPhases, Main, Sidecar, ServeFails, Signal, openStorage,
           EffectiveStrategy, Ping, ProbeDeadline, Listen, Interrupted, Shutdown, stopAnomaly,
           stopScheduler, Close, Exit, runParseSBOM, ParseNPMLockfile
  <1>4. CallsOK'
    BY <1>1, <1>3, Zenon DEF CallsOK, Early, BootPhases, Actors, Nests
  <1>5. Early'
    BY <1>1, Zenon DEF Early, BootPhases, Main, Sidecar, ServeFails, Signal, openStorage, EffectiveStrategy,
           Ping, ProbeDeadline, Listen, Interrupted, Shutdown, stopAnomaly, stopScheduler, Close,
           Exit, runParseSBOM, ParseNPMLockfile
  <1>6. Idle' <=> Idle
    BY <1>1, Zenon DEF Idle
  <1>7. Ordered'
    <2>1. CASE openStorage \/ EffectiveStrategy \/ Sidecar \/ ProbeDeadline \/ runParseSBOM \/ Signal
      BY <1>6, <2>1, Zenon DEF Ordered, openStorage, EffectiveStrategy, Sidecar, Ping, ProbeDeadline,
                        runParseSBOM, ParseNPMLockfile, Signal
    <2>2. CASE Listen
      BY <1>6, <2>2, Zenon DEF Ordered, Listen, Early, BootPhases, Idle, Actors
    <2>3. CASE Interrupted \/ ServeFails \/ Close \/ Exit
      BY <1>6, <2>3, Zenon DEF Ordered, Interrupted, ServeFails, Close, Exit
    <2>4. CASE Shutdown \/ stopAnomaly \/ stopScheduler
      BY <1>6, <2>4, Zenon DEF Ordered, Shutdown, stopAnomaly, stopScheduler, Timeout
    <2> QED
      BY <2>1, <2>2, <2>3, <2>4, Zenon DEF Main
  <1> QED
    BY <1>1, <1>2, <1>4, <1>5, <1>7, Zenon

(* A request or worker moves: the place it moves to suits it. *)
LEMMA CallInv ==
  ASSUME NEW a \in Actors, Inv,
         Begin(a) \/ Step(a) \/ Acquire(a) \/ Cancel(a) \/ (a \in Workers /\ Stop(a))
  PROVE  Inv'
  <1> USE DEF Inv, Move
  <1>1. Flags'
    BY Zenon DEF Flags, Begin, Step, Ask, Row, Hydrated, Finish, Return, NilPool, Acquire, Cancel, Stop, others
  <1>2. /\ call' = [call EXCEPT ![a] = call'[a]]
        /\ call'[a] \in Places
        /\ a \in Streams => call'[a] \in {"none", "open"}
        /\ a \in Callers => call'[a] # "open"
        /\ call'[a] \in {"second", "nested"} => Nests(a)
    BY LifecycleAssumption, Zenon DEF CallsOK, Actors, Requests, Callers, Places, Begin, Step, Ask, Row, Hydrated, Finish, Return,
        NilPool, Acquire, Cancel, Stop
  <1>3. phase' \in {phase, "exited"} /\ alive' \subseteq alive /\ Running
    BY Zenon DEF Begin, Step, Ask, Row, Hydrated, Finish, Return, NilPool, Acquire, Cancel, Stop, others
  <1>4. /\ a \in Workers \ alive' => call'[a] = "none"
        /\ \A w \in Workers \ {a} : w \in alive' <=> w \in alive
    BY LifecycleAssumption, Zenon DEF CallsOK, Actors, Requests, Callers, Begin, Step, Ask, Row, Hydrated, Finish, Return, NilPool,
        Acquire, Cancel, Stop, others
  <1>5. CallsOK'
    BY <1>2, <1>3, <1>4, Zenon DEF CallsOK, Phases, Nests
  <1>6. Early'
    BY <1>3, Zenon DEF Early, Running, BootPhases
  <1>7. Ordered'
    <2> SUFFICES ASSUME ~late', ~serveFailed'
                 PROVE /\ ~panicked'
                       /\ phase' \in {"stopOrch", "stopSched", "close", "closing", "closed"} => Idle'
                       /\ phase' \in {"stopSched", "close", "closing", "closed"} => "orchestrator" \notin alive'
                       /\ phase' \in {"close", "closing", "closed"} => "scheduler" \notin alive'
      BY Zenon DEF Ordered
    <2>1. ~late /\ ~serveFailed
      BY DEF Begin, Step, Ask, Row, Hydrated, Finish, Return, NilPool, Acquire, Cancel, Stop, others
    <2>2. ~panicked'
      <3>1. CASE NilPool(a)
        <4>1. phase = "closed" /\ call[a] = "acquire"
          BY <3>1, Zenon DEF NilPool, Closed
        <4>2. a \notin Workers
          BY <2>1, <4>1, Zenon DEF Ordered, CallsOK, Workers
        <4> QED
          BY <2>1, <3>1, <4>2, Zenon DEF NilPool, Ordered
      <3>2. CASE ~NilPool(a)
        BY <2>1, <3>2, Zenon DEF Ordered, Begin, Step, Ask, Row, Hydrated, Finish, Return, Acquire, Cancel,
                          Stop, others
      <3> QED
        BY <3>1, <3>2, Zenon
    <2>3. ASSUME phase' \in {"stopOrch", "stopSched", "close", "closing", "closed"} PROVE Idle'
      <3>1. phase = phase' /\ Idle
        BY <1>3, <2>1, <2>3, Zenon DEF Ordered
      <3>2. CASE a \in Requests
        BY <3>1, <3>2, <2>3, LifecycleAssumption, Zenon DEF Idle, Begin, Step, Ask, Row, Hydrated, Finish, Return, NilPool, Acquire, Cancel
      <3>3. CASE a \notin Requests
        BY <1>2, <3>1, <3>3 DEF Idle, CallsOK, Actors
      <3> QED
        BY <3>2, <3>3, Zenon
    <2> QED
      BY <1>3, <2>1, <2>2, <2>3, Zenon DEF Ordered
  <1> QED
    BY <1>1, <1>5, <1>6, <1>7, Zenon

(* If no connection is taken, the pool is as full as before at most. *)
LEMMA NotTaken ==
  ASSUME First' \subseteq First, Second' \subseteq Second, InUse <= MaxConns
  PROVE  InUse' <= MaxConns
  <1>1. IsFiniteSet(First) /\ IsFiniteSet(Second)
    BY Counts, Zenon
  <1>2. /\ Cardinality(First') <= Cardinality(First) /\ IsFiniteSet(First')
        /\ Cardinality(Second') <= Cardinality(Second) /\ IsFiniteSet(Second')
    BY <1>1, FS_Subset, Zenon
  <1>3. Cardinality(First') \in Nat /\ Cardinality(Second') \in Nat
    BY <1>2, FS_CardinalityType, Zenon
  <1> QED
    BY <1>2, <1>3, Counts, Finite DEF InUse

LEMMA AcquireBound ==
  ASSUME NEW a \in Actors, CallsOK, Acquire(a)
  PROVE  InUse' <= MaxConns
  <1>1. InUse < MaxConns
    BY Zenon DEF Acquire, Free
  <1>2. InUse \in Nat /\ InUse + 1 <= MaxConns
    BY <1>1, Counts, Finite DEF InUse
  <1>3. CASE call[a] = "acquire"
    <2>1. call' = [call EXCEPT ![a] = "query"] \/ call' = [call EXCEPT ![a] = "between"]
      BY <1>3, Zenon DEF Acquire, Move
    <2>2. First' \subseteq First \cup {a} /\ Second' \subseteq Second
      BY <1>3, <2>1, Zenon DEF First, Second, CallsOK, Actors, Callers, Requests
    <2>3. /\ IsFiniteSet(First \cup {a}) /\ Cardinality(First \cup {a}) <= Cardinality(First) + 1
          /\ Cardinality(First \cup {a}) \in Nat
      <3>1. /\ IsFiniteSet(First \cup {a})
            /\ Cardinality(First \cup {a}) =
                 IF a \in First THEN Cardinality(First) ELSE Cardinality(First) + 1
        BY Counts, FS_AddElement, Zenon
      <3> QED
        BY <3>1, Counts
    <2>4. /\ IsFiniteSet(First') /\ Cardinality(First') <= Cardinality(First \cup {a})
          /\ IsFiniteSet(Second') /\ Cardinality(Second') <= Cardinality(Second)
      BY <2>2, <2>3, Counts, FS_Subset, Zenon
    <2>5. Cardinality(First') \in Nat /\ Cardinality(Second') \in Nat
      BY <2>4, FS_CardinalityType, Zenon
    <2> QED
      BY <1>2, <2>3, <2>4, <2>5, Counts, Finite DEF InUse
  <1>4. CASE call[a] = "second"
    <2>1. call' = [call EXCEPT ![a] = "nested"] \/ call' = [call EXCEPT ![a] = "between"]
      BY <1>4, Zenon DEF Acquire, Move
    <2>2. First' \subseteq First /\ Second' \subseteq Second \cup {a}
      BY <1>4, <2>1, Zenon DEF First, Second, CallsOK, Actors, Callers, Requests
    <2>3. /\ IsFiniteSet(Second \cup {a}) /\ Cardinality(Second \cup {a}) <= Cardinality(Second) + 1
          /\ Cardinality(Second \cup {a}) \in Nat
      <3>1. /\ IsFiniteSet(Second \cup {a})
            /\ Cardinality(Second \cup {a}) =
                 IF a \in Second THEN Cardinality(Second) ELSE Cardinality(Second) + 1
        BY Counts, FS_AddElement, Zenon
      <3> QED
        BY <3>1, Counts
    <2>4. /\ IsFiniteSet(Second') /\ Cardinality(Second') <= Cardinality(Second \cup {a})
          /\ IsFiniteSet(First') /\ Cardinality(First') <= Cardinality(First)
      BY <2>2, <2>3, Counts, FS_Subset, Zenon
    <2>5. Cardinality(First') \in Nat /\ Cardinality(Second') \in Nat
      BY <2>4, FS_CardinalityType, Zenon
    <2> QED
      BY <1>2, <2>3, <2>4, <2>5, Counts, Finite DEF InUse
  <1> QED
    BY <1>3, <1>4, Zenon DEF Acquire, Move

LEMMA NextInv == IndInv /\ [Next]_vars => IndInv'
  <1> SUFFICES ASSUME Inv, InUse <= MaxConns, [Next]_vars PROVE Inv' /\ InUse' <= MaxConns
    BY Zenon DEF IndInv
  <1>1. CASE Main \/ Sidecar \/ ServeFails \/ Signal
    <2>1. Inv' /\ call' = call
      BY <1>1, MainInv, Zenon
    <2>2. First' = First /\ Second' = Second
      BY <2>1, Zenon DEF First, Second
    <2> QED
      BY <2>1, <2>2, NotTaken, Zenon
  <1>2. ASSUME NEW a \in Actors, Begin(a) \/ Step(a) \/ Acquire(a) \/ Cancel(a)
        PROVE  Inv' /\ InUse' <= MaxConns
    <2>1. Inv'
      BY <1>2, CallInv, Zenon
    <2>2. CASE Acquire(a)
      BY <2>1, <2>2, AcquireBound, Zenon DEF Inv
    <2>3. CASE ~Acquire(a)
      <3>1. First' \subseteq First /\ Second' \subseteq Second
        BY <1>2, <2>3, Zenon DEF Inv, CallsOK, First, Second, Actors, Requests, Callers, Move, Begin, Step, Ask, Row,
            Hydrated, Finish, Return, NilPool, Cancel
      <3> QED
        BY <2>1, <3>1, NotTaken, Zenon
    <2> QED
      BY <2>2, <2>3, Zenon
  <1>3. ASSUME NEW w \in Workers, Stop(w) PROVE Inv' /\ InUse' <= MaxConns
    <2>1. w \in Actors
      BY Zenon DEF Actors
    <2>2. Inv'
      BY <1>3, <2>1, CallInv, Zenon
    <2>3. First' \subseteq First /\ Second' \subseteq Second
      BY <1>3, Zenon DEF Inv, CallsOK, First, Second, Actors, Requests, Callers, Stop
    <2> QED
      BY <2>2, <2>3, NotTaken, Zenon
  <1>4. CASE UNCHANGED vars
    <2>1. Inv'
      BY <1>4, Zenon DEF vars, Inv, Flags, CallsOK, Early, Ordered, Idle, Nests
    <2>2. First' = First /\ Second' = Second
      BY <1>4, Zenon DEF vars, First, Second
    <2> QED
      BY <2>1, <2>2, NotTaken, Zenon
  <1> QED
    BY <1>1, <1>2, <1>3, <1>4, Zenon DEF Next, Actors

(* The pool never hands out more than MaxConns connections, and only        *)
(* listings of SBOMs hold two.                                              *)
THEOREM LifecycleTypeOK == Spec => []TypeOK
  <1>1. IndInv => TypeOK
    BY Split, Zenon DEF IndInv, Inv
  <1> QED
    BY <1>1, InitInv, NextInv, PTL DEF Spec

(* Unless a wait timed out or Serve failed, storage.Close finds every       *)
(* request answered and both workers gone.                                  *)
THEOREM StoreClosedLast == Spec => []CloseIsLast
  <1>1. IndInv => CloseIsLast
    BY Zenon DEF IndInv, Inv, Ordered, CloseIsLast, CallsOK, Workers
  <1> QED
    BY <1>1, InitInv, NextInv, PTL DEF Spec

(* A caller that waits for a connection can wait only for callers that hold *)
(* one and wait for none: listings that wait for their second are fewer     *)
(* than the pool's connections.                                             *)
THEOREM PoolNeverStuck == Spec => []NoPoolDeadlock
  <1>1. IndInv => NoPoolDeadlock
    <2> SUFFICES ASSUME Inv, \A a \in Callers : call[a] \notin {"query", "nested"} PROVE Free
      BY Zenon DEF NoPoolDeadlock, IndInv
    <2>1. Second = {} /\ First \in SUBSET Listers
      BY Zenon DEF Second, First, Inv, CallsOK, Nests, Actors, Callers, Requests
    <2>2. Cardinality(Second) = 0 /\ Cardinality(First) <= Cardinality(Listers)
      BY <2>1, Finite, FS_EmptySet, FS_Subset, Zenon
    <2> QED
      BY <2>2, Counts, Finite DEF Free, InUse
  <1> QED
    BY <1>1, InitInv, NextInv, PTL DEF Spec
=============================================================================
