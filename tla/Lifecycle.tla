------------------------------ MODULE Lifecycle ------------------------------
(***************************************************************************)
(* The engine process from main to exit: internal/app (New, Run, the two   *)
(* background workers, Shutdown, Close), the probe of the native sidecar   *)
(* at boot, the one-shot parse-sbom command, and what they share, the      *)
(* connection pool of the Postgres store.  A storage call takes a          *)
(* connection for each statement; ListSBOMsByComponent keeps the one its   *)
(* rows come from while hydrateSBOMPackages takes a second.  The pool      *)
(* (pgxpool) and net/http's Shutdown are external.                         *)
(***************************************************************************)
EXTENDS Integers, FiniteSets

CONSTANTS
    Statements,     \* requests whose storage calls use one connection at a time
    Lists,          \* requests that list a component's SBOMs
    Streams,        \* event streams
    MaxConns        \* DBMaxConns

Workers == {"scheduler", "orchestrator"}

Requests == Statements \cup Lists \cup Streams

(* Those that use the store. *)
Callers == Statements \cup Lists \cup Workers

(* The orchestrator lists SBOMs when it submits an IoC. *)
Listers == Lists \cup {"orchestrator"}

ASSUME LifecycleAssumption ==
    /\ IsFiniteSet(Statements) /\ IsFiniteSet(Lists) /\ IsFiniteSet(Streams)
    /\ Workers \cap Requests = {} /\ Statements \cap Lists = {} /\ Streams \cap Callers = {}
    /\ MaxConns \in Nat
    /\ Cardinality(Listers) < MaxConns

VARIABLES
    phase,          \* where main is
    signalled,      \* SIGINT or SIGTERM: the context of main is cancelled
    late,           \* a wait with a timeout ran out
    serveFailed,    \* Serve returned an error
    alive,          \* worker goroutines that have not returned
    call,           \* where each request and worker is
    panicked

vars == <<phase, signalled, late, serveFailed, alive, call, panicked>>

(* "between" statements; "acquire" and "second" wait for a connection.      *)
Places == {"none", "between", "acquire", "query", "second", "nested", "open"}

Init ==
    /\ phase \in {"storage", "parse"}
    /\ signalled = FALSE /\ late = FALSE /\ serveFailed = FALSE /\ panicked = FALSE
    /\ alive = {}
    /\ call = [a \in Requests \cup Workers |-> "none"]

-----------------------------------------------------------------------------
(* Connections taken from the pool. *)
First == { a \in Callers : call[a] \in {"query", "second", "nested"} }
Second == { a \in Callers : call[a] = "nested" }
InUse == Cardinality(First) + Cardinality(Second)

(* Mutant: the pool hands out one connection too many. *)
FreeOffByOne == InUse <= MaxConns

Free == InUse < MaxConns

(* Mutant: every storage call keeps its rows open while it queries again. *)
NestsAlways(a) == TRUE

Nests(a) == a \in Listers

(* Close has begun, so an acquire fails; it is over, so the pool is nil. *)
Closing == phase = "closing"
Closed == phase = "closed"
Running == phase \in {"serving", "shutdown", "stopOrch", "stopSched", "close", "closing", "closed"}

Move(a, from, to) == Running /\ call[a] = from /\ call' = [call EXCEPT ![a] = to]

others == <<phase, signalled, late, serveFailed, alive, panicked>>

(* The server accepts a request; a worker's ticker fires. *)
Begin(a) ==
    /\ IF a \in Workers THEN a \in alive ELSE phase = "serving"
    /\ Move(a, "none", IF a \in Streams THEN "open" ELSE "between")
    /\ UNCHANGED others

Ask(a) == a \in Callers /\ Move(a, "between", "acquire") /\ UNCHANGED others

(* A connection, or the pool's error once it is closing. *)
Acquire(a) ==
    /\ Free /\ ~Closed
    /\ \/ Move(a, "acquire", IF Closing THEN "between" ELSE "query")
       \/ Move(a, "second", IF Closing THEN "between" ELSE "nested")
    /\ UNCHANGED others

Row(a) == Nests(a) /\ Move(a, "query", "second") /\ UNCHANGED others

Hydrated(a) == Move(a, "nested", "query") /\ UNCHANGED others

Finish(a) == Move(a, "query", "between") /\ UNCHANGED others

(* The handler answers, the tick ends. *)
Return(a) == Move(a, "between", "none") /\ UNCHANGED others

(* The request's client goes away, or the worker's context is cancelled:    *)
(* what it waits for returns an error and its rows are closed.              *)
Cancelled(a) == a \in Workers => signalled \/ phase \notin {"serving", "shutdown"}

Cancel(a) ==
    /\ Running /\ Cancelled(a)
    /\ call[a] \in {"acquire", "query", "second", "nested", "open"}
    /\ call' = [call EXCEPT ![a] = IF @ = "open" THEN "none" ELSE "between"]
    /\ UNCHANGED others

(* A storage call after Close: the pool is nil. net/http recovers a         *)
(* handler's panic; a worker's ends the process.                            *)
NilPool(a) ==
    /\ Closed /\ Move(a, "acquire", "none")
    /\ IF a \in Workers THEN panicked' = TRUE /\ phase' = "exited" ELSE UNCHANGED <<panicked, phase>>
    /\ UNCHANGED <<signalled, late, serveFailed, alive>>

(* The worker's loop sees its context done. *)
Stop(a) ==
    /\ Running /\ a \in alive /\ Cancelled(a) /\ call[a] \in {"none", "between"}
    /\ alive' = alive \ {a}
    /\ call' = [call EXCEPT ![a] = "none"]
    /\ UNCHANGED <<phase, signalled, late, serveFailed, panicked>>

-----------------------------------------------------------------------------
Goto(from, to) == phase = from /\ phase' = to

kept == <<signalled, serveFailed, call, panicked>>

(* Memory, or Postgres migrated and pinged; either may fail. *)
openStorage ==
    /\ Goto("storage", "probe") \/ Goto("storage", "exited")
    /\ UNCHANGED <<kept, late, alive>>

(* The Go strategy is not probed, and a dial nobody answers ends the probe; *)
(* else Ping has written its frame and waits.  The strategy resolved is     *)
(* only logged.                                                             *)
EffectiveStrategy ==
    /\ Goto("probe", "listen") \/ Goto("probe", "ping")
    /\ UNCHANGED <<kept, late, alive>>

(* The sidecar answers, pong or not. *)
Ping == Goto("ping", "listen") /\ UNCHANGED <<kept, late, alive>>

(* The probe's deadline ends the read. *)
ProbeDeadline == Goto("ping", "listen") /\ UNCHANGED <<kept, late, alive>>

(* The workers start with the listener; if it fails only Close is left. *)
Listen ==
    /\ \/ Goto("listen", "serving") /\ alive' \in SUBSET Workers
       \/ Goto("listen", "close") /\ UNCHANGED alive
    /\ UNCHANGED <<kept, late>>

ServeFails ==
    /\ Goto("serving", "stopOrch") /\ serveFailed' = TRUE
    /\ UNCHANGED <<signalled, late, alive, call, panicked>>

Interrupted ==
    /\ signalled /\ Goto("serving", "shutdown")
    /\ UNCHANGED <<kept, late, alive>>

Idle == \A r \in Requests : call[r] = "none"

Timeout == late' = TRUE

(* Mutant: Shutdown is given a context without a timeout. *)
ShutdownForever ==
    /\ Goto("shutdown", "stopOrch") /\ Idle /\ UNCHANGED <<kept, late, alive>>

(* http.Server.Shutdown: until every request is answered, or ten seconds. *)
Shutdown ==
    /\ Goto("shutdown", "stopOrch")
    /\ IF Idle THEN UNCHANGED late ELSE Timeout
    /\ UNCHANGED <<kept, alive>>

(* Mutant: the stop function cancels and does not wait. *)
StopOrchestratorNow ==
    /\ Goto("stopOrch", "stopSched") /\ UNCHANGED <<kept, late, alive>>

(* The deferred stop functions, last one first: done, or two seconds. *)
stopAnomaly ==
    /\ Goto("stopOrch", "stopSched")
    /\ IF "orchestrator" \in alive THEN Timeout ELSE UNCHANGED late
    /\ UNCHANGED <<kept, alive>>

stopScheduler ==
    /\ Goto("stopSched", "close")
    /\ IF "scheduler" \in alive THEN Timeout ELSE UNCHANGED late
    /\ UNCHANGED <<kept, alive>>

(* Pool.Close waits for every connection; then the pool is nil. *)
Close ==
    /\ \/ Goto("close", "closing")
       \/ InUse = 0 /\ Goto("closing", "closed")
    /\ UNCHANGED <<kept, late, alive>>

Exit == Goto("closed", "exited") /\ UNCHANGED <<kept, late, alive>>

(* rampart parse-sbom: the Go parser, a dial that fails, or a request to    *)
(* the sidecar, which has no deadline.                                      *)
runParseSBOM ==
    /\ Goto("parse", "exited") \/ Goto("parse", "native")
    /\ UNCHANGED <<kept, late, alive>>

ParseNPMLockfile == Goto("native", "exited") /\ UNCHANGED <<kept, late, alive>>

Signal ==
    /\ ~signalled /\ phase # "exited" /\ signalled' = TRUE
    /\ UNCHANGED <<phase, late, serveFailed, alive, call, panicked>>

Main ==
    \/ openStorage \/ EffectiveStrategy \/ ProbeDeadline \/ Listen \/ Interrupted
    \/ Shutdown \/ stopAnomaly \/ stopScheduler \/ Close \/ Exit \/ runParseSBOM

(* The native process answers. *)
Sidecar == Ping \/ ParseNPMLockfile

Step(a) == Ask(a) \/ Row(a) \/ Hydrated(a) \/ Finish(a) \/ Return(a) \/ NilPool(a)

Next ==
    \/ Main \/ Sidecar \/ ServeFails \/ Signal
    \/ \E a \in Requests \cup Workers : Begin(a) \/ Step(a) \/ Acquire(a) \/ Cancel(a)
    \/ \E w \in Workers : Stop(w)

(* main and goroutines that can run do, timers fire, statements return; the *)
(* pool serves waiters in turn and a listing has finitely many rows, hence  *)
(* strong fairness of both.  Nothing forces a signal, the sidecar to        *)
(* answer, a client to go away, or Serve to fail.                           *)
Fairness ==
    /\ WF_vars(Main)
    /\ \A a \in Callers : WF_vars(Step(a)) /\ SF_vars(Acquire(a))
    /\ \A a \in Listers : SF_vars(Finish(a))
    /\ \A w \in Workers : WF_vars(Stop(w))

Spec == Init /\ [][Next]_vars /\ Fairness

-----------------------------------------------------------------------------
(* The pool never gives out more than MaxConns connections; only listings   *)
(* hold two; only requests of an open server and started workers run.       *)
TypeOK ==
    /\ phase \in {"storage", "probe", "ping", "listen", "serving", "shutdown", "stopOrch",
                  "stopSched", "close", "closing", "closed", "exited", "parse", "native"}
    /\ signalled \in BOOLEAN /\ late \in BOOLEAN /\ serveFailed \in BOOLEAN /\ panicked \in BOOLEAN
    /\ alive \subseteq Workers
    /\ call \in [Requests \cup Workers -> Places]
    /\ \A a \in Requests \cup Workers :
          /\ a \in Streams => call[a] \in {"none", "open"}
          /\ a \in Callers => call[a] # "open"
          /\ call[a] \in {"second", "nested"} => Nests(a)
          /\ a \in Workers \ alive => call[a] = "none"
    /\ InUse <= MaxConns

(* The store is closed last: unless a wait timed out or Serve failed, when  *)
(* storage.Close begins every request has been answered and both workers    *)
(* have returned; only then can a worker meet the nil pool.                 *)
CloseIsLast ==
    ~late /\ ~serveFailed =>
        /\ ~panicked
        /\ phase \in {"close", "closing", "closed"} => Idle /\ alive = {}

(* With fewer listings at a time than connections, the pool cannot fill up  *)
(* with listings that all wait for their second connection.                 *)
NoPoolDeadlock ==
    (\E a \in Callers : call[a] \in {"acquire", "second"}) =>
        Free \/ \E a \in Callers : call[a] \in {"query", "nested"}

(* A storage call ends, however the pool is contended. *)
CallsEnd ==
    \A a \in Callers :
        (call[a] \in {"acquire", "query", "second", "nested"}) ~>
            (call[a] \in {"between", "none"} \/ phase = "exited")

(* After a signal, at boot or later, the process exits: past a sidecar that *)
(* never answers the probe, past waiting callers and open event streams.    *)
(* The exception is parse-sbom waiting for its sidecar: nothing interrupts  *)
(* that read.                                                               *)
ExitsAfterSignal ==
    signalled ~> (phase \in {"exited", "native"})
=============================================================================
