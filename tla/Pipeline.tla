------------------------------ MODULE Pipeline ------------------------------
(***************************************************************************)
(* The publisher pipeline: the refresh scheduler with its ingestors        *)
(* (engine/publisher) and the anomaly orchestrator (engine/anomaly), two   *)
(* goroutines that share the publisher_history table.  Both tick on start  *)
(* and then once per interval, one hour each by default.  Time is the hour *)
(* a snapshot was saved in: a tick starts when the hour does, and is over  *)
(* before the next one.  The registries behind the ingestors are external. *)
(***************************************************************************)
EXTENDS Detectors

CONSTANTS
    Tracked,        \* package refs with a publisher_history
    Registry,       \* the registry a ref's prefix names: "npm", "github" or "other"
    Broken,         \* refs whose registry never answers with a document
    Documents,      \* what a registry can say of a package
    Start,          \* the snapshots in the table when the engine starts
    BatchSize,      \* packages per scheduler tick
    DetectBatch,    \* packages per orchestrator tick
    HistoryDepth,   \* snapshots a detector sees
    MaxRetries,     \* retries of one request
    MaxReleases,    \* bound on changes at the registries
    MaxFaults       \* bound on failed statements and passing registry errors

(* npm: a latest dist-tag dates the package, and dist.signatures on that    *)
(* version stand for a trusted publisher.                                   *)
NpmSnapshot(d) ==
    [emails |-> d.emails, version |-> d.version, age |-> d.age,
     method |-> CASE ~d.tagged -> "unknown" [] d.signed -> "oidc" [] OTHER -> "token"]

(* GitHub: the latest release, whose author has a login and no address. *)
GithubSnapshot(d) ==
    [emails |-> {}, version |-> d.version, age |-> d.age, method |-> "unknown"]

Snapshot(r, d) == IF Registry[r] = "npm" THEN NpmSnapshot(d) ELSE GithubSnapshot(d)

(* dispatch finds an ingestor and the registry is there. *)
dispatch(r) == Registry[r] \in {"npm", "github"}

Reachable(r) == dispatch(r) /\ r \notin Broken

SnapshotsOf(r) == { Snapshot(r, d) : d \in Documents }
Snapshots == UNION { SnapshotsOf(r) : r \in Tracked }

ASSUME PipelineAssumption ==
    /\ IsFiniteSet(Tracked) /\ Broken \subseteq Tracked
    /\ Registry \in [Tracked -> {"npm", "github", "other"}]
    /\ Start \in [Tracked -> Seq(Snapshots)]
    /\ \A r \in Tracked : Start[r] \in Seq(SnapshotsOf(r)) /\ Len(Start[r]) <= HistoryDepth
    /\ {BatchSize, DetectBatch, HistoryDepth} \subseteq Nat \ {0}
    /\ {MaxRetries, MaxReleases, MaxFaults} \subseteq Nat
    /\ Cardinality({ r \in Tracked : ~Reachable(r) }) < BatchSize
    /\ Cardinality(Tracked) <= DetectBatch

VARIABLES
    upstream,       \* what the registry says of each package
    releases,
    hist,           \* each package's snapshots, newest first, HistoryDepth of them
    order,          \* packages with snapshots, the one refreshed longest ago first
    age,            \* when a package was last saved: "now", "last" hour or "old"
    sched,          \* the scheduler: its place, batch, attempt and fetched snapshot
    sTicked,
    orch,           \* the orchestrator: its place, batch and anomalies to raise
    oTicked,
    examined,       \* packages whose newest snapshot the orchestrator has read
    alerted,        \* kinds raised and submitted for the newest snapshot
    spoiled,        \* packages the orchestrator failed on since their newest snapshot
    faults

schedVars == <<hist, order, age, sched, sTicked>>
orchVars == <<orch, oTicked>>
vars == <<upstream, releases, schedVars, orchVars, examined, alerted, spoiled, faults>>

SchedIdle == [pc |-> "idle", todo |-> <<>>, attempt |-> 0, snap |-> <<>>]
OrchIdle == [pc |-> "idle", todo |-> <<>>, found |-> <<>>]

(* The kinds of anomaly a history shows. *)
Raised(h) == { a.kind : a \in Range(Detect(h)) }

(* What is in the table when the engine starts counts as handled. *)
Init ==
    /\ upstream \in [Tracked -> Documents]
    /\ \A r \in Tracked : Start[r] # <<>> => Snapshot(r, upstream[r]) = Start[r][1]
    /\ releases = 0
    /\ hist = Start
    /\ LET seen == { r \in Tracked : Start[r] # <<>> }
       IN  order \in Bijection(1 .. Cardinality(seen), seen)
    /\ age = [r \in Tracked |-> "old"]
    /\ sched = SchedIdle /\ sTicked = FALSE
    /\ orch = OrchIdle /\ oTicked = FALSE
    /\ examined = Tracked
    /\ alerted = [r \in Tracked |-> Raised(Start[r])]
    /\ spoiled = {}
    /\ faults = 0

Fault == faults < MaxFaults /\ faults' = faults + 1

(* A statement of the orchestrator fails while it works on packages S. *)
Spoil(S) == Fault /\ spoiled' = spoiled \cup S

Batch(q, n) == SubSeq(q, 1, IF n < Len(q) THEN n ELSE Len(q))

-----------------------------------------------------------------------------
(* Mutant: the cutoff is the time of the tick, not an interval before it. *)
StaleNow(r) == age[r] # "now"

(* Saved before the previous tick began, so before now - refreshInterval. *)
Stale(r) == age[r] = "old"

NextPackage == [SchedIdle EXCEPT !.pc = IF Len(sched.todo) > 1 THEN "fetch" ELSE "idle",
                                 !.todo = Tail(sched.todo)]

(* Mutant: the tick returns where it should go on with the next package. *)
SkipRestOfBatch == sched' = SchedIdle

SkipPackage == sched' = NextPackage

(* ListPackagesNeedingRefresh: the stale packages come first in the order. *)
SchedulerTick ==
    /\ sched.pc = "idle" /\ ~sTicked
    /\ sTicked' = TRUE
    /\ \/ \E n \in 0 .. Len(order) :
            /\ \A i \in 1 .. Len(order) : i <= n <=> Stale(order[i])
            /\ LET refs == Batch(SubSeq(order, 1, n), BatchSize)
               IN  sched' = [SchedIdle EXCEPT !.pc = IF refs = <<>> THEN "idle" ELSE "fetch",
                                              !.todo = refs]
            /\ UNCHANGED faults
       \/ Fault /\ UNCHANGED sched
    /\ UNCHANGED <<upstream, releases, hist, order, age, orchVars, examined, alerted, spoiled>>

(* 200 with a document that decodes. *)
Ingest ==
    /\ sched.pc = "fetch" /\ Reachable(Head(sched.todo))
    /\ sched' = LET r == Head(sched.todo)
                IN  [sched EXCEPT !.pc = "save", !.snap = Snapshot(r, upstream[r])]
    /\ UNCHANGED <<upstream, releases, hist, order, age, sTicked, orchVars, examined, alerted,
                   spoiled, faults>>

RequestFails == IF Reachable(Head(sched.todo)) THEN Fault ELSE UNCHANGED faults

(* Mutant: one retry too many. *)
MayRetryOnceMore == sched.attempt <= MaxRetries

MayRetry == sched.attempt < MaxRetries

(* A transport error, a 5xx or a 429: wait and try again, up to MaxRetries. *)
Get ==
    /\ sched.pc = "fetch" /\ dispatch(Head(sched.todo)) /\ RequestFails
    /\ IF MayRetry THEN sched' = [sched EXCEPT !.attempt = @ + 1]
       ELSE SkipPackage
    /\ UNCHANGED <<upstream, releases, hist, order, age, sTicked, orchVars, examined, alerted,
                   spoiled>>

(* A 404, another 4xx, a body that does not decode, no ingestor for the     *)
(* prefix: the package is skipped until a later tick.                       *)
GiveUp ==
    /\ sched.pc = "fetch" /\ RequestFails
    /\ SkipPackage
    /\ UNCHANGED <<upstream, releases, hist, order, age, sTicked, orchVars, examined, alerted,
                   spoiled>>

(* A package saved now is the last of the order. *)
MoveToEnd(q, r) ==
    LET i == CHOOSE j \in 1 .. Len(q) : q[j] = r
    IN  [j \in 1 .. Len(q) |-> IF j < i THEN q[j] ELSE IF j < Len(q) THEN q[j + 1] ELSE r]

SavePublisherSnapshot ==
    /\ sched.pc = "save"
    /\ \/ LET r == Head(sched.todo)
          IN  /\ hist' = [hist EXCEPT ![r] = Batch(<<sched.snap>> \o @, HistoryDepth)]
              /\ order' = MoveToEnd(order, r)
              /\ age' = [age EXCEPT ![r] = "now"]
              /\ examined' = examined \ {r}
              /\ alerted' = [alerted EXCEPT ![r] = {}]
              /\ spoiled' = spoiled \ {r}
              /\ UNCHANGED faults
       \/ Fault /\ UNCHANGED <<hist, order, age, examined, alerted, spoiled>>
    /\ SkipPackage
    /\ UNCHANGED <<upstream, releases, sTicked, orchVars>>

-----------------------------------------------------------------------------
NextRef == [OrchIdle EXCEPT !.pc = IF Len(orch.todo) > 1 THEN "read" ELSE "idle",
                            !.todo = Tail(orch.todo)]

OrchestratorTick ==
    /\ orch.pc = "idle" /\ ~oTicked
    /\ oTicked' = TRUE
    /\ \/ LET refs == Batch(order, DetectBatch)
          IN  /\ orch' = [OrchIdle EXCEPT !.pc = IF refs = <<>> THEN "idle" ELSE "read",
                                          !.todo = refs]
              /\ UNCHANGED <<spoiled, faults>>
       \/ Spoil(Tracked) /\ UNCHANGED orch
    /\ UNCHANGED <<upstream, releases, schedVars, examined, alerted>>

GetPublisherHistory ==
    /\ orch.pc = "read"
    /\ \/ LET found == Detect(hist[Head(orch.todo)])
          IN  /\ orch' = IF found = <<>> THEN NextRef
                         ELSE [orch EXCEPT !.pc = "save", !.found = found]
              /\ examined' = examined \cup {Head(orch.todo)}
              /\ UNCHANGED <<spoiled, faults>>
       \/ Spoil({Head(orch.todo)}) /\ orch' = NextRef /\ UNCHANGED examined
    /\ UNCHANGED <<upstream, releases, schedVars, oTicked, alerted>>

NextAnomaly ==
    IF Len(orch.found) > 1 THEN [orch EXCEPT !.pc = "save", !.found = Tail(@)] ELSE NextRef

SaveAnomaly ==
    /\ orch.pc = "save"
    /\ \/ orch' = [orch EXCEPT !.pc = "emit"] /\ UNCHANGED <<spoiled, faults>>
       \/ Spoil({Head(orch.todo)}) /\ orch' = NextAnomaly
    /\ UNCHANGED <<upstream, releases, schedVars, oTicked, examined, alerted>>

(* iocforward.Submit, which Submissions models; a failure is only logged.   *)
(* If the package has been saved again since its history was read, this is  *)
(* an alert about an older snapshot.                                        *)
emitIoC ==
    /\ orch.pc = "emit"
    /\ LET r == Head(orch.todo)
       IN  \/ /\ alerted' = IF r \in examined
                            THEN [alerted EXCEPT ![r] = @ \cup {Head(orch.found).kind}]
                            ELSE alerted
              /\ UNCHANGED <<spoiled, faults>>
           \/ Spoil({Head(orch.todo)}) /\ UNCHANGED alerted
    /\ orch' = NextAnomaly
    /\ UNCHANGED <<upstream, releases, schedVars, oTicked, examined>>

-----------------------------------------------------------------------------
(* The next hour: both tickers fire. *)
Hour ==
    /\ sTicked /\ oTicked /\ sched.pc = "idle" /\ orch.pc = "idle"
    /\ sTicked' = FALSE /\ oTicked' = FALSE
    /\ age' = [r \in Tracked |-> IF age[r] = "now" THEN "last" ELSE "old"]
    /\ UNCHANGED <<upstream, releases, hist, order, sched, orch, examined, alerted, spoiled, faults>>

(* A publisher changes a package at its registry. *)
Release(r, d) ==
    /\ releases < MaxReleases /\ Reachable(r) /\ d # upstream[r]
    /\ releases' = releases + 1
    /\ upstream' = [upstream EXCEPT ![r] = d]
    /\ UNCHANGED <<schedVars, orchVars, examined, alerted, spoiled, faults>>

Scheduler == SchedulerTick \/ Ingest \/ Get \/ GiveUp \/ SavePublisherSnapshot

Orchestrator == OrchestratorTick \/ GetPublisherHistory \/ SaveAnomaly \/ emitIoC

Next ==
    \/ Scheduler
    \/ Orchestrator
    \/ Hour
    \/ \E r \in Tracked, d \in Documents : Release(r, d)

(* Goroutines run, requests have a timeout, tickers fire; nothing forces a  *)
(* registry to change.                                                      *)
Fairness == WF_vars(Scheduler) /\ WF_vars(Orchestrator) /\ WF_vars(Hour)

Spec == Init /\ [][Next]_vars /\ Fairness

-----------------------------------------------------------------------------
(* The scheduler works through packages that have snapshots, and the stale  *)
(* ones are the first of the order, as SchedulerTick has it; the anomalies  *)
(* the orchestrator still has to raise are of a package in its batch; a     *)
(* package is alerted for only what its newest snapshot shows.              *)
TypeOK ==
    /\ upstream \in [Tracked -> Documents]
    /\ \A r \in Tracked :
          Range(hist[r]) \subseteq SnapshotsOf(r) /\ Len(hist[r]) <= HistoryDepth
    /\ Range(order) = { r \in Tracked : hist[r] # <<>> }
    /\ \A i, j \in DOMAIN order : i # j => order[i] # order[j]
    /\ \A i, j \in DOMAIN order : i < j /\ Stale(order[j]) => Stale(order[i])
    /\ age \in [Tracked -> {"now", "last", "old"}]
    /\ sched.pc \in {"idle", "fetch", "save"} /\ (sched.pc = "idle" <=> sched.todo = <<>>)
    /\ orch.pc \in {"idle", "read", "save", "emit"} /\ (orch.pc = "idle" <=> orch.todo = <<>>)
    /\ (orch.found # <<>>) <=> orch.pc \in {"save", "emit"}
    /\ Range(sched.todo) \cup Range(orch.todo) \subseteq Range(order)
    /\ sched.attempt \in 0 .. MaxRetries
    /\ examined \cup spoiled \subseteq Tracked
    /\ faults \in 0 .. MaxFaults
    /\ \A r \in Tracked : alerted[r] \subseteq Raised(hist[r])

(* The scheduler never buries a snapshot under a newer one before the       *)
(* orchestrator has looked at it and has submitted everything it shows      *)
(* (maintainerdrift compares only the newest two), unless the orchestrator  *)
(* failed on the package: with equal intervals the cutoff leaves a whole    *)
(* orchestrator tick between two refreshes of a package.                    *)
NothingBuriedUnalerted ==
    [][\A r \in Tracked :
         age[r] # "now" /\ age'[r] = "now" /\ r \notin spoiled =>
             r \in examined /\ Raised(hist[r]) \subseteq alerted[r]]_vars

(* A refresh that brings nothing new raises no kind of anomaly the newest   *)
(* snapshot did not raise already, while the window still holds the whole   *)
(* history: a finding is late for no detector.                              *)
RepeatRaisesNothingNew ==
    \A r \in Tracked :
        Len(hist[r]) \in 2 .. HistoryDepth - 1 =>
            Raised(<<hist[r][1]>> \o hist[r]) \subseteq Raised(hist[r])

(* A package whose registry answers is refreshed again and again, however   *)
(* many hopeless packages stay at the stale end of the list (fewer than a   *)
(* batch of them).                                                          *)
HealthyRefreshed ==
    \A r \in { q \in Tracked : Reachable(q) } : []<>(age[r] = "now")
=============================================================================
