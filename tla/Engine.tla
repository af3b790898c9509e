-------------------------------- MODULE Engine --------------------------------
(***************************************************************************)
(* The engine: submission and triage handlers running concurrently over    *)
(* one store and one event bus, and restarts of the process.               *)
(***************************************************************************)
EXTENDS Submissions, Triage

vars == <<subVars, triageVars, incidents, log, faults>>

Init == SubInit /\ TriageInit /\ IncidentsInit

(* The process dies and comes back: every handler is gone wherever it was. *)
(* The memory store is gone too, with the history of events about it;      *)
(* Postgres keeps what was written.                                        *)
InFlight == { p \in Procs : pc[p] # "idle" }

Restart ==
    /\ Fault
    /\ failed' = failed \cup { req[p] : p \in InFlight }
    /\ pc' = [p \in Procs |-> "idle"]
    /\ tpc' = [o \in Operators |-> "idle"]
    /\ IF Backend = "memory"
       THEN /\ components' = {} /\ sboms' = {} /\ iocs' = {}
            /\ incidents' = <<>> /\ log' = <<>>
       ELSE UNCHANGED <<store, incidents, log>>
    /\ UNCHANGED <<requests, req, locals, acked, task, ntriage>>

Next ==
    \/ SubNext /\ UNCHANGED triageVars
    \/ TriageNext /\ UNCHANGED subVars
    \/ Restart

(* net/http runs a handler's goroutine to its end, and every storage call  *)
(* returns, with a result or an error; nobody has to send a request.       *)
Fairness ==
    /\ \A p \in Procs : WF_vars(Handler(p) /\ UNCHANGED triageVars)
    /\ \A o \in Operators : WF_vars(TriageHandler(o) /\ UNCHANGED subVars)

Spec == Init /\ [][Next]_vars
FairSpec == Spec /\ Fairness

-----------------------------------------------------------------------------
Pairs == [ioc : IoCIds, ref : Refs]
Incident ==
    [ioc : IoCIds, ref : Refs, state : IncidentStates, remediations : Seq(Nat), by : Nat]
Requests == SBOMRequests \cup IoCRequests \cup ForwardRequests
TransitionTasks == [inc : Nat, from : IncidentStates, copy : Incident]
RemediationTasks == [inc : Nat, rem : Nat]

OpenedEvents == [type : {"incident.opened"}, inc : Nat, ioc : IoCIds, ref : Refs]
MatchedEvents == [type : {"ioc.matched"}, ioc : IoCIds, refs : SUBSET Refs]
Events ==
    OpenedEvents \cup MatchedEvents
    \cup [type : {"sbom.ingested"}, sbom : Nat]
    \cup [type : {"incident.transitioned"}, inc : Nat, from : IncidentStates, to : IncidentStates]
    \cup [type : {"remediation.added"}, inc : Nat, rem : Nat]

Labels == {"idle", "store", "ingested", "list", "scan", "index", "open", "announce", "matched"}

(* Every stored row is the row of a request that was accepted. *)
RowsOK ==
    /\ requests \in Seq(Requests)
    /\ components \subseteq Refs
    /\ \A s \in sboms : /\ s.id \in DOMAIN requests /\ requests[s.id].op = "sbom"
                        /\ s = SBOMOf(s.id) /\ s.ref \in components
    /\ \A i \in iocs : /\ i.by \in DOMAIN requests /\ requests[i.by].op \in {"ioc", "forward"}
                       /\ i = IoCOf(i.by)
    /\ acked \subseteq DOMAIN requests /\ failed \subseteq DOMAIN requests

HandlersOK ==
    /\ pc \in [Procs -> Labels]
    /\ req \in [Procs -> Nat]
    /\ \A p \in InFlight : req[p] \in DOMAIN requests
    /\ \A p \in InFlight : Job(p).op = "sbom" => Job(p).ref \in components
    /\ \A p \in Procs : pc[p] = "ingested" => Job(p).op = "sbom"
    /\ \A p \in Procs : pc[p] = "scan" => Job(p).op = "forward"
    /\ toScan \in [Procs -> SUBSET Refs]
    /\ todo \in [Procs -> SUBSET Pairs]
    /\ open \in [Procs -> SUBSET Pairs]
    /\ note \in [Procs -> OpenedEvents \cup {NoNote}]
    /\ \A p \in Procs : pc[p] = "announce" => note[p] \in OpenedEvents
    /\ outbox \in [Procs -> SUBSET MatchedEvents]

OperatorsOK ==
    /\ tpc \in [Operators -> {"idle", "write", "publish", "append", "added"}]
    /\ task \in [Operators -> {NoTask} \cup TransitionTasks \cup RemediationTasks]
    /\ \A o \in Operators :
         /\ tpc[o] # "idle" => task[o].inc \in DOMAIN incidents
         /\ tpc[o] \in {"write", "publish"} => task[o] \in TransitionTasks
         /\ tpc[o] \in {"append", "added"} => task[o] \in RemediationTasks
    /\ ntriage \in Nat

(* Shapes: every row in a table is the row of a request that was accepted, *)
(* and every handler's local state is about requests, pairs and incidents  *)
(* that exist.                                                             *)
TypeOK ==
    /\ RowsOK /\ HandlersOK /\ OperatorsOK
    /\ incidents \in Seq(Incident)
    /\ log \in Seq(Events)
    /\ faults \in Nat

-----------------------------------------------------------------------------
(* The promise of the two-directional matching: once an SBOM and an IoC    *)
(* that match are both stored and both of their submissions have been      *)
(* answered with success, the pair has an incident, whichever came first   *)
(* and however the two handlers interleaved.                               *)
AckedMatchesOpened ==
    \A s \in sboms, i \in iocs :
      (s.id \in acked /\ i.by \in acked /\ EcosystemGiven(i.body) /\ Evaluate(i.body, s))
        => HasIncident(i.id, s.ref)

(* No incident without a match: the component of an incident has a stored  *)
(* SBOM that a submitted IoC with the incident's IoC id accepts.           *)
IncidentsJustified ==
    \A n \in DOMAIN incidents :
      \E s \in sboms, r \in DOMAIN requests :
        /\ s.ref = incidents[n].ref
        /\ requests[r].op # "sbom" /\ requests[r].id = incidents[n].ioc
        /\ Evaluate(requests[r].body, s)

(* A submission answered with success has announced every incident it      *)
(* opened: incident.opened follows the write unless the handler dies.      *)
Announced(n) == \E k \in DOMAIN log : log[k].type = "incident.opened" /\ log[k].inc = n

AckedIncidentsAnnounced ==
    \A n \in DOMAIN incidents : incidents[n].by \in acked => Announced(n)

(* incident.opened is published at most once per incident, after the row   *)
(* is stored, and names the IoC and component the row holds.               *)
OpenedEventsFaithful ==
    \A k \in { j \in DOMAIN log : log[j].type = "incident.opened" } :
      /\ log[k].inc \in DOMAIN incidents
      /\ matchPair(log[k].ioc, log[k].ref)
           = matchPair(incidents[log[k].inc].ioc, incidents[log[k].inc].ref)
      /\ \A j \in DOMAIN log :
           log[j].type = "incident.opened" /\ log[j].inc = log[k].inc => j = k

(* ioc.matched comes last: every component it names has an incident by then. *)
MatchedEventsHaveIncidents ==
    \A k \in { j \in DOMAIN log : log[j].type = "ioc.matched" } :
      \A ref \in log[k].refs : HasIncident(log[k].ioc, ref)

(* A remediation.added event is about an entry of the incident's audit log. *)
RemediationEventsRecorded ==
    \A k \in { j \in DOMAIN log : log[j].type = "remediation.added" } :
      \E m \in DOMAIN incidents[log[k].inc].remediations :
        incidents[log[k].inc].remediations[m] = log[k].rem

(* What subscribers are told is what the tables say, at every moment: a     *)
(* handler publishes after its write succeeded, and no later write, stale   *)
(* copy or failure takes back what was announced.                           *)
EventsMatchRows ==
    OpenedEventsFaithful /\ MatchedEventsHaveIncidents /\ RemediationEventsRecorded

-----------------------------------------------------------------------------
(* What an incident is about never changes (incident.go:20, "pins the      *)
(* blast radius at open time"), although TransitionIncident writes whole   *)
(* rows back from stale copies.                                            *)
IncidentIdentityFrozen ==
    [][\A n \in DOMAIN incidents \cap DOMAIN incidents' :
         /\ incidents'[n].ioc = incidents[n].ioc
         /\ incidents'[n].ref = incidents[n].ref
         /\ incidents'[n].by = incidents[n].by]_vars

(* The audit log of an incident only grows (storage.go:64, "append-only"). *)
RemediationsAppendOnly ==
    [][\A n \in DOMAIN incidents \cap DOMAIN incidents' :
         LET old == incidents[n].remediations
             new == incidents'[n].remediations
         IN  Len(old) <= Len(new) /\ \A k \in DOMAIN old : new[k] = old[k]]_vars

(* No two non-terminal incidents are about the same IoC and component      *)
(* (handlers_ioc.go:16, "Idempotent by (IoC ID, ComponentRef)").           *)
OneOpenPerPair ==
    \A m, n \in DOMAIN incidents :
      ( /\ isNonTerminal(incidents[m].state) /\ isNonTerminal(incidents[n].state)
        /\ incidents[m].ioc = incidents[n].ioc /\ incidents[m].ref = incidents[n].ref )
      => m = n

(* closed and dismissed are terminal (ARCHITECTURE.md:55): an incident     *)
(* that has reached one of them stays there.                               *)
TerminalStatesFinal ==
    [][\A n \in DOMAIN incidents \cap DOMAIN incidents' :
         ~isNonTerminal(incidents[n].state) => incidents'[n].state = incidents[n].state]_vars

(* The events about transitions of incident n, as positions in the log. *)
TransitionsOf(n) ==
    { k \in DOMAIN log : log[k].type = "incident.transitioned" /\ log[k].inc = n }

(* After its events up to position k, subscribers believe incident n to be *)
(* in this state.                                                          *)
Believed(n, k, state) ==
    LET before == { j \in TransitionsOf(n) : j <= k }
    IN  \/ before = {} /\ state = "pending"
        \/ \E j \in before : log[j].to = state /\ \A i \in before : i <= j

(* What incident.transitioned events say happened is what happened: those  *)
(* about one incident form a path of the state machine from pending.       *)
TransitionEventsCompose ==
    \A n \in DOMAIN incidents : \A k \in TransitionsOf(n) :
      Believed(n, k - 1, log[k].from) /\ CanTransitionTo(log[k].from, log[k].to)

(* Every submission the engine accepts is answered, or dies with a restart. *)
SubmissionsEnd ==
    \A r \in 1..MaxRequests : r \in DOMAIN requests ~> r \in acked \cup failed
=============================================================================
