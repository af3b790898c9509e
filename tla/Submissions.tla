----------------------------- MODULE Submissions -----------------------------
(***************************************************************************)
(* The three handlers that store an SBOM or an IoC, match it against what  *)
(* is stored, and open incidents: SubmitSBOM and SubmitIoC (engine/        *)
(* internal/api) and iocforward.Submit, which the anomaly orchestrator     *)
(* calls.  Handlers run concurrently, share no lock, and touch the store   *)
(* and the bus one call at a time; pc names the next call.                 *)
(*                                                                         *)
(*    store  ->  [ingested ->]  list  -> [scan ->]  index  ->  open <-> announce *)
(*           ->  matched  ->  idle                                         *)
(***************************************************************************)
EXTENDS Incidents, Matcher

CONSTANTS
    Procs,          \* goroutines that can be serving a submission
    Refs,           \* component references
    Lockfiles,      \* what the lockfile parser returns: [eco, pkgs]
    IoCIds,
    ApiBodies,      \* IoCs POST /v1/iocs can carry: [kind, eco, ...]
    AnomalyBodies,  \* IoCs the orchestrator submits: kind "anomalyBody"
    MaxRequests     \* bound on the number of submissions

ASSUME SubmissionAssumptions ==
    /\ \A l \in Lockfiles : ParsedSBOM(l)
    /\ MaxRequests \in Nat

VARIABLES
    components,     \* registered component references
    sboms,          \* stored SBOMs, [id, ref, eco, pkgs]; id is the request that stored it
    iocs,           \* stored IoCs, [id, body, by]; by is the request that wrote it last
    requests,       \* the submissions accepted so far, a history
    pc,             \* per goroutine: the next call of its handler
    req,            \* the request it serves, an index into requests
    toScan,         \* iocforward.forwardMatch: components not yet looked at
    todo,           \* matched pairs openIncidentsForMatches has still to process
    open,           \* its index of pairs that already have an open incident
    note,           \* the incident.opened event it is about to publish
    outbox,         \* ioc.matched events to publish at the end
    acked, failed   \* requests answered 2xx, and those that ended in an error

store == <<components, sboms, iocs>>
locals == <<toScan, todo, open, note, outbox>>
outcomes == <<acked, failed, faults>>
subVars == <<store, requests, pc, req, locals, acked, failed>>

SBOMRequests == [op : {"sbom"}, ref : Refs, lock : Lockfiles]
IoCRequests == [op : {"ioc"}, id : IoCIds, body : ApiBodies]
ForwardRequests == [op : {"forward"}, id : IoCIds, body : AnomalyBodies]

Opened(n, pair) == [type |-> "incident.opened", inc |-> n, ioc |-> pair.ioc, ref |-> pair.ref]
NoNote == Opened(0, matchPair("", ""))
IoCMatched(id, refs) == [type |-> "ioc.matched", ioc |-> id, refs |-> refs]

SubInit ==
    /\ components = {}
    /\ sboms = {}
    /\ iocs = {}
    /\ requests = <<>>
    /\ pc = [p \in Procs |-> "idle"]
    /\ req = [p \in Procs |-> 0]
    /\ toScan = [p \in Procs |-> {}]
    /\ todo = [p \in Procs |-> {}]
    /\ open = [p \in Procs |-> {}]
    /\ note = [p \in Procs |-> NoNote]
    /\ outbox = [p \in Procs |-> {}]
    /\ acked = {}
    /\ failed = {}

Job(p) == requests[req[p]]

Goto(p, label) == pc' = [pc EXCEPT ![p] = label]

(* Mutant: the error is logged and the request answered with success. *)
Fail_Swallowed(p) ==
    /\ Goto(p, "idle")
    /\ Fault
    /\ acked' = acked \cup {req[p]}
    /\ UNCHANGED failed

(* The handler answers with an error: whatever it has not done stays undone. *)
Fail(p) ==
    /\ Goto(p, "idle")
    /\ Fault
    /\ failed' = failed \cup {req[p]}
    /\ UNCHANGED acked

(* After a storage write that reports success or an error. *)
Proceed(p, ok, label) ==
    \/ ok /\ Goto(p, label) /\ UNCHANGED outcomes
    \/ ~ok /\ Fail(p)

-----------------------------------------------------------------------------
(* UpsertComponent: the existence check only picks 200 or 201. *)
UpsertComponent(ref) ==
    /\ components' = components \cup {ref}
    /\ UNCHANGED <<sboms, iocs, requests, pc, req, locals, outcomes, incidents, log>>

Accept(p, r) ==
    /\ pc[p] = "idle"
    /\ Len(requests) < MaxRequests
    /\ requests' = Append(requests, r)
    /\ req' = [req EXCEPT ![p] = Len(requests) + 1]
    /\ Goto(p, "store")
    /\ toScan' = [toScan EXCEPT ![p] = {}]
    /\ todo' = [todo EXCEPT ![p] = {}]
    /\ open' = [open EXCEPT ![p] = {}]
    /\ outbox' = [outbox EXCEPT ![p] = {}]
    /\ UNCHANGED <<store, note, outcomes, incidents, log>>

(* A request the handler turns away (unknown component, unreadable lockfile, *)
(* invalid IoC) changes nothing and is not a step.                           *)
SubmitSBOM(p, ref, l) ==
    /\ ref \in components
    /\ Accept(p, [op |-> "sbom", ref |-> ref, lock |-> l])

SubmitIoC(p, id, b) == Accept(p, [op |-> "ioc", id |-> id, body |-> b])

ForwardSubmit(p, id, b) == Accept(p, [op |-> "forward", id |-> id, body |-> b])

(* The rows request number r stores. *)
SBOMOf(r) ==
    [id |-> r, ref |-> requests[r].ref, eco |-> requests[r].lock.eco, pkgs |-> requests[r].lock.pkgs]
IoCOf(r) == [id |-> requests[r].id, body |-> requests[r].body, by |-> r]

UpsertSBOM(p, ok) ==
    /\ pc[p] = "store" /\ Job(p).op = "sbom"
    /\ \E written \in WriteOutcomes(ok) :
         sboms' = IF written THEN sboms \cup {SBOMOf(req[p])} ELSE sboms
    /\ Proceed(p, ok, "ingested")
    /\ UNCHANGED <<components, iocs, req, locals, requests, incidents, log>>

PublishIngested(p) ==
    /\ pc[p] = "ingested"
    /\ Publish([type |-> "sbom.ingested", sbom |-> req[p]])
    /\ Goto(p, "list")
    /\ UNCHANGED <<store, req, locals, requests, outcomes, incidents>>

Replace(rows, row) == { r \in rows : r.id # row.id } \cup {row}

UpsertIoC(p, ok) ==
    /\ pc[p] = "store" /\ Job(p).op \in {"ioc", "forward"}
    /\ \E written \in WriteOutcomes(ok) :
         iocs' = IF written THEN Replace(iocs, IoCOf(req[p])) ELSE iocs
    /\ Proceed(p, ok, "list")
    /\ UNCHANGED <<components, sboms, req, locals, requests, incidents, log>>

-----------------------------------------------------------------------------
(* Mutant: ioc.matched is published before the incidents are opened. *)
StartOpening_MatchedFirst(p, pairs, events) ==
    /\ todo' = [todo EXCEPT ![p] = pairs]
    /\ outbox' = [outbox EXCEPT ![p] = events]
    /\ Goto(p, "matched")

(* Matching.  An empty match list skips openIncidentsForMatches. *)
StartOpening(p, pairs, events) ==
    /\ todo' = [todo EXCEPT ![p] = pairs]
    /\ outbox' = [outbox EXCEPT ![p] = events]
    /\ Goto(p, IF pairs = {} THEN "matched" ELSE "index")

(* retroactiveMatch: ListIoCs, then the predicate on each; one ioc.matched per IoC. *)
ListIoCs(p) ==
    /\ pc[p] = "list" /\ Job(p).op = "sbom"
    /\ LET hits == retroactiveMatch(iocs, SBOMOf(req[p]))
       IN  StartOpening(p, { matchPair(i, Job(p).ref) : i \in hits },
                           { IoCMatched(i, {Job(p).ref}) : i \in hits })
    /\ UNCHANGED <<store, req, toScan, open, note, requests, outcomes, incidents, log>>

(* The outbox of a new IoC: one event with all the components, if there are any. *)
MatchedOnce(id, refs) == IF refs = {} THEN {} ELSE { IoCMatched(id, refs) }

(* api forwardMatch: one bulk lookup. *)
LookupPackages(p) ==
    /\ pc[p] = "list" /\ Job(p).op = "ioc"
    /\ LET hits == forwardMatch(Backend, Job(p).body, sboms)
       IN  StartOpening(p, { matchPair(Job(p).id, r) : r \in hits }, MatchedOnce(Job(p).id, hits))
    /\ UNCHANGED <<store, req, toScan, open, note, requests, outcomes, incidents, log>>

(* iocforward.forwardMatch: ListComponents, then one query per component. *)
ListComponents(p) ==
    /\ pc[p] = "list" /\ Job(p).op = "forward"
    /\ toScan' = [toScan EXCEPT ![p] = components]
    /\ Goto(p, "scan")
    /\ UNCHANGED <<store, req, todo, open, note, outbox, requests, outcomes, incidents, log>>

ListSBOMsByComponent(p, c) ==
    /\ pc[p] = "scan" /\ c \in toScan[p]
    /\ toScan' = [toScan EXCEPT ![p] = @ \ {c}]
    /\ todo' = [todo EXCEPT ![p] = @ \cup
                  { matchPair(Job(p).id, s.ref) :
                      s \in { t \in sboms : t.ref = c /\ Evaluate(Job(p).body, t) } }]
    /\ UNCHANGED <<store, pc, req, open, note, outbox, requests, outcomes, incidents, log>>

FinishScan(p) ==
    /\ pc[p] = "scan" /\ toScan[p] = {}
    /\ StartOpening(p, todo[p], MatchedOnce(Job(p).id, { pair.ref : pair \in todo[p] }))
    /\ UNCHANGED <<store, req, toScan, open, note, requests, outcomes, incidents, log>>

-----------------------------------------------------------------------------
(* openIncidentsForMatches *)
ListIncidents(p) ==
    /\ pc[p] = "index"
    /\ open' = [open EXCEPT ![p] = OpenPairs]
    /\ Goto(p, "open")
    /\ UNCHANGED <<store, req, toScan, todo, note, outbox, requests, outcomes, incidents, log>>

(* Mutant: one open incident of the IoC, about any component, is enough to skip. *)
SkipPair_AnyComponent(p, pair) ==
    /\ pc[p] = "open" /\ pair \in todo[p] /\ \E other \in open[p] : other.ioc = pair.ioc
    /\ todo' = [todo EXCEPT ![p] = @ \ {pair}]
    /\ UNCHANGED <<store, pc, req, toScan, open, note, outbox, requests, outcomes, incidents, log>>

(* Mutant: a skipped pair stays on the list. *)
SkipPair_Stuck(p, pair) ==
    /\ pc[p] = "open" /\ pair \in todo[p] \cap open[p]
    /\ UNCHANGED <<store, pc, req, locals, requests, outcomes, incidents, log>>

SkipPair(p, pair) ==
    /\ pc[p] = "open" /\ pair \in todo[p] \cap open[p]
    /\ todo' = [todo EXCEPT ![p] = @ \ {pair}]
    /\ UNCHANGED <<store, pc, req, toScan, open, note, outbox, requests, outcomes, incidents, log>>

(* Mutant: incident.opened is not published. *)
OpenIncident_Silent(p, pair, ok) ==
    /\ pc[p] = "open" /\ pair \in todo[p] \ open[p]
    /\ \E written \in WriteOutcomes(ok) :
         incidents' = IF written
                      THEN Append(incidents, NewIncident(pair.ioc, pair.ref, req[p]))
                      ELSE incidents
    /\ Proceed(p, ok, "open")
    /\ todo' = [todo EXCEPT ![p] = @ \ {pair}]
    /\ open' = [open EXCEPT ![p] = @ \cup {pair}]
    /\ UNCHANGED <<store, req, toScan, note, outbox, requests, log>>

(* Mutant: the event carries the id of the incident before. *)
OpenIncident_WrongId(p, pair, ok) ==
    /\ pc[p] = "open" /\ pair \in todo[p] \ open[p]
    /\ \E written \in WriteOutcomes(ok) :
         incidents' = IF written
                      THEN Append(incidents, NewIncident(pair.ioc, pair.ref, req[p]))
                      ELSE incidents
    /\ Proceed(p, ok, "announce")
    /\ todo' = [todo EXCEPT ![p] = @ \ {pair}]
    /\ open' = [open EXCEPT ![p] = @ \cup {pair}]
    /\ note' = [note EXCEPT ![p] = Opened(Len(incidents), pair)]
    /\ UNCHANGED <<store, req, toScan, outbox, requests, log>>

OpenIncident(p, pair, ok) ==
    /\ pc[p] = "open" /\ pair \in todo[p] \ open[p]
    /\ \E written \in WriteOutcomes(ok) :
         incidents' = IF written
                      THEN Append(incidents, NewIncident(pair.ioc, pair.ref, req[p]))
                      ELSE incidents
    /\ Proceed(p, ok, "announce")
    /\ todo' = [todo EXCEPT ![p] = @ \ {pair}]
    /\ open' = [open EXCEPT ![p] = @ \cup {pair}]
    /\ note' = [note EXCEPT ![p] = Opened(Len(incidents'), pair)]
    /\ UNCHANGED <<store, req, toScan, outbox, requests, log>>

PublishOpened(p) ==
    /\ pc[p] = "announce"
    /\ Publish(note[p])
    /\ Goto(p, "open")
    /\ UNCHANGED <<store, req, locals, requests, outcomes, incidents>>

FinishOpening(p) ==
    /\ pc[p] = "open" /\ todo[p] = {}
    /\ Goto(p, "matched")
    /\ UNCHANGED <<store, req, locals, requests, outcomes, incidents, log>>

-----------------------------------------------------------------------------
PublishMatched(p, e) ==
    /\ pc[p] = "matched" /\ e \in outbox[p]
    /\ Publish(e)
    /\ outbox' = [outbox EXCEPT ![p] = @ \ {e}]
    /\ UNCHANGED <<store, pc, req, toScan, todo, open, note, requests, outcomes, incidents>>

Respond(p) ==
    /\ pc[p] = "matched" /\ outbox[p] = {}
    /\ acked' = acked \cup {req[p]}
    /\ Goto(p, "idle")
    /\ UNCHANGED <<store, req, locals, requests, failed, faults, incidents, log>>

(* A read that fails, or whose request was cancelled. *)
ReadError(p) ==
    /\ \/ pc[p] = "list" /\ (Job(p).op = "ioc" => HasLookupKey(Job(p).body))
       \/ pc[p] = "index"
       \/ pc[p] = "scan" /\ toScan[p] # {}
    /\ Fail(p)
    /\ UNCHANGED <<store, req, locals, requests, incidents, log>>

-----------------------------------------------------------------------------
Handler(p) ==
    \/ \E ok \in BOOLEAN : UpsertSBOM(p, ok) \/ UpsertIoC(p, ok)
    \/ PublishIngested(p)
    \/ ListIoCs(p) \/ LookupPackages(p) \/ ListComponents(p)
    \/ \E c \in toScan[p] : ListSBOMsByComponent(p, c)
    \/ FinishScan(p) \/ ListIncidents(p)
    \/ \E pair \in todo[p] : SkipPair(p, pair) \/ \E ok \in BOOLEAN : OpenIncident(p, pair, ok)
    \/ PublishOpened(p) \/ FinishOpening(p)
    \/ \E e \in outbox[p] : PublishMatched(p, e)
    \/ Respond(p) \/ ReadError(p)

Request(p) ==
    \/ \E ref \in Refs, l \in Lockfiles : SubmitSBOM(p, ref, l)
    \/ \E id \in IoCIds : \/ \E b \in ApiBodies : SubmitIoC(p, id, b)
                          \/ \E b \in AnomalyBodies : ForwardSubmit(p, id, b)

SubNext ==
    \/ \E ref \in Refs : UpsertComponent(ref)
    \/ \E p \in Procs : Request(p) \/ Handler(p)
=============================================================================
