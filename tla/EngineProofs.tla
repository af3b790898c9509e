---------------------------- MODULE EngineProofs -----------------------------
(***************************************************************************)
(* What holds of Engine for any number of goroutines, components, IoCs,    *)
(* requests and faults, in three parts.                                    *)
(*                                                                         *)
(* First, for both backends: the state stays well formed, no match is      *)
(* missed and incidents keep their identity.  The inductive invariant IInv *)
(* is about what an unfinished submission still owes.  A handler's step is *)
(* reduced to what it may do to the shared state (LocalStep), and that is  *)
(* enough to keep IInv.                                                    *)
(*                                                                         *)
(* Then, what the incidents and the events say is true: every incident has *)
(* a match behind it, incident.opened and ioc.matched are about rows that  *)
(* exist, and an acknowledged submission has announced what it opened.     *)
(*                                                                         *)
(* Last, incidents under triage.  With Postgres the audit log is           *)
(* append-only and remediation.added tells the truth, however handlers     *)
(* overlap.  Terminal states, one open incident per pair and transition    *)
(* events that form a path hold when the handlers concerned do not         *)
(* overlap.                                                                *)
(***************************************************************************)
EXTENDS Engine, TLAPS

(* A leaf that names no prover may take its time with either. *)
USE SMTT(20), ZenonT(30)

-----------------------------------------------------------------------------
(* Every step keeps the state well formed. *)

(* A row or an event that is appended comes last and moves nothing. *)
ComesLast(x, q, r) ==
    /\ Len(q) \in Nat /\ DOMAIN q = 1..Len(q) /\ Len(q) + 1 \notin DOMAIN q
    /\ Len(r) = Len(q) + 1 /\ Len(q) + 1 \in DOMAIN r /\ r[Len(q) + 1] = x
    /\ \A k \in DOMAIN q : k \in DOMAIN r /\ r[k] = q[k]
    /\ \A k \in DOMAIN r : k \in DOMAIN q \/ k = Len(q) + 1

LEMMA AppendComesLast ==
    ASSUME NEW S, NEW q \in Seq(S), NEW x
    PROVE  ComesLast(x, q, Append(q, x))
  BY DEF ComesLast

LEMMA NothingYet == DOMAIN <<>> = {}
  OBVIOUS

(* The fields a request has, by its operation. *)
LEMMA RequestFields ==
    ASSUME NEW r \in Requests
    PROVE  /\ r.op \in {"sbom", "ioc", "forward"}
           /\ r.op = "sbom" => r.ref \in Refs /\ r.lock \in Lockfiles
           /\ r.op # "sbom" => r.id \in IoCIds
  BY Zenon DEF Requests, SBOMRequests, IoCRequests, ForwardRequests

LEMMA JobIsRequest == ASSUME TypeOK, NEW p \in InFlight PROVE Job(p) \in Requests
<1>1. requests \in Seq(Requests) /\ req[p] \in DOMAIN requests
  BY Zenon DEF TypeOK, RowsOK, HandlersOK
<1> QED
  BY <1>1 DEF Job

(* Whatever the IoC, the lookup only names components that have an SBOM. *)
LEMMA ForwardMatchRefs ==
    ASSUME NEW backend, NEW ioc, NEW stored
    PROVE  \A r \in forwardMatch(backend, ioc, stored) : \E s \in stored : r = s.ref
<1> DEFINE key == iocLookupKey(ioc)
           rows == ListSBOMPackages(backend, stored, key)
<1>1. SUFFICES ASSUME NEW r \in matchPackagesAgainstIoC(ioc, key.eco, rows)
               PROVE  \E s \in stored : r = s.ref
  BY Zenon DEF forwardMatch
<1>2. PICK row \in rows : r = row.ref
  BY <1>1, Zenon DEF matchPackagesAgainstIoC
<1>3. PICK s \in stored : \E p \in s.pkgs : row = [ref |-> s.ref, pkg |-> p]
  BY <1>2, Zenon DEF ListSBOMPackages
<1> QED
  BY <1>2, <1>3

(* An accepted request does not disturb what is known of the earlier ones. *)
LEMMA AcceptKeepsRequests ==
    ASSUME TypeOK, NEW p \in Procs, NEW r \in Requests, Accept(p, r)
    PROVE  /\ requests' \in Seq(Requests)
           /\ Len(requests') = Len(requests) + 1
           /\ DOMAIN requests \subseteq DOMAIN requests'
           /\ Len(requests) + 1 \in DOMAIN requests' \ DOMAIN requests
           /\ requests'[Len(requests) + 1] = r
           /\ \A k \in DOMAIN requests : requests'[k] = requests[k]
  BY DEF TypeOK, RowsOK, Accept

LEMMA AcceptType ==
    ASSUME TypeOK, NEW p \in Procs, NEW r \in Requests, Accept(p, r), UNCHANGED triageVars,
           r.op = "sbom" => r.ref \in components
    PROVE  TypeOK'
<1>1. RowsOK'
  <2>1. /\ requests' \in Seq(Requests)
        /\ components' \subseteq Refs
        /\ acked' \subseteq DOMAIN requests' /\ failed' \subseteq DOMAIN requests'
    BY AcceptKeepsRequests, Zenon DEF TypeOK, RowsOK, Accept, store, outcomes
  <2>2. \A s \in sboms' : /\ s.id \in DOMAIN requests' /\ requests'[s.id].op = "sbom"
                        /\ s = SBOMOf(s.id)' /\ s.ref \in components'
    BY AcceptKeepsRequests DEF TypeOK, RowsOK, Accept, store, SBOMOf
  <2>3. \A i \in iocs' : /\ i.by \in DOMAIN requests' /\ requests'[i.by].op \in {"ioc", "forward"}
                       /\ i = IoCOf(i.by)'
    BY AcceptKeepsRequests DEF TypeOK, RowsOK, Accept, store, IoCOf
  <2> QED
    BY <2>1, <2>2, <2>3, Zenon DEF RowsOK
<1>2. HandlersOK'
  <2>1. /\ pc' \in [Procs -> Labels] /\ pc'[p] = "store" /\ \A q \in Procs \ {p} : pc'[q] = pc[q]
        /\ req' \in [Procs -> Nat] /\ req'[p] = Len(requests) + 1
        /\ \A q \in Procs \ {p} : req'[q] = req[q]
    BY AcceptKeepsRequests DEF TypeOK, RowsOK, HandlersOK, Accept, Goto, Labels
  <2>2. UNCHANGED <<components, note>>
    BY Zenon DEF Accept, store
  <2>3. /\ toScan' \in [Procs -> SUBSET Refs] /\ todo' \in [Procs -> SUBSET Pairs]
        /\ open' \in [Procs -> SUBSET Pairs] /\ outbox' \in [Procs -> SUBSET MatchedEvents]
    BY Zenon DEF TypeOK, HandlersOK, Accept
  <2>4. req'[p] \in DOMAIN requests' /\ Job(p)' = r
    BY <2>1, AcceptKeepsRequests, Zenon DEF Job
  <2>5. \A q \in InFlight \ {p} : req'[q] \in DOMAIN requests' /\ Job(q)' = Job(q)
    BY <2>1, AcceptKeepsRequests, Zenon DEF TypeOK, HandlersOK, InFlight, Job
  <2>6. InFlight' = InFlight \cup {p}
    BY <2>1, Zenon DEF InFlight, Accept
  <2>7. /\ \A q \in InFlight' : req'[q] \in DOMAIN requests'
        /\ \A q \in InFlight' : Job(q)'.op = "sbom" => Job(q)'.ref \in components'
    BY <2>2, <2>4, <2>5, <2>6, Zenon DEF TypeOK, HandlersOK
  <2>8. /\ \A q \in Procs : pc'[q] = "ingested" => Job(q)'.op = "sbom"
        /\ \A q \in Procs : pc'[q] = "scan" => Job(q)'.op = "forward"
    BY <2>1, <2>5, ZenonT(30) DEF TypeOK, HandlersOK, InFlight
  <2>9. /\ note' \in [Procs -> OpenedEvents \cup {NoNote}]
        /\ \A q \in Procs : pc'[q] = "announce" => note'[q] \in OpenedEvents
    BY <2>1, <2>2, Zenon DEF TypeOK, HandlersOK
  <2> QED
    BY <2>1, <2>3, <2>7, <2>8, <2>9, Zenon DEF HandlersOK
<1>3. OperatorsOK' /\ incidents' \in Seq(Incident) /\ log' \in Seq(Events) /\ faults' \in Nat
  BY Zenon DEF TypeOK, OperatorsOK, Accept, outcomes, triageVars
<1> QED
  BY <1>1, <1>2, <1>3, Zenon DEF TypeOK

(* A failing or succeeding write moves the handler on and records the outcome. *)
LEMMA ProceedType ==
    ASSUME TypeOK, NEW p \in InFlight, NEW ok \in BOOLEAN, NEW label \in Labels,
           Proceed(p, ok, label)
    PROVE  /\ pc' \in [Procs -> Labels]
           /\ \A q \in Procs : pc'[q] = pc[q] \/ (q = p /\ pc'[q] \in {label, "idle"})
           /\ acked' \subseteq DOMAIN requests /\ failed' \subseteq DOMAIN requests
           /\ faults' \in Nat
<1>1. CASE Goto(p, label) /\ UNCHANGED outcomes
  BY <1>1, Zenon DEF TypeOK, RowsOK, HandlersOK, InFlight, Goto, outcomes
<1>2. CASE Fail(p)
  <2>1. req[p] \in DOMAIN requests
    BY Zenon DEF TypeOK, HandlersOK
  <2> QED
    BY <1>2, <2>1 DEF TypeOK, RowsOK, HandlersOK, InFlight, Goto, Fail, Fault, Labels
<1> QED
  BY <1>1, <1>2, Zenon DEF Proceed

(* The store's rows stay well formed as long as no request and no row changes. *)
LEMMA RowsKept ==
    ASSUME TypeOK, UNCHANGED <<requests, components, sboms, iocs>>,
           acked' \subseteq DOMAIN requests, failed' \subseteq DOMAIN requests
    PROVE  RowsOK'
  BY Zenon DEF TypeOK, RowsOK, SBOMOf, IoCOf

(* What a step of one handler has to show about the handlers. *)
LEMMA HandlersKept ==
    ASSUME TypeOK, NEW p \in InFlight, UNCHANGED <<requests, req, components>>,
           pc' \in [Procs -> Labels], \A q \in Procs : q # p => pc'[q] = pc[q] /\ note'[q] = note[q],
           pc'[p] = "ingested" => Job(p).op = "sbom",
           pc'[p] = "scan" => Job(p).op = "forward",
           toScan' \in [Procs -> SUBSET Refs], todo' \in [Procs -> SUBSET Pairs],
           open' \in [Procs -> SUBSET Pairs], outbox' \in [Procs -> SUBSET MatchedEvents],
           note' \in [Procs -> OpenedEvents \cup {NoNote}],
           pc'[p] = "announce" => note'[p] \in OpenedEvents
    PROVE  HandlersOK'
  BY ZenonT(20) DEF TypeOK, HandlersOK, InFlight, Job

(* The same for a step that leaves the handler's local state alone. *)
LEMMA LocalsKept ==
    ASSUME TypeOK, NEW p \in InFlight, UNCHANGED <<requests, req, components, locals>>,
           pc' \in [Procs -> Labels], \A q \in Procs : q # p => pc'[q] = pc[q],
           pc'[p] = "ingested" => Job(p).op = "sbom",
           pc'[p] = "scan" => Job(p).op = "forward",
           pc'[p] # "announce"
    PROVE  HandlersOK'
  BY Zenon DEF TypeOK, HandlersOK, InFlight, Job, locals

(* Nothing an operator's handler holds depends on a submission, except that *)
(* its incident stays in the table.                                         *)
LEMMA OperatorsKept ==
    ASSUME TypeOK, UNCHANGED triageVars, DOMAIN incidents \subseteq DOMAIN incidents'
    PROVE  OperatorsOK'
  BY Zenon DEF TypeOK, OperatorsOK, triageVars

LEMMA UpsertSBOMType ==
    ASSUME TypeOK, NEW p \in Procs, NEW ok \in BOOLEAN, UpsertSBOM(p, ok), UNCHANGED triageVars
    PROVE  TypeOK'
<1>1. p \in InFlight /\ "ingested" \in Labels /\ Proceed(p, ok, "ingested")
  BY Zenon DEF UpsertSBOM, InFlight, Labels
<1>2. RowsOK'
  <2>1. /\ requests' \in Seq(Requests)
        /\ components' \subseteq Refs
        /\ acked' \subseteq DOMAIN requests' /\ failed' \subseteq DOMAIN requests'
    BY <1>1, ProceedType, Zenon DEF TypeOK, RowsOK, UpsertSBOM
  <2>2. ASSUME NEW s \in sboms'
        PROVE  /\ s.id \in DOMAIN requests' /\ requests'[s.id].op = "sbom"
               /\ s = SBOMOf(s.id)' /\ s.ref \in components'
    BY <1>1 DEF TypeOK, RowsOK, HandlersOK, UpsertSBOM, SBOMOf, Job
  <2>3. \A i \in iocs' : /\ i.by \in DOMAIN requests' /\ requests'[i.by].op \in {"ioc", "forward"}
                         /\ i = IoCOf(i.by)'
    BY Zenon DEF TypeOK, RowsOK, UpsertSBOM, IoCOf
  <2> QED
    BY <2>1, <2>2, <2>3, Zenon DEF RowsOK
<1>3. HandlersOK'
  <2>1. /\ pc' \in [Procs -> Labels]
        /\ \A q \in Procs : q # p => pc'[q] = pc[q]
        /\ pc'[p] \in {pc[p], "ingested", "idle"}
    BY <1>1, ProceedType DEF InFlight
  <2>2. UNCHANGED <<requests, req, components, locals>> /\ pc[p] = "store"
    BY Zenon DEF UpsertSBOM
  <2> QED
    BY <1>1, <2>1, <2>2, LocalsKept, Zenon DEF UpsertSBOM
<1> QED
  BY <1>1, <1>2, <1>3, ProceedType, OperatorsKept, Zenon DEF TypeOK, UpsertSBOM

LEMMA UpsertIoCType ==
    ASSUME TypeOK, NEW p \in Procs, NEW ok \in BOOLEAN, UpsertIoC(p, ok), UNCHANGED triageVars
    PROVE  TypeOK'
<1>1. p \in InFlight /\ "list" \in Labels /\ Proceed(p, ok, "list")
  BY Zenon DEF UpsertIoC, InFlight, Labels
<1>2. RowsOK'
  <2>1. /\ requests' \in Seq(Requests)
        /\ components' \subseteq Refs
        /\ acked' \subseteq DOMAIN requests' /\ failed' \subseteq DOMAIN requests'
    BY <1>1, ProceedType, Zenon DEF TypeOK, RowsOK, UpsertIoC
  <2>2. \A s \in sboms' : /\ s.id \in DOMAIN requests' /\ requests'[s.id].op = "sbom"
                          /\ s = SBOMOf(s.id)' /\ s.ref \in components'
    BY Zenon DEF TypeOK, RowsOK, UpsertIoC, SBOMOf
  <2>3. ASSUME NEW i \in iocs'
        PROVE  /\ i.by \in DOMAIN requests' /\ requests'[i.by].op \in {"ioc", "forward"}
               /\ i = IoCOf(i.by)'
    BY <1>1 DEF TypeOK, RowsOK, HandlersOK, UpsertIoC, Replace, IoCOf, Job
  <2> QED
    BY <2>1, <2>2, <2>3, Zenon DEF RowsOK
<1>3. HandlersOK'
  <2>1. /\ pc' \in [Procs -> Labels]
        /\ \A q \in Procs : q # p => pc'[q] = pc[q]
        /\ pc'[p] \in {pc[p], "list", "idle"}
    BY <1>1, ProceedType DEF InFlight
  <2>2. UNCHANGED <<requests, req, components, locals>> /\ pc[p] = "store"
    BY Zenon DEF UpsertIoC
  <2> QED
    BY <1>1, <2>1, <2>2, LocalsKept, Zenon DEF UpsertIoC
<1> QED
  BY <1>1, <1>2, <1>3, ProceedType, OperatorsKept, Zenon DEF TypeOK, UpsertIoC

(* The pairs and events the three matching paths hand to openIncidentsForMatches. *)
LEMMA StartOpeningType ==
    ASSUME TypeOK, NEW p \in InFlight, NEW pairs \in SUBSET Pairs, NEW events \in SUBSET MatchedEvents,
           StartOpening(p, pairs, events), UNCHANGED triageVars,
           UNCHANGED <<store, req, toScan, open, note, requests, outcomes, incidents, log>>
    PROVE  TypeOK'
<1>1. RowsOK'
  BY RowsKept, Zenon DEF TypeOK, RowsOK, store, outcomes
<1>2. HandlersOK'
  <2>1. /\ pc' \in [Procs -> Labels]
        /\ \A q \in Procs : q # p => pc'[q] = pc[q]
        /\ pc'[p] \in {"matched", "index"}
    BY Zenon DEF TypeOK, HandlersOK, StartOpening, Goto, Labels, InFlight
  <2>2. todo' \in [Procs -> SUBSET Pairs] /\ outbox' \in [Procs -> SUBSET MatchedEvents]
    BY Zenon DEF TypeOK, HandlersOK, StartOpening
  <2>3. UNCHANGED <<requests, req, components, toScan, open, note>>
    BY Zenon DEF store
  <2> QED
    BY <2>1, <2>2, <2>3, Zenon DEF TypeOK, HandlersOK, InFlight, Job
<1>3. OperatorsOK' /\ incidents' \in Seq(Incident) /\ log' \in Seq(Events) /\ faults' \in Nat
  BY OperatorsKept, Zenon DEF TypeOK, outcomes
<1> QED
  BY <1>1, <1>2, <1>3, Zenon DEF TypeOK

LEMMA ListIoCsType ==
    ASSUME TypeOK, NEW p \in Procs, ListIoCs(p), UNCHANGED triageVars
    PROVE  TypeOK'
<1> DEFINE hits == retroactiveMatch(iocs, SBOMOf(req[p]))
           pairs == { matchPair(i, Job(p).ref) : i \in hits }
           events == { IoCMatched(i, {Job(p).ref}) : i \in hits }
<1>1. p \in InFlight
  BY Zenon DEF ListIoCs, InFlight
<1>2. Job(p) \in Requests /\ Job(p).ref \in Refs
  <2>1. Job(p) \in Requests
    BY <1>1, JobIsRequest, Zenon
  <2>2. Job(p).op = "sbom"
    BY Zenon DEF ListIoCs
  <2> QED
    BY <2>1, <2>2, RequestFields, Zenon
<1>3. hits \subseteq IoCIds
  <2>1. \A i \in iocs : i.id \in IoCIds
    BY RequestFields DEF TypeOK, RowsOK, IoCOf
  <2> QED
    BY <2>1, Zenon DEF retroactiveMatch
<1>4. pairs \in SUBSET Pairs /\ events \in SUBSET MatchedEvents
  BY <1>2, <1>3 DEF Pairs, MatchedEvents, matchPair, IoCMatched
<1>5. StartOpening(p, pairs, events) /\ UNCHANGED <<store, req, toScan, open, note, requests, outcomes, incidents, log>>
  BY Zenon DEF ListIoCs
<1> QED
  BY <1>1, <1>4, <1>5, StartOpeningType, Zenon

(* The events of a forward match. *)
LEMMA MatchedOnceType ==
    ASSUME NEW id \in IoCIds, NEW refs \in SUBSET Refs
    PROVE  MatchedOnce(id, refs) \in SUBSET MatchedEvents
  BY DEF MatchedOnce, IoCMatched, MatchedEvents

LEMMA LookupPackagesType ==
    ASSUME TypeOK, NEW p \in Procs, LookupPackages(p), UNCHANGED triageVars
    PROVE  TypeOK'
<1> DEFINE hits == forwardMatch(Backend, Job(p).body, sboms)
           pairs == { matchPair(Job(p).id, r) : r \in hits }
<1>1. p \in InFlight
  BY Zenon DEF LookupPackages, InFlight
<1>2. Job(p) \in Requests /\ Job(p).id \in IoCIds
  <2>1. Job(p) \in Requests
    BY <1>1, JobIsRequest, Zenon
  <2>2. Job(p).op = "ioc"
    BY Zenon DEF LookupPackages
  <2> QED
    BY <2>1, <2>2, RequestFields, Zenon
<1>3. hits \in SUBSET Refs
  BY ForwardMatchRefs DEF TypeOK, RowsOK
<1>4. pairs \in SUBSET Pairs /\ MatchedOnce(Job(p).id, hits) \in SUBSET MatchedEvents
  BY <1>2, <1>3, MatchedOnceType DEF Pairs, matchPair
<1>5. /\ StartOpening(p, pairs, MatchedOnce(Job(p).id, hits))
      /\ UNCHANGED <<store, req, toScan, open, note, requests, outcomes, incidents, log>>
  BY Zenon DEF LookupPackages
<1> QED
  BY <1>1, <1>4, <1>5, StartOpeningType, Zenon

LEMMA FinishScanType ==
    ASSUME TypeOK, NEW p \in Procs, FinishScan(p), UNCHANGED triageVars
    PROVE  TypeOK'
<1> DEFINE refs == { pair.ref : pair \in todo[p] }
<1>1. p \in InFlight
  BY Zenon DEF FinishScan, InFlight
<1>2. Job(p) \in Requests /\ Job(p).id \in IoCIds
  <2>1. Job(p).op = "forward"
    BY Zenon DEF TypeOK, HandlersOK, FinishScan
  <2>2. Job(p) \in Requests
    BY <1>1 DEF TypeOK, RowsOK, HandlersOK, Job
  <2> QED
    BY <2>1, <2>2, RequestFields, Zenon
<1>3. todo[p] \in SUBSET Pairs /\ refs \in SUBSET Refs
  BY DEF TypeOK, HandlersOK, Pairs
<1>4. MatchedOnce(Job(p).id, refs) \in SUBSET MatchedEvents
  BY <1>2, <1>3, MatchedOnceType, Zenon
<1>5. /\ StartOpening(p, todo[p], MatchedOnce(Job(p).id, refs))
      /\ UNCHANGED <<store, req, toScan, open, note, requests, outcomes, incidents, log>>
  BY Zenon DEF FinishScan
<1> QED
  BY <1>1, <1>3, <1>4, <1>5, StartOpeningType, Zenon

LEMMA ListComponentsType ==
    ASSUME TypeOK, NEW p \in Procs, ListComponents(p), UNCHANGED triageVars
    PROVE  TypeOK'
<1>1. RowsOK'
  BY RowsKept, Zenon DEF TypeOK, RowsOK, ListComponents, store, outcomes
<1>2. HandlersOK'
  <2>1. p \in InFlight /\ Job(p).op = "forward"
    BY Zenon DEF ListComponents, InFlight
  <2>2. /\ pc' = [pc EXCEPT ![p] = "scan"]
        /\ UNCHANGED <<requests, req, components, todo, open, note, outbox>>
    BY Zenon DEF ListComponents, Goto, store
  <2>3. toScan' \in [Procs -> SUBSET Refs]
    BY Zenon DEF TypeOK, RowsOK, HandlersOK, ListComponents
  <2> QED
    BY <2>1, <2>2, <2>3, Zenon DEF TypeOK, HandlersOK, InFlight, Job, Labels
<1>3. OperatorsOK' /\ incidents' \in Seq(Incident) /\ log' \in Seq(Events) /\ faults' \in Nat
  BY OperatorsKept, Zenon DEF TypeOK, ListComponents, outcomes
<1> QED
  BY <1>1, <1>2, <1>3, Zenon DEF TypeOK

LEMMA ListSBOMsType ==
    ASSUME TypeOK, NEW p \in Procs, NEW c \in toScan[p], ListSBOMsByComponent(p, c),
           UNCHANGED triageVars
    PROVE  TypeOK'
<1> DEFINE hits == { s \in sboms : s.ref = c /\ Evaluate(Job(p).body, s) }
           pairs == { matchPair(Job(p).id, s.ref) : s \in hits }
<1>1. p \in InFlight
  BY Zenon DEF ListSBOMsByComponent, InFlight
<1>2. Job(p) \in Requests /\ Job(p).id \in IoCIds
  <2>1. Job(p).op = "forward"
    BY Zenon DEF TypeOK, HandlersOK, ListSBOMsByComponent
  <2>2. Job(p) \in Requests
    BY <1>1 DEF TypeOK, RowsOK, HandlersOK, Job
  <2> QED
    BY <2>1, <2>2, RequestFields, Zenon
<1>3. pairs \subseteq Pairs
  <2>1. \A s \in sboms : s.ref \in Refs
    BY Zenon DEF TypeOK, RowsOK
  <2> QED
    BY <1>2, <2>1 DEF Pairs, matchPair
<1>4. /\ todo' = [todo EXCEPT ![p] = @ \cup pairs]
      /\ toScan' = [toScan EXCEPT ![p] = @ \ {c}]
      /\ UNCHANGED <<pc, requests, req, components, open, note, outbox>>
  BY Zenon DEF ListSBOMsByComponent, store
<1>5. HandlersOK'
  <2> HIDE DEF pairs
  <2>1. todo' \in [Procs -> SUBSET Pairs] /\ toScan' \in [Procs -> SUBSET Refs]
    BY <1>3, <1>4, Zenon DEF TypeOK, HandlersOK
  <2> QED
    BY <1>4, <2>1, Zenon DEF TypeOK, HandlersOK, InFlight, Job
<1>6. RowsOK'
  BY RowsKept, Zenon DEF TypeOK, RowsOK, ListSBOMsByComponent, store, outcomes
<1>7. OperatorsOK' /\ incidents' \in Seq(Incident) /\ log' \in Seq(Events) /\ faults' \in Nat
  BY OperatorsKept, Zenon DEF TypeOK, ListSBOMsByComponent, outcomes
<1> QED
  BY <1>5, <1>6, <1>7, Zenon DEF TypeOK

LEMMA ListIncidentsType ==
    ASSUME TypeOK, NEW p \in Procs, ListIncidents(p), UNCHANGED triageVars
    PROVE  TypeOK'
<1>1. OpenPairs \subseteq Pairs
  <2>1. \A n \in DOMAIN incidents : incidents[n] \in Incident
    BY DEF TypeOK
  <2>2. \A n \in DOMAIN incidents : incidents[n].ioc \in IoCIds /\ incidents[n].ref \in Refs
    BY <2>1, Zenon DEF Incident
  <2> QED
    BY <2>2 DEF OpenPairs, Pairs, matchPair
<1>2. HandlersOK'
  <2>1. p \in InFlight
    BY Zenon DEF ListIncidents, InFlight
  <2>2. /\ pc' = [pc EXCEPT ![p] = "open"]
        /\ UNCHANGED <<requests, req, components, toScan, todo, note, outbox>>
    BY Zenon DEF ListIncidents, Goto, store
  <2>3. open' \in [Procs -> SUBSET Pairs]
    BY <1>1, Zenon DEF TypeOK, HandlersOK, ListIncidents
  <2> QED
    BY <2>1, <2>2, <2>3, Zenon DEF TypeOK, HandlersOK, InFlight, Job, Labels
<1>3. RowsOK'
  BY RowsKept, Zenon DEF TypeOK, RowsOK, ListIncidents, store, outcomes
<1>4. OperatorsOK' /\ incidents' \in Seq(Incident) /\ log' \in Seq(Events) /\ faults' \in Nat
  BY OperatorsKept, Zenon DEF TypeOK, ListIncidents, outcomes
<1> QED
  BY <1>2, <1>3, <1>4, Zenon DEF TypeOK

LEMMA SkipPairType ==
    ASSUME TypeOK, NEW p \in Procs, NEW pair \in todo[p], SkipPair(p, pair), UNCHANGED triageVars
    PROVE  TypeOK'
<1>1. HandlersOK'
  <2>1. UNCHANGED <<pc, requests, req, components, toScan, open, note, outbox>>
    BY Zenon DEF SkipPair, store
  <2>2. todo' \in [Procs -> SUBSET Pairs]
    BY Zenon DEF TypeOK, HandlersOK, SkipPair
  <2> QED
    BY <2>1, <2>2, Zenon DEF TypeOK, HandlersOK, InFlight, Job
<1>2. RowsOK'
  BY RowsKept, Zenon DEF TypeOK, RowsOK, SkipPair, store, outcomes
<1>3. OperatorsOK' /\ incidents' \in Seq(Incident) /\ log' \in Seq(Events) /\ faults' \in Nat
  BY OperatorsKept, Zenon DEF TypeOK, SkipPair, outcomes
<1> QED
  BY <1>1, <1>2, <1>3, Zenon DEF TypeOK

LEMMA OpenIncidentType ==
    ASSUME TypeOK, NEW p \in Procs, NEW pair \in todo[p], NEW ok \in BOOLEAN,
           OpenIncident(p, pair, ok), UNCHANGED triageVars
    PROVE  TypeOK'
<1>1. /\ p \in InFlight /\ pc[p] = "open"
      /\ "announce" \in Labels /\ Proceed(p, ok, "announce")
  BY Zenon DEF OpenIncident, InFlight, Labels
<1>2. pair \in Pairs /\ pair.ioc \in IoCIds /\ pair.ref \in Refs /\ req[p] \in Nat
  BY DEF TypeOK, HandlersOK, Pairs
<1>3. NewIncident(pair.ioc, pair.ref, req[p]) \in Incident
  <2>1. <<>> \in Seq(Nat) /\ "pending" \in IncidentStates
    BY DEF IncidentStates
  <2> QED
    BY <1>2, <2>1, Zenon DEF NewIncident, Incident
<1>4. incidents' \in Seq(Incident) /\ DOMAIN incidents \subseteq DOMAIN incidents'
  <2> DEFINE row == NewIncident(pair.ioc, pair.ref, req[p])
  <2>1. incidents' = Append(incidents, row) \/ incidents' = incidents
    BY Zenon DEF OpenIncident
  <2>2. row \in Incident
    BY <1>3, Zenon
  <2>3. incidents \in Seq(Incident)
    BY Zenon DEF TypeOK
  <2> HIDE DEF row
  <2> QED
    BY <2>1, <2>2, <2>3
<1>5. HandlersOK'
  <2>1. /\ pc' \in [Procs -> Labels]
        /\ \A q \in Procs : q # p => pc'[q] = pc[q]
        /\ pc'[p] \in {pc[p], "announce", "idle"} /\ pc[p] = "open"
    BY <1>1, ProceedType
  <2>2. Len(incidents') \in Nat
    BY <1>4
  <2>3. Opened(Len(incidents'), pair) \in OpenedEvents
    BY <1>2, <2>2, Zenon DEF Opened, OpenedEvents
  <2>4. /\ note' \in [Procs -> OpenedEvents \cup {NoNote}]
        /\ \A q \in Procs : q # p => note'[q] = note[q]
        /\ note'[p] \in OpenedEvents
    BY <2>3, Zenon DEF TypeOK, HandlersOK, OpenIncident
  <2>5. todo' \in [Procs -> SUBSET Pairs] /\ open' \in [Procs -> SUBSET Pairs]
    BY <1>2, Zenon DEF TypeOK, HandlersOK, OpenIncident
  <2>6. UNCHANGED <<requests, req, components, toScan, outbox>>
    BY Zenon DEF OpenIncident, store
  <2> QED
    BY <1>1, <2>1, <2>4, <2>5, <2>6, ZenonT(30) DEF TypeOK, HandlersOK, InFlight, Job
<1>6. RowsOK'
  BY <1>1, ProceedType, RowsKept, Zenon DEF OpenIncident, store
<1> QED
  BY <1>1, <1>4, <1>5, <1>6, ProceedType, OperatorsKept, Zenon DEF TypeOK, OpenIncident

(* Publishing an event and moving on. *)
LEMMA PublishType ==
    ASSUME TypeOK, NEW p \in InFlight, NEW e \in Events, Publish(e), NEW label \in Labels,
           Goto(p, label), label \notin {"ingested", "scan", "announce"},
           UNCHANGED <<store, req, locals, requests, outcomes, incidents>>, UNCHANGED triageVars
    PROVE  TypeOK'
<1>1. RowsOK'
  BY RowsKept, Zenon DEF TypeOK, RowsOK, store, outcomes
<1>2. HandlersOK'
  <2>1. /\ pc' \in [Procs -> Labels]
        /\ \A q \in Procs : q # p => pc'[q] = pc[q]
        /\ pc'[p] = label
    BY Zenon DEF TypeOK, HandlersOK, Goto, InFlight
  <2>2. UNCHANGED <<requests, req, components, locals>>
    BY Zenon DEF store
  <2> QED
    BY <2>1, <2>2, LocalsKept, Zenon
<1>3. OperatorsOK' /\ incidents' \in Seq(Incident) /\ log' \in Seq(Events) /\ faults' \in Nat
  BY OperatorsKept DEF TypeOK, Publish, outcomes
<1> QED
  BY <1>1, <1>2, <1>3, Zenon DEF TypeOK

LEMMA PublishIngestedType ==
    ASSUME TypeOK, NEW p \in Procs, PublishIngested(p), UNCHANGED triageVars
    PROVE  TypeOK'
<1>1. p \in InFlight /\ "list" \in Labels
  BY Zenon DEF PublishIngested, InFlight, Labels
<1>2. [type |-> "sbom.ingested", sbom |-> req[p]] \in Events
  BY Zenon DEF TypeOK, HandlersOK, Events
<1> QED
  BY <1>1, <1>2, PublishType, Zenon DEF PublishIngested

LEMMA PublishOpenedType ==
    ASSUME TypeOK, NEW p \in Procs, PublishOpened(p), UNCHANGED triageVars
    PROVE  TypeOK'
<1>1. p \in InFlight /\ "open" \in Labels
  BY Zenon DEF PublishOpened, InFlight, Labels
<1>2. note[p] \in Events
  BY Zenon DEF TypeOK, HandlersOK, Events, PublishOpened
<1> QED
  BY <1>1, <1>2, PublishType, Zenon DEF PublishOpened

LEMMA PublishMatchedType ==
    ASSUME TypeOK, NEW p \in Procs, NEW e \in outbox[p], PublishMatched(p, e), UNCHANGED triageVars
    PROVE  TypeOK'
<1>1. HandlersOK'
  <2>1. UNCHANGED <<pc, requests, req, components, toScan, todo, open, note>>
    BY Zenon DEF PublishMatched, store
  <2>2. outbox' \in [Procs -> SUBSET MatchedEvents]
    BY Zenon DEF TypeOK, HandlersOK, PublishMatched
  <2>4. /\ \A q \in InFlight' : req'[q] \in DOMAIN requests'
        /\ \A q \in InFlight' : Job(q)'.op = "sbom" => Job(q)'.ref \in components'
        /\ \A q \in Procs : pc'[q] = "ingested" => Job(q)'.op = "sbom"
        /\ \A q \in Procs : pc'[q] = "scan" => Job(q)'.op = "forward"
    BY <2>1, Zenon DEF TypeOK, HandlersOK, InFlight, Job
  <2>5. /\ pc' \in [Procs -> Labels] /\ req' \in [Procs -> Nat]
        /\ toScan' \in [Procs -> SUBSET Refs] /\ todo' \in [Procs -> SUBSET Pairs]
        /\ open' \in [Procs -> SUBSET Pairs] /\ note' \in [Procs -> OpenedEvents \cup {NoNote}]
        /\ \A q \in Procs : pc'[q] = "announce" => note'[q] \in OpenedEvents
    BY <2>1, Zenon DEF TypeOK, HandlersOK
  <2> QED
    BY <2>2, <2>4, <2>5, Zenon DEF HandlersOK
<1>2. RowsOK'
  BY RowsKept, Zenon DEF TypeOK, RowsOK, PublishMatched, store, outcomes
<1>3. log' \in Seq(Events)
  <2>1. e \in Events
    BY Zenon DEF TypeOK, HandlersOK, Events
  <2>2. log \in Seq(Events) /\ log' = Append(log, e)
    BY Zenon DEF TypeOK, PublishMatched, Publish
  <2> QED
    BY <2>1, <2>2
<1>4. OperatorsOK' /\ incidents' \in Seq(Incident) /\ faults' \in Nat
  BY OperatorsKept, Zenon DEF TypeOK, PublishMatched, outcomes
<1> QED
  BY <1>1, <1>2, <1>3, <1>4, Zenon DEF TypeOK

LEMMA FinishOpeningType ==
    ASSUME TypeOK, NEW p \in Procs, FinishOpening(p), UNCHANGED triageVars
    PROVE  TypeOK'
<1>1. p \in InFlight
  BY Zenon DEF FinishOpening, InFlight
<1>2. RowsOK'
  BY RowsKept, Zenon DEF TypeOK, RowsOK, FinishOpening, store, outcomes
<1>3. HandlersOK'
  <2>1. /\ pc' \in [Procs -> Labels]
        /\ \A q \in Procs : q # p => pc'[q] = pc[q]
        /\ pc'[p] = "matched"
    BY Zenon DEF TypeOK, HandlersOK, FinishOpening, Goto, Labels
  <2>2. UNCHANGED <<requests, req, components, locals>>
    BY Zenon DEF FinishOpening, store
  <2> QED
    BY <1>1, <2>1, <2>2, LocalsKept, Zenon
<1>4. OperatorsOK' /\ incidents' \in Seq(Incident) /\ log' \in Seq(Events) /\ faults' \in Nat
  BY OperatorsKept, Zenon DEF TypeOK, FinishOpening, outcomes
<1> QED
  BY <1>2, <1>3, <1>4, Zenon DEF TypeOK

(* The two ways a handler ends. *)
LEMMA EndType ==
    ASSUME TypeOK, NEW p \in Procs, Respond(p) \/ ReadError(p), UNCHANGED triageVars
    PROVE  TypeOK'
<1>1. p \in InFlight
  BY Zenon DEF Respond, ReadError, InFlight
<1>2. req[p] \in DOMAIN requests
  BY <1>1, Zenon DEF TypeOK, HandlersOK
<1>3. /\ pc' = [pc EXCEPT ![p] = "idle"]
      /\ UNCHANGED <<components, sboms, iocs, requests, req, locals, incidents, log>>
      /\ acked' \subseteq DOMAIN requests /\ failed' \subseteq DOMAIN requests
      /\ faults' \in Nat
  <2>1. acked \subseteq DOMAIN requests /\ failed \subseteq DOMAIN requests /\ faults \in Nat
    BY Zenon DEF TypeOK, RowsOK
  <2>2. CASE Respond(p)
    BY <1>2, <2>1, <2>2, Zenon DEF Respond, Goto, store
  <2>3. CASE ReadError(p)
    <3>1. Fail(p) /\ UNCHANGED <<store, req, locals, requests, incidents, log>>
      BY <2>3, Zenon DEF ReadError
    <3>2. faults' \in Nat
      BY <2>1, <3>1 DEF Fail, Fault
    <3>3. acked' \subseteq DOMAIN requests /\ failed' \subseteq DOMAIN requests
      BY <1>2, <2>1, <3>1, Zenon DEF Fail
    <3> QED
      BY <3>1, <3>2, <3>3, Zenon DEF Fail, Goto, store
  <2> QED
    BY <2>2, <2>3, Zenon
<1>4. RowsOK'
  BY <1>3, RowsKept, Zenon
<1>5. HandlersOK'
  <2>1. /\ pc' \in [Procs -> Labels]
        /\ \A q \in Procs : q # p => pc'[q] = pc[q]
        /\ pc'[p] = "idle"
    BY <1>3, Zenon DEF TypeOK, HandlersOK, Labels
  <2> QED
    BY <1>1, <1>3, <2>1, LocalsKept, Zenon
<1> QED
  BY <1>3, <1>4, <1>5, OperatorsKept, Zenon DEF TypeOK

LEMMA UpsertComponentType ==
    ASSUME TypeOK, NEW ref \in Refs, UpsertComponent(ref), UNCHANGED triageVars
    PROVE  TypeOK'
<1>1. RowsOK'
  <2>1. UNCHANGED <<sboms, iocs, requests, acked, failed>>
    BY Zenon DEF UpsertComponent, outcomes
  <2>2. components' \subseteq Refs /\ components \subseteq components'
    BY Zenon DEF UpsertComponent, TypeOK, RowsOK
  <2>3. \A k : SBOMOf(k)' = SBOMOf(k) /\ IoCOf(k)' = IoCOf(k)
    BY <2>1, Zenon DEF SBOMOf, IoCOf
  <2> QED
    BY <2>1, <2>2, <2>3, Zenon DEF TypeOK, RowsOK
<1>2. HandlersOK'
  BY Zenon DEF TypeOK, HandlersOK, UpsertComponent, locals, InFlight, Job
<1>3. OperatorsOK' /\ incidents' \in Seq(Incident) /\ log' \in Seq(Events) /\ faults' \in Nat
  BY OperatorsKept, Zenon DEF TypeOK, UpsertComponent, outcomes
<1> QED
  BY <1>1, <1>2, <1>3, Zenon DEF TypeOK

LEMMA SubNextType ==
    ASSUME TypeOK, SubNext, UNCHANGED triageVars
    PROVE  TypeOK'
<1>1. CASE \E ref \in Refs : UpsertComponent(ref)
  BY <1>1, UpsertComponentType, Zenon
<1>2. ASSUME NEW p \in Procs, Request(p)
      PROVE  TypeOK'
  <2>1. ASSUME NEW ref \in Refs, NEW l \in Lockfiles, SubmitSBOM(p, ref, l)
        PROVE  TypeOK'
    <3> DEFINE r == [op |-> "sbom", ref |-> ref, lock |-> l]
    <3>1. r \in Requests /\ r.ref \in components /\ Accept(p, r)
      BY <2>1, Zenon DEF SubmitSBOM, Requests, SBOMRequests
    <3> QED
      BY <3>1, AcceptType, Zenon
  <2>2. ASSUME NEW id \in IoCIds, NEW b \in ApiBodies, SubmitIoC(p, id, b)
        PROVE  TypeOK'
    <3> DEFINE r == [op |-> "ioc", id |-> id, body |-> b]
    <3>1. r \in Requests /\ r.op # "sbom" /\ Accept(p, r)
      BY <2>2, Zenon DEF SubmitIoC, Requests, IoCRequests
    <3> QED
      BY <3>1, AcceptType, Zenon
  <2>3. ASSUME NEW id \in IoCIds, NEW b \in AnomalyBodies, ForwardSubmit(p, id, b)
        PROVE  TypeOK'
    <3> DEFINE r == [op |-> "forward", id |-> id, body |-> b]
    <3>1. r \in Requests /\ r.op # "sbom" /\ Accept(p, r)
      BY <2>3, Zenon DEF ForwardSubmit, Requests, ForwardRequests
    <3> QED
      BY <3>1, AcceptType, Zenon
  <2> QED
    BY <1>2, <2>1, <2>2, <2>3, Zenon DEF Request
<1>3. ASSUME NEW p \in Procs, Handler(p)
      PROVE  TypeOK'
  BY <1>3, UpsertSBOMType, UpsertIoCType, PublishIngestedType, ListIoCsType, LookupPackagesType,
     ListComponentsType, ListSBOMsType, FinishScanType, ListIncidentsType, SkipPairType,
     OpenIncidentType, PublishOpenedType, FinishOpeningType, PublishMatchedType, EndType, Zenon
     DEF Handler
<1> QED
  BY <1>1, <1>2, <1>3, Zenon DEF SubNext

-----------------------------------------------------------------------------
(* The operators' steps, and the restart. *)

(* A triage handler leaves the submissions alone. *)
LEMMA SubmissionsKept ==
    ASSUME TypeOK, UNCHANGED subVars
    PROVE  RowsOK' /\ HandlersOK'
<1>1. UNCHANGED <<components, sboms, iocs, requests, pc, req, toScan, todo, open, note, outbox, acked, failed>>
  BY Zenon DEF subVars, store, locals
<1>2. RowsOK'
  BY <1>1, RowsKept, Zenon DEF TypeOK, RowsOK
<1>3. HandlersOK'
  BY <1>1, Zenon DEF TypeOK, HandlersOK, InFlight, Job
<1> QED
  BY <1>2, <1>3, Zenon

LEMMA TProceedType ==
    ASSUME TypeOK, NEW o \in Operators, NEW ok \in BOOLEAN,
           NEW label \in {"idle", "publish", "added"}, TProceed(o, ok, label)
    PROVE  /\ tpc' \in [Operators -> {"idle", "write", "publish", "append", "added"}]
           /\ \A q \in Operators : q # o => tpc'[q] = tpc[q]
           /\ tpc'[o] \in {label, "idle"}
           /\ faults' \in Nat
<1>1. CASE TGoto(o, label) /\ UNCHANGED faults
  BY <1>1, Zenon DEF TypeOK, OperatorsOK, TGoto
<1>2. CASE TGoto(o, "idle") /\ Fault
  BY <1>2 DEF TypeOK, OperatorsOK, TGoto, Fault
<1> QED
  BY <1>1, <1>2, Zenon DEF TProceed

(* A write to an existing row leaves the table one of well-formed rows. *)
LEMMA RowUpdateType ==
    ASSUME TypeOK, NEW n \in DOMAIN incidents, NEW row \in Incident,
           incidents' = [incidents EXCEPT ![n] = row]
    PROVE  incidents' \in Seq(Incident) /\ DOMAIN incidents' = DOMAIN incidents
  BY DEF TypeOK

LEMMA PublishedType ==
    ASSUME TypeOK, NEW e \in Events, Publish(e)
    PROVE  log' \in Seq(Events)
  BY DEF TypeOK, Publish

LEMMA TAcceptType ==
    ASSUME TypeOK, NEW o \in Operators, NEW t, NEW label, TAccept(o, t, label),
           t.inc \in DOMAIN incidents,
           \/ label = "write" /\ t \in TransitionTasks
           \/ label = "append" /\ t \in RemediationTasks
    PROVE  OperatorsOK'
<1>1. /\ tpc' \in [Operators -> {"idle", "write", "publish", "append", "added"}]
      /\ tpc'[o] = label /\ \A q \in Operators : q # o => tpc'[q] = tpc[q]
  BY Zenon DEF TypeOK, OperatorsOK, TAccept, TGoto
<1>2. /\ task' \in [Operators -> {NoTask} \cup TransitionTasks \cup RemediationTasks]
      /\ task'[o] = t /\ \A q \in Operators : q # o => task'[q] = task[q]
  BY Zenon DEF TypeOK, OperatorsOK, TAccept
<1>3. ntriage' \in Nat /\ UNCHANGED incidents
  BY DEF TypeOK, OperatorsOK, TAccept
<1>4. ASSUME NEW q \in Operators
      PROVE  /\ tpc'[q] # "idle" => task'[q].inc \in DOMAIN incidents
             /\ tpc'[q] \in {"write", "publish"} => task'[q] \in TransitionTasks
             /\ tpc'[q] \in {"append", "added"} => task'[q] \in RemediationTasks
  <2>1. CASE q = o
    BY <1>1, <1>2, <2>1, Zenon
  <2>2. CASE q # o
    BY <1>1, <1>2, <2>2, Zenon DEF TypeOK, OperatorsOK
  <2> QED
    BY <2>1, <2>2, Zenon
<1> QED
  BY <1>1, <1>2, <1>3, <1>4, Zenon DEF OperatorsOK

LEMMA TriageNextType ==
    ASSUME TypeOK, TriageNext, UNCHANGED subVars
    PROVE  TypeOK'
<1> USE SubmissionsKept DEF TypeOK
<1>1. ASSUME NEW o \in Operators, NEW n \in DOMAIN incidents, NEW to \in IncidentStates,
             GetIncident(o, n, to)
      PROVE  TypeOK'
  <2> DEFINE t == [inc |-> n, from |-> incidents[n].state, copy |-> Transition(incidents[n], to)]
  <2>1. n \in Nat /\ incidents[n] \in Incident
    OBVIOUS
  <2>2. Transition(incidents[n], to) \in Incident /\ incidents[n].state \in IncidentStates
    BY <2>1, ZenonT(30) DEF Transition, Incident
  <2>3. t \in TransitionTasks
    BY <2>1, <2>2, Zenon DEF TransitionTasks
  <2>4. TAccept(o, t, "write")
    BY <1>1, Zenon DEF GetIncident
  <2>5. t.inc = n
    BY Zenon
  <2> HIDE DEF t
  <2> QED
    BY <2>3, <2>4, <2>5, TAcceptType, Zenon DEF TAccept
<1>2. ASSUME NEW o \in Operators, NEW n \in DOMAIN incidents, BeginRemediation(o, n)
      PROVE  TypeOK'
  <2> DEFINE t == [inc |-> n, rem |-> ntriage + 1]
  <2>1. n \in Nat /\ ntriage + 1 \in Nat
    BY DEF OperatorsOK
  <2>2. t \in RemediationTasks /\ t.inc = n
    BY <2>1, Zenon DEF RemediationTasks
  <2>3. TAccept(o, t, "append")
    BY <1>2, Zenon DEF BeginRemediation
  <2> HIDE DEF t
  <2> QED
    BY <2>2, <2>3, TAcceptType, Zenon DEF TAccept
<1>3. ASSUME NEW o \in Operators, NEW ok \in BOOLEAN, WriteTransition(o, ok)
      PROVE  TypeOK'
  <2> DEFINE label == IF task[o].from = task[o].copy.state THEN "idle" ELSE "publish"
  <2>1. task[o] \in TransitionTasks /\ task[o].inc \in DOMAIN incidents
    BY <1>3, Zenon DEF OperatorsOK, WriteTransition
  <2>2. /\ tpc' \in [Operators -> {"idle", "write", "publish", "append", "added"}]
        /\ \A q \in Operators : q # o => tpc'[q] = tpc[q]
        /\ tpc'[o] \in {"publish", "idle"}
        /\ faults' \in Nat
    BY <1>3, TProceedType, Zenon DEF WriteTransition
  <2>3. incidents' \in Seq(Incident) /\ DOMAIN incidents' = DOMAIN incidents
    <3>1. CASE UpsertIncident(task[o].inc, task[o].copy)
      <4>1. incidents[task[o].inc] \in Incident /\ task[o].copy \in Incident
        BY <2>1 DEF TransitionTasks
      <4>2. UpsertedRow(incidents[task[o].inc], task[o].copy) \in Incident
        BY <4>1, Zenon DEF UpsertedRow, Incident
      <4> QED
        BY <2>1, <3>1, <4>2, RowUpdateType, Zenon DEF UpsertIncident
    <3> QED
      BY <1>3, <3>1, Zenon DEF WriteTransition
  <2>4. UNCHANGED <<task, ntriage, log>>
    BY <1>3, Zenon DEF WriteTransition
  <2> QED
    BY <2>1, <2>2, <2>3, <2>4, Zenon DEF OperatorsOK
<1>4. ASSUME NEW o \in Operators, NEW ok \in BOOLEAN, AddRemediation(o, ok)
      PROVE  TypeOK'
  <2>1. task[o] \in RemediationTasks /\ task[o].inc \in DOMAIN incidents /\ task[o].rem \in Nat
    BY <1>4, Zenon DEF OperatorsOK, AddRemediation, RemediationTasks
  <2>2. /\ tpc' \in [Operators -> {"idle", "write", "publish", "append", "added"}]
        /\ \A q \in Operators : q # o => tpc'[q] = tpc[q]
        /\ tpc'[o] \in {"added", "idle"}
        /\ faults' \in Nat
    BY <1>4, TProceedType, Zenon DEF AddRemediation
  <2>3. incidents' \in Seq(Incident) /\ DOMAIN incidents' = DOMAIN incidents
    <3>1. CASE AppendRemediation(task[o].inc, task[o].rem)
      <4> DEFINE n == task[o].inc
                 row == [incidents[n] EXCEPT !.remediations = Append(@, task[o].rem)]
      <4>1. incidents[n] \in Incident
        BY <2>1
      <4>2. row \in Incident
        <5>1. Append(incidents[n].remediations, task[o].rem) \in Seq(Nat)
          BY <2>1, <4>1 DEF Incident
        <5> QED
          BY <4>1, <5>1, ZenonT(30) DEF Incident
      <4>3. incidents' = [incidents EXCEPT ![n] = row]
        BY <3>1, Zenon DEF AppendRemediation
      <4> HIDE DEF row
      <4> QED
        BY <2>1, <4>2, <4>3, RowUpdateType, Zenon
    <3> QED
      BY <1>4, <3>1, Zenon DEF AddRemediation
  <2>4. UNCHANGED <<task, ntriage, log>>
    BY <1>4, Zenon DEF AddRemediation
  <2> QED
    BY <2>1, <2>2, <2>3, <2>4, Zenon DEF OperatorsOK
<1>5. ASSUME NEW o \in Operators, PublishTransitioned(o)
      PROVE  TypeOK'
  <2>1. task[o] \in TransitionTasks
    BY <1>5, Zenon DEF OperatorsOK, PublishTransitioned
  <2>2. Transitioned(task[o].inc, task[o].from, task[o].copy.state) \in Events
    BY <2>1, Zenon DEF Transitioned, TransitionTasks, Incident, Events
  <2>3. log' \in Seq(Events)
    BY <1>5, <2>2, PublishedType, Zenon DEF PublishTransitioned
  <2> QED
    BY <1>5, <2>3, Zenon DEF OperatorsOK, PublishTransitioned, TGoto
<1>6. ASSUME NEW o \in Operators, PublishRemediationAdded(o)
      PROVE  TypeOK'
  <2>1. task[o] \in RemediationTasks
    BY <1>6, Zenon DEF OperatorsOK, PublishRemediationAdded
  <2>2. RemediationAdded(task[o].inc, task[o].rem) \in Events
    BY <2>1, Zenon DEF RemediationAdded, RemediationTasks, Events
  <2>3. log' \in Seq(Events)
    BY <1>6, <2>2, PublishedType, Zenon DEF PublishRemediationAdded
  <2> QED
    BY <1>6, <2>3, Zenon DEF OperatorsOK, PublishRemediationAdded, TGoto
<1> QED
  BY <1>1, <1>2, <1>3, <1>4, <1>5, <1>6, Zenon DEF TriageNext, TriageRequest, TriageHandler

LEMMA RestartType ==
    ASSUME TypeOK, Restart
    PROVE  TypeOK'
<1>1. /\ failed' \subseteq DOMAIN requests /\ acked' \subseteq DOMAIN requests
      /\ faults' \in Nat /\ UNCHANGED requests
  <2>1. /\ failed' = failed \cup { req[p] : p \in InFlight } /\ UNCHANGED <<acked, requests>>
        /\ Fault
    BY Zenon DEF Restart
  <2>2. { req[p] : p \in InFlight } \subseteq DOMAIN requests
    BY DEF TypeOK, HandlersOK
  <2>3. failed \subseteq DOMAIN requests /\ acked \subseteq DOMAIN requests /\ faults \in Nat
    BY Zenon DEF TypeOK, RowsOK
  <2> QED
    BY <2>1, <2>2, <2>3 DEF Fault
<1>2. RowsOK'
  <2>1. CASE Backend = "memory"
    <3>1. components' = {} /\ sboms' = {} /\ iocs' = {}
      BY <2>1, Zenon DEF Restart
    <3> QED
      BY <1>1, <3>1, Zenon DEF TypeOK, RowsOK
  <2>2. CASE Backend # "memory"
    <3>1. UNCHANGED <<components, sboms, iocs>>
      BY <2>2, Zenon DEF Restart, store
    <3> QED
      BY <1>1, <3>1, RowsKept, Zenon
  <2> QED
    BY <2>1, <2>2, Zenon
<1>3. HandlersOK'
  <2>1. /\ pc' = [p \in Procs |-> "idle"]
        /\ UNCHANGED <<req, toScan, todo, open, note, outbox>>
    BY Zenon DEF Restart, locals
  <2> QED
    BY <2>1, Zenon DEF TypeOK, HandlersOK, InFlight, Labels
<1>4. OperatorsOK'
  BY Zenon DEF TypeOK, OperatorsOK, Restart
<1>5. incidents' \in Seq(Incident) /\ log' \in Seq(Events)
  <2>1. \/ incidents' = <<>> /\ log' = <<>>
        \/ incidents' = incidents /\ log' = log
    BY Zenon DEF Restart
  <2>2. <<>> \in Seq(Incident) /\ <<>> \in Seq(Events)
    OBVIOUS
  <2> QED
    BY <2>1, <2>2, Zenon DEF TypeOK
<1> QED
  BY <1>1, <1>2, <1>3, <1>4, <1>5, Zenon DEF TypeOK

LEMMA StutterType ==
    ASSUME TypeOK, UNCHANGED vars
    PROVE  TypeOK'
<1>1. UNCHANGED <<subVars, triageVars, incidents, log, faults>>
  BY Zenon DEF vars
<1> QED
  BY <1>1, SubmissionsKept, OperatorsKept, Zenon DEF TypeOK

LEMMA InitType ==
    ASSUME Init
    PROVE  TypeOK
<1>1. RowsOK
  BY DEF Init, SubInit, RowsOK
<1>2. HandlersOK
  BY Zenon DEF Init, SubInit, HandlersOK, InFlight, Labels
<1>3. OperatorsOK
  BY Zenon DEF Init, TriageInit, OperatorsOK
<1> QED
  BY <1>1, <1>2, <1>3 DEF Init, IncidentsInit, TypeOK

LEMMA NextType ==
    ASSUME TypeOK, [Next]_vars
    PROVE  TypeOK'
  BY SubNextType, TriageNextType, RestartType, StutterType, Zenon DEF Next

(* Every reachable state is well formed: rows belong to requests, handlers' *)
(* local state to rows.                                                     *)
THEOREM TypeCorrect == Spec => []TypeOK
  BY InitType, NextType, PTL DEF Spec

-----------------------------------------------------------------------------
(* The bulk lookup finds what the predicate says it should, on either backend. *)

(* A package that fires against an IoC is one the IoC's lookup key selects, *)
(* provided the ecosystem is filled in: the index never hides a match.      *)
LEMMA FiringPackageIsLookedUp ==
    ASSUME NEW backend, NEW ioc, NEW s, NEW p \in s.pkgs,
           EcosystemGiven(ioc), ParsedSBOM(s),
           SameEcosystem(ioc, s.eco), Fires(ioc, p)
    PROVE  HasLookupKey(ioc) /\ InLookup(backend, s, p, iocLookupKey(ioc))
<1>1. CASE ioc.kind = "packageVersion"
  BY <1>1, Zenon DEF EcosystemGiven, ParsedSBOM, SameEcosystem, Fires, HasLookupKey,
     InLookup, iocLookupKey, evaluatePackageVersion, NoEco
<1>2. CASE ioc.kind = "packageRange"
  BY <1>2, Zenon DEF EcosystemGiven, ParsedSBOM, SameEcosystem, Fires, HasLookupKey,
     InLookup, iocLookupKey, evaluatePackageRange, NoEco
<1>3. CASE ioc.kind = "anomalyBody"
  <2>1. ioc.packageRef = [eco |-> p.eco, name |-> p.name]
    BY <1>3, Zenon DEF Fires, evaluateAnomalyBody
  <2>2. ioc.packageRef.eco = p.eco /\ ioc.packageRef.name = p.name
    BY <2>1
  <2>3. p.eco = s.eco
    BY Zenon DEF ParsedSBOM
  <2> QED
    BY <1>3, <2>2, <2>3, Zenon DEF EcosystemGiven, HasLookupKey, InLookup, iocLookupKey, NoEco
<1> QED
  BY <1>1, <1>2, <1>3, Zenon DEF Fires

(* A package the lookup returns belongs to an SBOM of the looked-up        *)
(* ecosystem, so evaluating it alone agrees with evaluating it in place.    *)
LEMMA LookedUpPackageAgrees ==
    ASSUME NEW backend, NEW ioc, NEW s, NEW p \in s.pkgs,
           EcosystemGiven(ioc), ParsedSBOM(s), HasLookupKey(ioc),
           InLookup(backend, s, p, iocLookupKey(ioc))
    PROVE  /\ SameEcosystem(ioc, s.eco)
           /\ SameEcosystem(ioc, iocLookupKey(ioc).eco)
  BY Zenon DEF EcosystemGiven, ParsedSBOM, SameEcosystem, HasLookupKey, InLookup,
     iocLookupKey, NoEco

(* forwardMatch returns exactly the components one of whose SBOMs the      *)
(* matcher accepts: the bulk lookup by (ecosystem, name) loses no match and *)
(* adds none, on either backend.                                            *)
THEOREM ForwardMatchIsEvaluate ==
    ASSUME NEW backend, NEW ioc, NEW stored,
           EcosystemGiven(ioc), \A s \in stored : ParsedSBOM(s)
    PROVE  forwardMatch(backend, ioc, stored)
             = { s.ref : s \in { t \in stored : Evaluate(ioc, t) } }
<1> DEFINE key == iocLookupKey(ioc)
           rows == ListSBOMPackages(backend, stored, key)
           hits == { s.ref : s \in { t \in stored : Evaluate(ioc, t) } }
<1>1. ASSUME NEW s \in stored, Evaluate(ioc, s)
      PROVE  s.ref \in forwardMatch(backend, ioc, stored)
  <2>1. PICK p \in s.pkgs : Fires(ioc, p)
    BY <1>1, Zenon DEF Evaluate
  <2>2. SameEcosystem(ioc, s.eco)
    BY <1>1, Zenon DEF Evaluate
  <2>3. HasLookupKey(ioc) /\ InLookup(backend, s, p, key)
    BY <2>1, <2>2, FiringPackageIsLookedUp, Zenon
  <2> DEFINE row == [ref |-> s.ref, pkg |-> p]
  <2>4. row \in rows
    BY <2>3 DEF ListSBOMPackages
  <2>5. Evaluate(ioc, [eco |-> key.eco, pkgs |-> {p}])
    <3>1. SameEcosystem(ioc, key.eco)
      BY <2>3, LookedUpPackageAgrees, Zenon
    <3> QED
      BY <3>1, <2>1, Zenon DEF Evaluate
  <2>6. s.ref \in matchPackagesAgainstIoC(ioc, key.eco, rows)
    <3>1. row.ref = s.ref /\ row.pkg = p
      BY Zenon
    <3>2. row \in { w \in rows : Evaluate(ioc, [eco |-> key.eco, pkgs |-> {w.pkg}]) }
      BY <2>4, <2>5, <3>1, Zenon
    <3> HIDE DEF row, rows, key
    <3> QED
      BY <3>1, <3>2, Zenon DEF matchPackagesAgainstIoC
  <2> QED
    BY <2>3, <2>6, Zenon DEF forwardMatch
<1>2. ASSUME NEW r \in forwardMatch(backend, ioc, stored)
      PROVE  r \in hits
  <2>1. HasLookupKey(ioc) /\ r \in matchPackagesAgainstIoC(ioc, key.eco, rows)
    BY <1>2, Zenon DEF forwardMatch
  <2>2. PICK row \in rows : /\ Evaluate(ioc, [eco |-> key.eco, pkgs |-> {row.pkg}])
                            /\ r = row.ref
    BY <2>1, Zenon DEF matchPackagesAgainstIoC
  <2>3. PICK s \in stored : \E p \in s.pkgs :
            InLookup(backend, s, p, key) /\ row = [ref |-> s.ref, pkg |-> p]
    BY <2>2, Zenon DEF ListSBOMPackages
  <2> PICK p \in s.pkgs :
            InLookup(backend, s, p, key) /\ row = [ref |-> s.ref, pkg |-> p]
    BY <2>3, Zenon
  <2>4. Fires(ioc, p)
    BY <2>2, <2>3, Zenon DEF Evaluate
  <2>5. SameEcosystem(ioc, s.eco)
    BY <2>1, <2>3, LookedUpPackageAgrees, Zenon
  <2>6. Evaluate(ioc, s)
    BY <2>4, <2>5, <2>3, Zenon DEF Evaluate
  <2> QED
    BY <2>2, <2>3, <2>6, Zenon
<1> QED
  BY <1>1, <1>2, Zenon

-----------------------------------------------------------------------------
(* The inductive invariant behind AckedMatchesOpened.                      *)

(* A request has at most one handler, which is neither answered nor failed. *)
RequestsExclusive ==
    /\ \A p \in InFlight : req[p] \notin acked \cup failed
    /\ \A p, q \in InFlight : req[p] = req[q] => p = q
    /\ acked \cap failed = {}

(* A handler only answers when it has no pair left to process. *)
NothingLeftAtEnd == \A p \in Procs : pc[p] = "matched" => todo[p] = {}

(* The index of open pairs may go stale, but every pair in it has an incident. *)
IndexSound ==
    \A p \in Procs : pc[p] \in {"open", "announce"} =>
      \A pair \in open[p] : HasIncident(pair.ioc, pair.ref)

(* The copy a transition writes back is about the row it overwrites. *)
SameIncident(a, b) == a.ioc = b.ioc /\ a.ref = b.ref /\ a.by = b.by

CopiesSound ==
    \A o \in Operators : tpc[o] = "write" => SameIncident(task[o].copy, incidents[task[o].inc])

(* Request r still owes pair its incident: it failed, or its handler has   *)
(* yet to look, or has the pair on its list.                               *)
StillOwes(p, pair) ==
    \/ pc[p] \in {"store", "ingested", "list"}
    \/ pc[p] = "scan" /\ pair.ref \in toScan[p]
    \/ pair \in todo[p]

Owes(r, pair) == r \in failed \/ \E p \in InFlight : req[p] = r /\ StillOwes(p, pair)

(* Of two matching rows, the request that stored the second one sees the   *)
(* first: the pair has an incident or one of the two owes it.              *)
Covered(s, i) ==
    \/ HasIncident(i.id, s.ref)
    \/ Owes(s.id, matchPair(i.id, s.ref))
    \/ Owes(i.by, matchPair(i.id, s.ref))

Matches(s, i) == EcosystemGiven(i.body) /\ Evaluate(i.body, s)

MatchesCovered == \A s \in sboms, i \in iocs : Matches(s, i) => Covered(s, i)

IInv == TypeOK /\ RequestsExclusive /\ NothingLeftAtEnd /\ IndexSound /\ CopiesSound /\ MatchesCovered

(* Incidents are only added, and what they are about is kept. *)
IncidentsGrow ==
    \A n \in DOMAIN incidents :
      n \in DOMAIN incidents' /\ SameIncident(incidents'[n], incidents[n])

LEMMA GrowKeepsIncident ==
    ASSUME IncidentsGrow, NEW ioc, NEW ref, HasIncident(ioc, ref)
    PROVE  HasIncident(ioc, ref)'
  BY Zenon DEF IncidentsGrow, HasIncident, SameIncident

(* What every step of the handler of p has to respect. *)
OthersKept(p) ==
    /\ UNCHANGED <<requests, req>>
    /\ \A q \in Procs : q # p =>
         pc'[q] = pc[q] /\ toScan'[q] = toScan[q] /\ todo'[q] = todo[q] /\ open'[q] = open[q]

Outcome(p) ==
    \/ UNCHANGED <<acked, failed>> /\ pc'[p] # "idle"
    \/ acked' = acked \cup {req[p]} /\ UNCHANGED failed /\ pc'[p] = "idle"
    \/ failed' = failed \cup {req[p]} /\ UNCHANGED acked /\ pc'[p] = "idle"

RowsStored(p) ==
    /\ \A s \in sboms' : s \in sboms \/ s.id = req[p]
    /\ \A i \in iocs' : i \in iocs \/ i.by = req[p]
    /\ UNCHANGED <<sboms, iocs>> \/ req[p] \in failed' \/ pc'[p] \in {"ingested", "list"}

(* A pair p still owes is owed after the step, or has got its incident. *)
DebtKept(p) ==
    \A s \in sboms, i \in iocs :
      LET pair == matchPair(i.id, s.ref)
      IN  (Matches(s, i) /\ req[p] \in {s.id, i.by} /\ StillOwes(p, pair)) =>
            \/ HasIncident(i.id, s.ref)'
            \/ req[p] \in failed'
            \/ pc'[p] # "idle" /\ StillOwes(p, pair)'

LocalStep(p) ==
    /\ OthersKept(p) /\ IncidentsGrow /\ Outcome(p) /\ RowsStored(p)
    /\ pc'[p] = "matched" => todo'[p] = {}
    /\ pc'[p] \in {"open", "announce"} => \A pair \in open'[p] : HasIncident(pair.ioc, pair.ref)'
    /\ DebtKept(p)

LEMMA LocalStepExclusive ==
    ASSUME IInv, NEW p \in InFlight, LocalStep(p)
    PROVE  RequestsExclusive'
<1>1. UNCHANGED req /\ \A q \in Procs : q # p => pc'[q] = pc[q]
  BY Zenon DEF LocalStep, OthersKept
<1>2. \A q \in InFlight' : q \in InFlight
  BY <1>1, Zenon DEF InFlight
<1>3. CASE UNCHANGED <<acked, failed>>
  BY <1>1, <1>2, <1>3, Zenon DEF IInv, RequestsExclusive
<1>4. CASE acked' = acked \cup {req[p]} /\ UNCHANGED failed /\ pc'[p] = "idle"
  <2>1. p \notin InFlight'
    BY <1>4, Zenon DEF InFlight
  <2> QED
    BY <1>1, <1>2, <1>4, <2>1, Zenon DEF IInv, RequestsExclusive
<1>5. CASE failed' = failed \cup {req[p]} /\ UNCHANGED acked /\ pc'[p] = "idle"
  <2>1. p \notin InFlight'
    BY <1>5, Zenon DEF InFlight
  <2> QED
    BY <1>1, <1>2, <1>5, <2>1, Zenon DEF IInv, RequestsExclusive
<1> QED
  BY <1>3, <1>4, <1>5, Zenon DEF LocalStep, Outcome

LEMMA LocalStepOwes ==
    ASSUME IInv, NEW p \in InFlight, LocalStep(p), NEW r, NEW pair, Owes(r, pair),
           (r = req[p] /\ StillOwes(p, pair)) =>
              req[p] \in failed' \/ (pc'[p] # "idle" /\ StillOwes(p, pair)')
    PROVE  Owes(r, pair)'
<1>1. failed \subseteq failed'
  BY Zenon DEF LocalStep, Outcome
<1>2. CASE r \in failed
  BY <1>1, <1>2, Zenon DEF Owes
<1>3. ASSUME NEW q \in InFlight, req[q] = r, StillOwes(q, pair)
      PROVE  Owes(r, pair)'
  <2>1. CASE q = p
    BY <1>3, <2>1, Zenon DEF Owes, InFlight, LocalStep, OthersKept
  <2>2. CASE q # p
    BY <1>3, <2>2, Zenon DEF Owes, InFlight, LocalStep, OthersKept, StillOwes
  <2> QED
    BY <2>1, <2>2, Zenon
<1> QED
  BY <1>2, <1>3, Zenon DEF Owes

LEMMA LocalStepCovered ==
    ASSUME IInv, NEW p \in InFlight, LocalStep(p)
    PROVE  MatchesCovered'
<1> SUFFICES ASSUME NEW s \in sboms', NEW i \in iocs', Matches(s, i)
             PROVE  Covered(s, i)'
  BY Zenon DEF MatchesCovered, Matches
<1> DEFINE pair == matchPair(i.id, s.ref)
<1>1. CASE s \in sboms /\ i \in iocs
  <2>1. Covered(s, i)
    BY <1>1, Zenon DEF IInv, MatchesCovered
  <2>2. CASE HasIncident(i.id, s.ref)
    BY <2>2, GrowKeepsIncident, Zenon DEF Covered, LocalStep
  <2>3. CASE HasIncident(i.id, s.ref)'
    BY <2>3, Zenon DEF Covered
  <2>4. CASE ~HasIncident(i.id, s.ref)' /\ Owes(s.id, pair)
    <3>1. Owes(s.id, pair)'
      BY <1>1, <2>4, LocalStepOwes, Zenon DEF LocalStep, DebtKept
    <3> QED
      BY <3>1, Zenon DEF Covered
  <2>5. CASE ~HasIncident(i.id, s.ref)' /\ Owes(i.by, pair)
    <3>1. Owes(i.by, pair)'
      BY <1>1, <2>5, LocalStepOwes, Zenon DEF LocalStep, DebtKept
    <3> QED
      BY <3>1, Zenon DEF Covered
  <2> QED
    BY <2>1, <2>2, <2>3, <2>4, <2>5, Zenon DEF Covered
<1>2. CASE ~(s \in sboms /\ i \in iocs)
  <2>1. req[p] \in failed' \/ pc'[p] \in {"ingested", "list"}
    BY <1>2, Zenon DEF LocalStep, RowsStored
  <2>2. Owes(req[p], pair)'
    BY <2>1, Zenon DEF Owes, StillOwes, InFlight, LocalStep, OthersKept
  <2>3. s.id = req[p] \/ i.by = req[p]
    BY <1>2, Zenon DEF LocalStep, RowsStored
  <2>4. UNCHANGED req
    BY Zenon DEF LocalStep, OthersKept
  <2> QED
    BY <2>2, <2>3, <2>4, Zenon DEF Covered
<1> QED
  BY <1>1, <1>2, Zenon

(* A local step preserves the invariant. *)
LEMMA LocalStepIInv ==
    ASSUME IInv, TypeOK', NEW p \in InFlight, LocalStep(p), UNCHANGED triageVars
    PROVE  IInv'
<1>1. NothingLeftAtEnd'
  BY Zenon DEF IInv, NothingLeftAtEnd, LocalStep, OthersKept, InFlight
<1>2. IndexSound'
  BY GrowKeepsIncident, Zenon DEF IInv, IndexSound, LocalStep, OthersKept, InFlight
<1>3. CopiesSound'
  BY ZenonT(30) DEF IInv, TypeOK, OperatorsOK, CopiesSound, SameIncident, LocalStep, IncidentsGrow, triageVars
<1> QED
  BY <1>1, <1>2, <1>3, LocalStepExclusive, LocalStepCovered, Zenon DEF IInv

-----------------------------------------------------------------------------
(* Every action of a submission handler is a local step. *)

LEMMA SameIncidents ==
    ASSUME UNCHANGED incidents
    PROVE  IncidentsGrow /\ \A ioc, ref : HasIncident(ioc, ref) <=> HasIncident(ioc, ref)'
  BY Zenon DEF IncidentsGrow, SameIncident, HasIncident

LEMMA UpsertSBOMStep ==
    ASSUME IInv, NEW p \in Procs, NEW ok \in BOOLEAN, UpsertSBOM(p, ok)
    PROVE  LocalStep(p)
<1>1. pc[p] = "store" /\ Proceed(p, ok, "ingested") /\ UNCHANGED <<requests, req, iocs, incidents, locals>>
  BY Zenon DEF UpsertSBOM
<1>2. OthersKept(p) /\ Outcome(p) /\ pc'[p] \in {"ingested", "idle"}
  BY <1>1, Zenon DEF IInv, TypeOK, HandlersOK, OthersKept, Outcome, Proceed, Goto, Fail, outcomes, locals
<1>3. req[p] \in failed' \/ pc'[p] = "ingested"
  BY <1>1, Zenon DEF IInv, TypeOK, HandlersOK, Proceed, Goto, Fail
<1>4. RowsStored(p)
  BY <1>1, <1>3 DEF RowsStored, UpsertSBOM, SBOMOf
<1>5. DebtKept(p)
  BY <1>3, Zenon DEF DebtKept, StillOwes
<1> QED
  BY <1>1, <1>2, <1>4, <1>5, SameIncidents, Zenon DEF LocalStep

LEMMA UpsertIoCStep ==
    ASSUME IInv, NEW p \in Procs, NEW ok \in BOOLEAN, UpsertIoC(p, ok)
    PROVE  LocalStep(p)
<1>1. pc[p] = "store" /\ Proceed(p, ok, "list") /\ UNCHANGED <<requests, req, sboms, incidents, locals>>
  BY Zenon DEF UpsertIoC
<1>2. OthersKept(p) /\ Outcome(p) /\ pc'[p] \in {"list", "idle"}
  BY <1>1, Zenon DEF IInv, TypeOK, HandlersOK, OthersKept, Outcome, Proceed, Goto, Fail, outcomes, locals
<1>3. req[p] \in failed' \/ pc'[p] = "list"
  BY <1>1, Zenon DEF IInv, TypeOK, HandlersOK, Proceed, Goto, Fail
<1>4. RowsStored(p)
  BY <1>1, <1>3 DEF RowsStored, UpsertIoC, Replace, IoCOf
<1>5. DebtKept(p)
  BY <1>3, Zenon DEF DebtKept, StillOwes
<1> QED
  BY <1>1, <1>2, <1>4, <1>5, SameIncidents, Zenon DEF LocalStep

(* Steps that change nothing but the label, the event log and the outbox. *)
LEMMA RelabelStep ==
    ASSUME IInv, NEW p \in Procs, NEW label \in Labels, label # "idle", pc' = [pc EXCEPT ![p] = label],
           UNCHANGED <<sboms, iocs, requests, req, toScan, todo, open, acked, failed, incidents>>,
           label = "matched" => todo[p] = {},
           label \in {"open", "announce"} => pc[p] \in {"open", "announce"},
           pc[p] \in {"store", "ingested", "list"} => label \in {"store", "ingested", "list"},
           pc[p] = "scan" => label = "scan"
    PROVE  LocalStep(p)
<1>1. OthersKept(p) /\ Outcome(p) /\ RowsStored(p)
  BY Zenon DEF IInv, TypeOK, HandlersOK, OthersKept, Outcome, RowsStored
<1>2. DebtKept(p)
  BY Zenon DEF IInv, TypeOK, HandlersOK, DebtKept, StillOwes
<1>3. pc'[p] = label
  BY Zenon DEF IInv, TypeOK, HandlersOK
<1>4. label \in {"open", "announce"} => \A pair \in open'[p] : HasIncident(pair.ioc, pair.ref)'
  BY SameIncidents, Zenon DEF IInv, IndexSound
<1> QED
  BY <1>1, <1>2, <1>3, <1>4, SameIncidents, Zenon DEF LocalStep

LEMMA PublishStep ==
    ASSUME IInv, NEW p \in Procs,
           PublishIngested(p) \/ PublishOpened(p) \/ FinishOpening(p)
           \/ \E e \in outbox[p] : PublishMatched(p, e)
    PROVE  LocalStep(p)
<1>1. CASE PublishIngested(p)
  BY <1>1, RelabelStep, Zenon DEF PublishIngested, Goto, store, locals, outcomes, Labels
<1>2. CASE PublishOpened(p)
  BY <1>2, RelabelStep, Zenon DEF PublishOpened, Goto, store, locals, outcomes, Labels
<1>3. CASE FinishOpening(p)
  BY <1>3, RelabelStep, Zenon DEF FinishOpening, Goto, store, locals, outcomes, Labels
<1>4. ASSUME NEW e \in outbox[p], PublishMatched(p, e)
      PROVE  LocalStep(p)
  <2>1. pc[p] = "matched" /\ pc' = [pc EXCEPT ![p] = "matched"] /\ todo[p] = {}
    BY <1>4, Zenon DEF PublishMatched, IInv, NothingLeftAtEnd, TypeOK, HandlersOK
  <2> QED
    BY <1>4, <2>1, RelabelStep, Zenon DEF PublishMatched, store, outcomes, Labels
<1> QED
  BY <1>1, <1>2, <1>3, <1>4, Zenon

(* Handing a list of pairs to openIncidentsForMatches settles what p owed,  *)
(* provided the list holds every pair p owed.                               *)
LEMMA StartOpeningStep ==
    ASSUME IInv, NEW p \in Procs, pc[p] # "idle", NEW pairs, NEW events, StartOpening(p, pairs, events),
           UNCHANGED <<store, req, toScan, open, note, requests, outcomes, incidents, log>>,
           \A s \in sboms, i \in iocs :
             (Matches(s, i) /\ req[p] \in {s.id, i.by} /\ StillOwes(p, matchPair(i.id, s.ref)))
               => matchPair(i.id, s.ref) \in pairs
    PROVE  LocalStep(p)
<1>1. /\ pc'[p] = (IF pairs = {} THEN "matched" ELSE "index")
      /\ todo'[p] = pairs
      /\ \A q \in Procs : q # p => pc'[q] = pc[q] /\ todo'[q] = todo[q]
  BY Zenon DEF IInv, TypeOK, HandlersOK, StartOpening, Goto
<1>2. UNCHANGED <<sboms, iocs, requests, req, toScan, open, acked, failed, incidents>>
  BY Zenon DEF store, outcomes
<1>3. OthersKept(p) /\ Outcome(p) /\ RowsStored(p)
  BY <1>1, <1>2, Zenon DEF OthersKept, Outcome, RowsStored
<1>4. DebtKept(p)
  BY <1>1, <1>2, Zenon DEF DebtKept, StillOwes
<1> QED
  BY <1>1, <1>2, <1>3, <1>4, SameIncidents, Zenon DEF LocalStep

(* retroactiveMatch sees every stored IoC: the SBOM's own row is what it    *)
(* evaluates them against.                                                  *)
LEMMA ListIoCsStep ==
    ASSUME IInv, NEW p \in Procs, ListIoCs(p)
    PROVE  LocalStep(p)
<1> DEFINE hits == retroactiveMatch(iocs, SBOMOf(req[p]))
           pairs == { matchPair(i, Job(p).ref) : i \in hits }
           events == { IoCMatched(i, {Job(p).ref}) : i \in hits }
<1>1. /\ pc[p] # "idle" /\ StartOpening(p, pairs, events)
      /\ UNCHANGED <<store, req, toScan, open, note, requests, outcomes, incidents, log>>
  BY Zenon DEF ListIoCs
<1>2. ASSUME NEW s \in sboms, NEW i \in iocs, Matches(s, i), req[p] \in {s.id, i.by}
      PROVE  matchPair(i.id, s.ref) \in pairs
  <2>1. requests[req[p]].op = "sbom"
    BY Zenon DEF ListIoCs, Job
  <2>2. req[p] = s.id
    BY <1>2, <2>1, Zenon DEF IInv, TypeOK, RowsOK
  <2>3. s = SBOMOf(req[p])
    BY <2>2, Zenon DEF IInv, TypeOK, RowsOK
  <2>4. s.ref = Job(p).ref
    BY <2>3, Zenon DEF SBOMOf, Job
  <2>5. i.id \in hits
    BY <1>2, <2>3, Zenon DEF retroactiveMatch, Matches
  <2> HIDE DEF hits
  <2> QED
    BY <2>4, <2>5, Zenon
<1> HIDE DEF pairs, events
<1> QED
  BY <1>1, <1>2, StartOpeningStep, Zenon

LEMMA StoredSBOMsParsed ==
    ASSUME TypeOK
    PROVE  \A s \in sboms : ParsedSBOM(s)
<1>1. \A s \in sboms : requests[s.id].lock \in Lockfiles /\ s = SBOMOf(s.id)
  BY RequestFields DEF TypeOK, RowsOK
<1>2. \A s \in sboms : s.eco = requests[s.id].lock.eco /\ s.pkgs = requests[s.id].lock.pkgs
  BY <1>1 DEF SBOMOf
<1> QED
  BY <1>1, <1>2, SubmissionAssumptions DEF SubmissionAssumptions, ParsedSBOM

(* forwardMatch finds every stored SBOM the IoC accepts. *)
LEMMA LookupPackagesStep ==
    ASSUME IInv, NEW p \in Procs, LookupPackages(p)
    PROVE  LocalStep(p)
<1> DEFINE hits == forwardMatch(Backend, Job(p).body, sboms)
           pairs == { matchPair(Job(p).id, r) : r \in hits }
           events == MatchedOnce(Job(p).id, hits)
<1>1. /\ pc[p] # "idle" /\ StartOpening(p, pairs, events)
      /\ UNCHANGED <<store, req, toScan, open, note, requests, outcomes, incidents, log>>
  BY Zenon DEF LookupPackages
<1>2. ASSUME NEW s \in sboms, NEW i \in iocs, Matches(s, i), req[p] \in {s.id, i.by}
      PROVE  matchPair(i.id, s.ref) \in pairs
  <2>1. requests[req[p]].op = "ioc"
    BY Zenon DEF LookupPackages, Job
  <2>2. req[p] = i.by
    BY <1>2, <2>1, Zenon DEF IInv, TypeOK, RowsOK
  <2>3. i = IoCOf(req[p])
    BY <2>2, Zenon DEF IInv, TypeOK, RowsOK
  <2>4. i.id = Job(p).id /\ i.body = Job(p).body
    BY <2>3, Zenon DEF IoCOf, Job
  <2>5. \A t \in sboms : ParsedSBOM(t)
    BY StoredSBOMsParsed, Zenon DEF IInv
  <2>6. hits = { t.ref : t \in { u \in sboms : Evaluate(i.body, u) } }
    BY <1>2, <2>4, <2>5, ForwardMatchIsEvaluate DEF Matches
  <2>7. s.ref \in hits
    BY <1>2, <2>6, Zenon DEF Matches
  <2> HIDE DEF hits
  <2> QED
    BY <2>4, <2>7, Zenon
<1> HIDE DEF pairs, events
<1> QED
  BY <1>1, <1>2, StartOpeningStep, Zenon

(* The component-by-component scan has looked at every component by then. *)
LEMMA FinishScanStep ==
    ASSUME IInv, NEW p \in Procs, FinishScan(p)
    PROVE  LocalStep(p)
<1> DEFINE events == MatchedOnce(Job(p).id, { pair.ref : pair \in todo[p] })
<1>1. /\ pc[p] = "scan" /\ toScan[p] = {} /\ StartOpening(p, todo[p], events)
      /\ UNCHANGED <<store, req, toScan, open, note, requests, outcomes, incidents, log>>
  BY Zenon DEF FinishScan
<1>2. \A pair : StillOwes(p, pair) => pair \in todo[p]
  BY <1>1, Zenon DEF StillOwes
<1> HIDE DEF events
<1> QED
  BY <1>1, <1>2, StartOpeningStep, Zenon

LEMMA ListComponentsStep ==
    ASSUME IInv, NEW p \in Procs, ListComponents(p)
    PROVE  LocalStep(p)
<1>1. /\ pc'[p] = "scan" /\ toScan'[p] = components
      /\ \A q \in Procs : q # p => pc'[q] = pc[q] /\ toScan'[q] = toScan[q]
      /\ UNCHANGED <<sboms, iocs, requests, req, todo, open, acked, failed, incidents>>
  BY Zenon DEF IInv, TypeOK, HandlersOK, ListComponents, Goto, store, outcomes
<1>2. OthersKept(p) /\ Outcome(p) /\ RowsStored(p)
  BY <1>1, Zenon DEF OthersKept, Outcome, RowsStored
<1>3. DebtKept(p)
  <2>1. \A s \in sboms : \A i : matchPair(i, s.ref).ref \in toScan'[p]
    BY <1>1, Zenon DEF IInv, TypeOK, RowsOK, matchPair
  <2> QED
    BY <1>1, <2>1, Zenon DEF DebtKept, StillOwes
<1> QED
  BY <1>1, <1>2, <1>3, SameIncidents, Zenon DEF LocalStep

LEMMA ListSBOMsStep ==
    ASSUME IInv, NEW p \in Procs, NEW c \in toScan[p], ListSBOMsByComponent(p, c)
    PROVE  LocalStep(p)
<1> DEFINE pairs == { matchPair(Job(p).id, s.ref) :
                        s \in { t \in sboms : t.ref = c /\ Evaluate(Job(p).body, t) } }
<1>1. /\ pc[p] = "scan" /\ toScan'[p] = toScan[p] \ {c} /\ todo'[p] = todo[p] \cup pairs
      /\ \A q \in Procs : q # p => toScan'[q] = toScan[q] /\ todo'[q] = todo[q]
      /\ UNCHANGED <<pc, sboms, iocs, requests, req, open, acked, failed, incidents>>
  BY Zenon DEF IInv, TypeOK, HandlersOK, ListSBOMsByComponent, store, outcomes
<1>2. OthersKept(p) /\ Outcome(p) /\ RowsStored(p)
  BY <1>1, Zenon DEF OthersKept, Outcome, RowsStored
<1>3. ASSUME NEW s \in sboms, NEW i \in iocs, Matches(s, i), req[p] \in {s.id, i.by}, s.ref = c
      PROVE  matchPair(i.id, s.ref) \in pairs
  <2>1. requests[req[p]].op = "forward"
    BY <1>1, Zenon DEF IInv, TypeOK, HandlersOK, Job
  <2>2. req[p] = i.by
    BY <1>3, <2>1, Zenon DEF IInv, TypeOK, RowsOK
  <2>3. i = IoCOf(req[p])
    BY <2>2, Zenon DEF IInv, TypeOK, RowsOK
  <2>4. i.id = Job(p).id /\ i.body = Job(p).body
    BY <2>3, Zenon DEF IoCOf, Job
  <2> QED
    BY <1>3, <2>4, Zenon DEF Matches
<1>4. DebtKept(p)
  <2> HIDE DEF pairs
  <2>1. \A i, s : matchPair(i, s).ref = s
    BY Zenon DEF matchPair
  <2>2. ASSUME NEW s \in sboms, NEW i \in iocs, Matches(s, i), req[p] \in {s.id, i.by},
               StillOwes(p, matchPair(i.id, s.ref))
        PROVE  pc'[p] # "idle" /\ StillOwes(p, matchPair(i.id, s.ref))'
    <3>1. matchPair(i.id, s.ref)' = matchPair(i.id, s.ref) /\ pc'[p] = "scan"
      BY <1>1, Zenon DEF matchPair
    <3>2. s.ref \in toScan[p] \/ matchPair(i.id, s.ref) \in todo[p]
      BY <1>1, <2>1, <2>2, Zenon DEF StillOwes
    <3>3. s.ref = c => matchPair(i.id, s.ref) \in todo'[p]
      BY <1>1, <1>3, <2>2, Zenon
    <3>4. s.ref \in toScan'[p] \/ matchPair(i.id, s.ref) \in todo'[p]
      BY <1>1, <3>2, <3>3, Zenon
    <3> QED
      BY <2>1, <3>1, <3>4, Zenon DEF StillOwes
  <2> QED
    BY <2>2, Zenon DEF DebtKept
<1> QED
  BY <1>1, <1>2, <1>4, SameIncidents, Zenon DEF LocalStep

LEMMA ListIncidentsStep ==
    ASSUME IInv, NEW p \in Procs, ListIncidents(p)
    PROVE  LocalStep(p)
<1>1. /\ pc[p] = "index" /\ pc'[p] = "open" /\ open'[p] = OpenPairs
      /\ \A q \in Procs : q # p => pc'[q] = pc[q] /\ open'[q] = open[q]
      /\ UNCHANGED <<sboms, iocs, requests, req, toScan, todo, acked, failed, incidents>>
  BY Zenon DEF IInv, TypeOK, HandlersOK, ListIncidents, Goto, store, outcomes
<1>2. OthersKept(p) /\ Outcome(p) /\ RowsStored(p)
  BY <1>1, Zenon DEF OthersKept, Outcome, RowsStored
<1>3. DebtKept(p)
  BY <1>1, Zenon DEF DebtKept, StillOwes
<1>4. \A pair \in OpenPairs : HasIncident(pair.ioc, pair.ref)
  BY DEF OpenPairs, HasIncident, matchPair
<1> QED
  BY <1>1, <1>2, <1>3, <1>4, SameIncidents, Zenon DEF LocalStep

(* A skipped pair is in the index, so it has an incident. *)
LEMMA SkipPairStep ==
    ASSUME IInv, NEW p \in Procs, NEW pair \in todo[p], SkipPair(p, pair)
    PROVE  LocalStep(p)
<1>1. /\ pc[p] = "open" /\ pair \in open[p] /\ todo'[p] = todo[p] \ {pair}
      /\ \A q \in Procs : q # p => todo'[q] = todo[q]
      /\ UNCHANGED <<pc, sboms, iocs, requests, req, toScan, open, acked, failed, incidents>>
  BY Zenon DEF IInv, TypeOK, HandlersOK, SkipPair, store, outcomes
<1>2. OthersKept(p) /\ Outcome(p) /\ RowsStored(p)
  BY <1>1, Zenon DEF OthersKept, Outcome, RowsStored
<1>3. \A other \in open[p] : HasIncident(other.ioc, other.ref)'
  BY <1>1, SameIncidents, Zenon DEF IInv, IndexSound
<1>4. DebtKept(p)
  <2>1. \A i, r : matchPair(i, r) = pair => HasIncident(i, r)'
    BY <1>1, <1>3 DEF matchPair
  <2> QED
    BY <1>1, <2>1, Zenon DEF DebtKept, StillOwes
<1> QED
  BY <1>1, <1>2, <1>3, <1>4, SameIncidents, Zenon DEF LocalStep

(* Opening an incident for a pair settles it; failing to leaves it to the  *)
(* failed request.                                                         *)
LEMMA OpenIncidentStep ==
    ASSUME IInv, NEW p \in Procs, NEW pair \in todo[p], NEW ok \in BOOLEAN, OpenIncident(p, pair, ok)
    PROVE  LocalStep(p)
<1> DEFINE row == NewIncident(pair.ioc, pair.ref, req[p])
<1>1. /\ pc[p] = "open" /\ todo'[p] = todo[p] \ {pair} /\ open'[p] = open[p] \cup {pair}
      /\ \A q \in Procs : q # p => todo'[q] = todo[q] /\ open'[q] = open[q]
      /\ UNCHANGED <<sboms, iocs, requests, req, toScan>>
  BY Zenon DEF IInv, TypeOK, HandlersOK, OpenIncident, store
<1>2. /\ Outcome(p) /\ pc'[p] \in {"announce", "idle"}
      /\ \A q \in Procs : q # p => pc'[q] = pc[q]
      /\ req[p] \in failed' \/ (ok /\ pc'[p] = "announce")
  BY Zenon DEF IInv, TypeOK, HandlersOK, OpenIncident, Outcome, Proceed, Goto, Fail, outcomes
<1>3. incidents' = Append(incidents, row) \/ (incidents' = incidents /\ ~ok)
  BY Zenon DEF OpenIncident, WriteOutcomes
<1>4. IncidentsGrow
  BY <1>3 DEF IInv, TypeOK, IncidentsGrow, SameIncident
<1>5. incidents' = Append(incidents, row) => HasIncident(pair.ioc, pair.ref)'
  <2> SUFFICES ASSUME incidents' = Append(incidents, row)
               PROVE  HasIncident(pair.ioc, pair.ref)'
    BY Zenon
  <2>1. row.ioc = pair.ioc /\ row.ref = pair.ref
    BY Zenon DEF NewIncident
  <2> HIDE DEF row
  <2>2. Len(incidents) + 1 \in DOMAIN incidents' /\ incidents'[Len(incidents) + 1] = row
    BY DEF IInv, TypeOK
  <2> QED
    BY <2>1, <2>2, Zenon DEF HasIncident
<1>6. OthersKept(p) /\ RowsStored(p)
  BY <1>1, <1>2, Zenon DEF OthersKept, RowsStored
<1>7. \A other \in open[p] : HasIncident(other.ioc, other.ref)'
  BY <1>1, <1>4, GrowKeepsIncident, Zenon DEF IInv, IndexSound
<1>8. pc'[p] = "announce" => \A other \in open'[p] : HasIncident(other.ioc, other.ref)'
  <2>1. pc'[p] = "announce" => ok
    BY <1>2, Zenon DEF OpenIncident, Proceed, Goto, Fail, IInv, TypeOK, HandlersOK
  <2> QED
    BY <1>1, <1>3, <1>5, <1>7, <2>1, Zenon
<1>9. DebtKept(p)
  <2>1. \A i, r : matchPair(i, r) = pair => i = pair.ioc /\ r = pair.ref
    BY DEF matchPair
  <2>2. req[p] \in failed' \/ (pc'[p] # "idle" /\ HasIncident(pair.ioc, pair.ref)')
    BY <1>2, <1>3, <1>5, Zenon
  <2>3. ASSUME NEW s \in sboms, NEW i \in iocs, StillOwes(p, matchPair(i.id, s.ref))
        PROVE  \/ HasIncident(i.id, s.ref)'
               \/ req[p] \in failed'
               \/ pc'[p] # "idle" /\ StillOwes(p, matchPair(i.id, s.ref))'
    <3>1. matchPair(i.id, s.ref) \in todo[p] /\ matchPair(i.id, s.ref)' = matchPair(i.id, s.ref)
      BY <1>1, <2>3, Zenon DEF StillOwes, matchPair
    <3>2. CASE matchPair(i.id, s.ref) = pair
      BY <2>1, <2>2, <3>2, Zenon
    <3>3. CASE matchPair(i.id, s.ref) # pair
      <4>1. matchPair(i.id, s.ref) \in todo'[p]
        BY <1>1, <3>1, <3>3, Zenon
      <4> QED
        BY <2>2, <3>1, <4>1, Zenon DEF StillOwes
    <3> QED
      BY <3>2, <3>3, Zenon
  <2> QED
    BY <2>3, Zenon DEF DebtKept
<1> QED
  BY <1>2, <1>4, <1>6, <1>8, <1>9, Zenon DEF LocalStep

LEMMA EndStep ==
    ASSUME IInv, NEW p \in Procs, Respond(p) \/ ReadError(p)
    PROVE  LocalStep(p)
<1>1. /\ pc'[p] = "idle" /\ \A q \in Procs : q # p => pc'[q] = pc[q]
      /\ UNCHANGED <<sboms, iocs, requests, req, toScan, todo, open, incidents>>
      /\ Outcome(p)
      /\ req[p] \in failed' \/ pc[p] = "matched"
  BY Zenon DEF IInv, TypeOK, HandlersOK, Respond, ReadError, Fail, Goto, Outcome, store, locals
<1>2. OthersKept(p) /\ RowsStored(p)
  BY <1>1, Zenon DEF OthersKept, RowsStored
<1>3. DebtKept(p)
  BY <1>1, Zenon DEF IInv, NothingLeftAtEnd, DebtKept, StillOwes
<1> QED
  BY <1>1, <1>2, <1>3, SameIncidents, Zenon DEF LocalStep

LEMMA HandlerLocal ==
    ASSUME IInv, NEW p \in Procs, Handler(p)
    PROVE  p \in InFlight /\ LocalStep(p)
<1>1. p \in InFlight
  BY ZenonT(30) DEF Handler, InFlight, UpsertSBOM, UpsertIoC, PublishIngested, ListIoCs, LookupPackages,
     ListComponents, ListSBOMsByComponent, FinishScan, ListIncidents, SkipPair, OpenIncident,
     PublishOpened, FinishOpening, PublishMatched, Respond, ReadError
<1>2. LocalStep(p)
  BY UpsertSBOMStep, UpsertIoCStep, PublishStep, ListIoCsStep, LookupPackagesStep,
     ListComponentsStep, ListSBOMsStep, FinishScanStep, ListIncidentsStep, SkipPairStep,
     OpenIncidentStep, EndStep, Zenon DEF Handler
<1> QED
  BY <1>1, <1>2, Zenon

LEMMA HandlerIInv ==
    ASSUME IInv, NEW p \in Procs, Handler(p), UNCHANGED triageVars
    PROVE  IInv'
<1>1. TypeOK'
  BY SubNextType, Zenon DEF IInv, SubNext
<1> QED
  BY <1>1, HandlerLocal, LocalStepIInv, Zenon

-----------------------------------------------------------------------------
(* The steps that are nobody's handler's. *)

(* Debts survive a step that keeps the handlers in flight as they are. *)
LEMMA OwesKept ==
    ASSUME NEW r, NEW pair, Owes(r, pair), failed \subseteq failed',
           \A q \in InFlight : /\ pc'[q] = pc[q] /\ req'[q] = req[q]
                              /\ toScan'[q] = toScan[q] /\ todo'[q] = todo[q]
    PROVE  Owes(r, pair)'
  BY Zenon DEF Owes, InFlight, StillOwes

LEMMA RequestAccepts ==
    ASSUME NEW p \in Procs, Request(p)
    PROVE  \E r \in Requests : Accept(p, r)
  BY Zenon DEF Request, SubmitSBOM, SubmitIoC, ForwardSubmit, Requests, SBOMRequests,
     IoCRequests, ForwardRequests

LEMMA AcceptIInv ==
    ASSUME IInv, NEW p \in Procs, NEW r \in Requests, Accept(p, r), TypeOK', UNCHANGED triageVars
    PROVE  IInv'
<1>1. /\ pc[p] = "idle" /\ pc'[p] = "store" /\ req'[p] = Len(requests) + 1
      /\ \A q \in Procs : q # p => /\ pc'[q] = pc[q] /\ req'[q] = req[q] /\ toScan'[q] = toScan[q]
                                   /\ todo'[q] = todo[q] /\ open'[q] = open[q]
      /\ UNCHANGED <<sboms, iocs, acked, failed, incidents>>
  BY DEF IInv, TypeOK, HandlersOK, Accept, Goto, store, outcomes
<1>2. Len(requests) + 1 \notin DOMAIN requests
  BY DEF IInv, TypeOK, RowsOK
<1>3. RequestsExclusive'
  <2>1. \A q \in InFlight : req[q] \in DOMAIN requests
    BY Zenon DEF IInv, TypeOK, HandlersOK
  <2>2. acked \subseteq DOMAIN requests /\ failed \subseteq DOMAIN requests
    BY Zenon DEF IInv, TypeOK, RowsOK
  <2>3. \A q \in InFlight' : q = p \/ (q \in InFlight /\ q # p)
    BY <1>1, Zenon DEF InFlight
  <2>4. \A q \in InFlight' : q # p => req'[q] \in DOMAIN requests
    BY <1>1, <2>1, <2>3, Zenon DEF InFlight
  <2>5. \A q \in InFlight' : req'[q] \notin acked' \cup failed'
    BY <1>1, <1>2, <2>2, <2>3, <2>4, Zenon DEF IInv, RequestsExclusive, InFlight
  <2>6. \A q, v \in InFlight' : req'[q] = req'[v] => q = v
    BY <1>1, <1>2, <2>3, <2>4 DEF IInv, RequestsExclusive, InFlight
  <2> QED
    BY <1>1, <2>5, <2>6, Zenon DEF IInv, RequestsExclusive
<1>4. NothingLeftAtEnd' /\ IndexSound'
  BY <1>1, SameIncidents, Zenon DEF IInv, NothingLeftAtEnd, IndexSound
<1>5. CopiesSound'
  BY <1>1, Zenon DEF IInv, CopiesSound, triageVars
<1>6. MatchesCovered'
  <2> SUFFICES ASSUME NEW s \in sboms, NEW i \in iocs, Covered(s, i)
               PROVE  Covered(s, i)'
    BY <1>1, Zenon DEF IInv, MatchesCovered, Matches
  <2> QED
    BY <1>1, SameIncidents, OwesKept, Zenon DEF Covered, InFlight
<1> QED
  BY <1>3, <1>4, <1>5, <1>6, ZenonT(30) DEF IInv

(* A step that changes no handler, no stored row and no outcome. *)
LEMMA QuietIInv ==
    ASSUME IInv, TypeOK', CopiesSound', IncidentsGrow,
           UNCHANGED <<sboms, iocs, requests, pc, req, toScan, todo, open, acked, failed>>
    PROVE  IInv'
<1>1. RequestsExclusive' /\ NothingLeftAtEnd'
  BY Zenon DEF IInv, RequestsExclusive, NothingLeftAtEnd, InFlight
<1>2. IndexSound'
  BY GrowKeepsIncident, Zenon DEF IInv, IndexSound
<1>3. MatchesCovered'
  <2> SUFFICES ASSUME NEW s \in sboms, NEW i \in iocs, Covered(s, i)
               PROVE  Covered(s, i)'
    BY Zenon DEF IInv, MatchesCovered, Matches
  <2> QED
    BY GrowKeepsIncident, OwesKept, Zenon DEF Covered
<1> QED
  BY <1>1, <1>2, <1>3, Zenon DEF IInv

(* Triage keeps what incidents are about: a transition writes a copy of the *)
(* row it overwrites.                                                       *)
LEMMA TriageGrow ==
    ASSUME IInv, TriageNext
    PROVE  IncidentsGrow
<1>1. ASSUME NEW o \in Operators, NEW ok \in BOOLEAN, WriteTransition(o, ok)
      PROVE  IncidentsGrow
  <2>1. /\ task[o].inc \in DOMAIN incidents
        /\ task[o].copy \in Incident /\ incidents[task[o].inc] \in Incident
        /\ SameIncident(task[o].copy, incidents[task[o].inc])
    BY <1>1 DEF IInv, TypeOK, OperatorsOK, CopiesSound, WriteTransition, TransitionTasks
  <2>2. CASE UpsertIncident(task[o].inc, task[o].copy)
    <3>1. SameIncident(UpsertedRow(incidents[task[o].inc], task[o].copy), incidents[task[o].inc])
      BY <2>1, Zenon DEF UpsertedRow, SameIncident, Incident
    <3> QED
      BY <2>1, <2>2, <3>1, Zenon DEF IInv, TypeOK, UpsertIncident, IncidentsGrow, SameIncident
  <2> QED
    BY <1>1, <2>2, SameIncidents, Zenon DEF WriteTransition
<1>2. ASSUME NEW o \in Operators, NEW ok \in BOOLEAN, AddRemediation(o, ok)
      PROVE  IncidentsGrow
  <2>1. task[o].inc \in DOMAIN incidents /\ \A n \in DOMAIN incidents : incidents[n] \in Incident
    <3>1. tpc[o] = "append"
      BY <1>2, Zenon DEF AddRemediation
    <3>2. task[o].inc \in DOMAIN incidents
      BY <3>1, Zenon DEF IInv, TypeOK, OperatorsOK
    <3> QED
      BY <3>2 DEF IInv, TypeOK
  <2>2. CASE AppendRemediation(task[o].inc, task[o].rem)
    BY <2>1, <2>2, Zenon DEF AppendRemediation, IncidentsGrow, SameIncident, Incident
  <2> QED
    BY <1>2, <2>2, SameIncidents, Zenon DEF AddRemediation
<1>3. UNCHANGED incidents => IncidentsGrow
  BY SameIncidents, Zenon
<1> QED
  BY <1>1, <1>2, <1>3, Zenon DEF TriageNext, TriageRequest, TriageHandler, GetIncident, BeginRemediation,
     TAccept, PublishTransitioned, PublishRemediationAdded

(* Only submissions open incidents. *)
LEMMA TriageDomain ==
    ASSUME IInv, TriageNext
    PROVE  DOMAIN incidents' = DOMAIN incidents
  BY Zenon DEF IInv, TypeOK, TriageNext, TriageRequest, TriageHandler, GetIncident, BeginRemediation,
     TAccept, WriteTransition, UpsertIncident, AddRemediation, AppendRemediation,
     PublishTransitioned, PublishRemediationAdded

LEMMA TriageCopies ==
    ASSUME IInv, TriageNext
    PROVE  CopiesSound'
<1>1. IncidentsGrow
  BY TriageGrow, Zenon
<1>2. ASSUME NEW o \in Operators, NEW n \in DOMAIN incidents, NEW to \in IncidentStates,
             GetIncident(o, n, to)
      PROVE  CopiesSound'
  <2> DEFINE t == [inc |-> n, from |-> incidents[n].state, copy |-> Transition(incidents[n], to)]
  <2>1. incidents[n] \in Incident
    BY DEF IInv, TypeOK
  <2>2. SameIncident(t.copy, incidents[n]) /\ t.inc = n
    BY <2>1, Zenon DEF SameIncident, Transition, Incident
  <2>3. task' = [task EXCEPT ![o] = t] /\ tpc' = [tpc EXCEPT ![o] = "write"] /\ UNCHANGED incidents
    BY <1>2, Zenon DEF GetIncident, TAccept, TGoto
  <2> HIDE DEF t
  <2> QED
    BY <2>2, <2>3, Zenon DEF IInv, TypeOK, OperatorsOK, CopiesSound
<1>3. ASSUME NEW o \in Operators, NEW n \in DOMAIN incidents, BeginRemediation(o, n)
      PROVE  CopiesSound'
  BY <1>3, Zenon DEF IInv, TypeOK, OperatorsOK, CopiesSound, BeginRemediation, TAccept, TGoto
<1>4. ASSUME NEW o \in Operators, TriageHandler(o)
      PROVE  CopiesSound'
  <2>1. UNCHANGED task /\ \A q \in Operators : tpc'[q] = "write" => tpc[q] = "write"
    BY <1>4, Zenon DEF IInv, TypeOK, OperatorsOK, TriageHandler, WriteTransition, AddRemediation, TProceed,
       PublishTransitioned, PublishRemediationAdded, TGoto
  <2>2. \A q \in Operators : tpc[q] = "write" => task[q].inc \in DOMAIN incidents
    BY Zenon DEF IInv, TypeOK, OperatorsOK
  <2> QED
    BY <1>1, <2>1, <2>2 DEF IInv, CopiesSound, IncidentsGrow, SameIncident
<1> QED
  BY <1>2, <1>3, <1>4, Zenon DEF TriageNext, TriageRequest

LEMMA RestartIInv ==
    ASSUME IInv, Restart
    PROVE  IInv'
<1>1. /\ failed' = failed \cup { req[p] : p \in InFlight } /\ UNCHANGED acked
      /\ pc' = [p \in Procs |-> "idle"] /\ tpc' = [o \in Operators |-> "idle"]
  BY Zenon DEF Restart
<1>2. InFlight' = {}
  BY <1>1, Zenon DEF InFlight
<1>3. RequestsExclusive' /\ NothingLeftAtEnd' /\ IndexSound' /\ CopiesSound'
  BY <1>1, <1>2, Zenon DEF IInv, RequestsExclusive, NothingLeftAtEnd, IndexSound, CopiesSound
<1>4. MatchesCovered'
  <2>1. CASE Backend = "memory"
    BY <2>1, Zenon DEF Restart, MatchesCovered
  <2>2. CASE Backend # "memory"
    <3>1. UNCHANGED <<sboms, iocs, incidents>>
      BY <2>2, Zenon DEF Restart, store
    <3>2. \A r, pair : Owes(r, pair) => Owes(r, pair)'
      BY <1>1, Zenon DEF Owes
    <3> QED
      BY <3>1, <3>2, SameIncidents, Zenon DEF IInv, MatchesCovered, Covered, Matches
  <2> QED
    BY <2>1, <2>2, Zenon
<1> QED
  BY <1>3, <1>4, RestartType, Zenon DEF IInv

LEMMA InitIInv ==
    ASSUME Init
    PROVE  IInv
  BY InitType, Zenon DEF Init, SubInit, TriageInit, IInv, RequestsExclusive, NothingLeftAtEnd, IndexSound,
     CopiesSound, MatchesCovered, InFlight

LEMMA NextIInv ==
    ASSUME IInv, [Next]_vars
    PROVE  IInv'
<1>1. TypeOK'
  BY NextType, Zenon DEF IInv
<1>2. CASE SubNext /\ UNCHANGED triageVars
  <2>1. ASSUME NEW ref \in Refs, UpsertComponent(ref)
        PROVE  IInv'
    <3>1. UNCHANGED <<sboms, iocs, requests, pc, req, toScan, todo, open, acked, failed, incidents>>
      BY <2>1, Zenon DEF UpsertComponent, locals, outcomes
    <3>2. CopiesSound'
      BY <1>2, <3>1, Zenon DEF IInv, CopiesSound, triageVars
    <3> QED
      BY <1>1, <3>1, <3>2, SameIncidents, QuietIInv, Zenon
  <2>2. ASSUME NEW p \in Procs, Request(p)
        PROVE  IInv'
    BY <1>1, <1>2, <2>2, RequestAccepts, AcceptIInv, Zenon
  <2>3. ASSUME NEW p \in Procs, Handler(p)
        PROVE  IInv'
    BY <1>2, <2>3, HandlerIInv, Zenon
  <2> QED
    BY <1>2, <2>1, <2>2, <2>3, Zenon DEF SubNext
<1>3. CASE TriageNext /\ UNCHANGED subVars
  <2>1. UNCHANGED <<sboms, iocs, requests, pc, req, toScan, todo, open, acked, failed>>
    BY <1>3, Zenon DEF subVars, store, locals
  <2> QED
    BY <1>1, <1>3, <2>1, TriageGrow, TriageCopies, QuietIInv, Zenon
<1>4. CASE Restart
  BY <1>4, RestartIInv, Zenon
<1>5. CASE UNCHANGED vars
  <2>1. UNCHANGED <<sboms, iocs, requests, pc, req, toScan, todo, open, acked, failed, incidents, tpc, task>>
    BY <1>5, Zenon DEF vars, subVars, triageVars, store, locals
  <2>2. CopiesSound'
    BY <2>1, Zenon DEF IInv, CopiesSound
  <2> QED
    BY <1>1, <2>1, <2>2, SameIncidents, QuietIInv, Zenon
<1> QED
  BY <1>2, <1>3, <1>4, <1>5, Zenon DEF Next

LEMMA Invariant == Spec => []IInv
  BY InitIInv, NextIInv, PTL DEF Spec

(* Two-directional matching misses nothing: SubmitSBOM stores before it    *)
(* lists the IoCs, SubmitIoC and iocforward.Submit store before they look  *)
(* at the SBOMs, so of two matching submissions that are both answered     *)
(* with success one saw the other, and it opened an incident or found one. *)
THEOREM NoMissedMatch == Spec => []AckedMatchesOpened
<1>1. IInv => AckedMatchesOpened
  <2> SUFFICES ASSUME IInv, NEW s \in sboms, NEW i \in iocs, s.id \in acked, i.by \in acked,
                      Matches(s, i)
               PROVE  HasIncident(i.id, s.ref)
    BY Zenon DEF AckedMatchesOpened, Matches
  <2>1. \A r \in acked : \A pair : ~Owes(r, pair)
    BY Zenon DEF IInv, RequestsExclusive, Owes
  <2> QED
    BY <2>1, Zenon DEF IInv, MatchesCovered, Covered
<1> QED
  BY <1>1, Invariant, PTL

(* No step changes which IoC and component an existing incident is about,  *)
(* or which request opened it, although TransitionIncident writes back a   *)
(* row it read an arbitrary number of steps before.                        *)
THEOREM IdentityFrozen == Spec => IncidentIdentityFrozen
<1> DEFINE Kept == \A n \in DOMAIN incidents \cap DOMAIN incidents' :
                     /\ incidents'[n].ioc = incidents[n].ioc
                     /\ incidents'[n].ref = incidents[n].ref
                     /\ incidents'[n].by = incidents[n].by
<1>1. IInv /\ [Next]_vars => [Kept]_vars
  <2> SUFFICES ASSUME IInv, Next
               PROVE  Kept
    BY Zenon
  <2>1. IncidentsGrow => Kept
    BY Zenon DEF IncidentsGrow, SameIncident
  <2>2. CASE SubNext
    <3>1. ASSUME NEW p \in Procs, Handler(p)
          PROVE  IncidentsGrow
      BY <3>1, HandlerLocal, Zenon DEF LocalStep
    <3>2. ASSUME NEW p \in Procs, Request(p)
          PROVE  UNCHANGED incidents
      BY <3>2, RequestAccepts, Zenon DEF Accept
    <3>3. ASSUME NEW ref \in Refs, UpsertComponent(ref)
          PROVE  UNCHANGED incidents
      BY <3>3, Zenon DEF UpsertComponent
    <3> QED
      BY <2>1, <2>2, <3>1, <3>2, <3>3, Zenon DEF SubNext
  <2>3. CASE TriageNext
    BY <2>1, <2>3, TriageGrow, Zenon
  <2>4. CASE Restart
    <3>1. incidents' = <<>> \/ UNCHANGED incidents
      BY <2>4, Zenon DEF Restart
    <3> QED
      BY <3>1
  <2> QED
    BY <2>2, <2>3, <2>4, Zenon DEF Next
<1> QED
  BY <1>1, Invariant, PTL DEF Spec, IncidentIdentityFrozen

-----------------------------------------------------------------------------
(* Matches behind incidents. *)

Justified(ioc, ref) ==
    \E s \in sboms, r \in DOMAIN requests :
      /\ s.ref = ref
      /\ requests[r].op # "sbom" /\ requests[r].id = ioc
      /\ Evaluate(requests[r].body, s)

(* SubmitSBOM evaluates a row it has stored. *)
StoredFirst ==
    \A p \in InFlight : Job(p).op = "sbom" /\ pc[p] # "store" => SBOMOf(req[p]) \in sboms

(* The pairs openIncidentsForMatches has still to open are matches. *)
TodoJustified == \A p \in InFlight : \A pair \in todo[p] : Justified(pair.ioc, pair.ref)

MatchInv == IInv /\ StoredFirst /\ TodoJustified /\ IncidentsJustified

(* What a handler's step has to respect to keep that. *)
MatchStep(p) ==
    /\ sboms \subseteq sboms'
    /\ pc'[p] # "idle" =>
         /\ Job(p).op = "sbom" /\ pc'[p] # "store" => SBOMOf(req[p]) \in sboms'
         /\ \A pair \in todo'[p] : pair \in todo[p] \/ Justified(pair.ioc, pair.ref)
    /\ \A n \in DOMAIN incidents' \ DOMAIN incidents :
         \E pair \in todo[p] : incidents'[n].ioc = pair.ioc /\ incidents'[n].ref = pair.ref

(* SBOMs and requests are only added. *)
RowsGrow ==
    /\ sboms \subseteq sboms'
    /\ \A r \in DOMAIN requests : r \in DOMAIN requests' /\ requests'[r] = requests[r]

LEMMA JustifiedKept ==
    ASSUME RowsGrow
    PROVE  \A ioc, ref : Justified(ioc, ref) => Justified(ioc, ref)'
  BY Zenon DEF RowsGrow, Justified

LEMMA IncidentsJustifiedKept ==
    ASSUME MatchInv, RowsGrow, IncidentsGrow,
           \A n \in DOMAIN incidents' \ DOMAIN incidents :
             Justified(incidents'[n].ioc, incidents'[n].ref)
    PROVE  IncidentsJustified'
<1>1. \A n \in DOMAIN incidents : Justified(incidents[n].ioc, incidents[n].ref)
  BY Zenon DEF MatchInv, IncidentsJustified, Justified
<1>2. \A n \in DOMAIN incidents' : Justified(incidents'[n].ioc, incidents'[n].ref)
  BY <1>1, Zenon DEF IncidentsGrow, SameIncident
<1>3. \A n \in DOMAIN incidents' : Justified(incidents[n].ioc, incidents[n].ref)'
  BY <1>2, JustifiedKept, Zenon
<1> QED
  BY <1>3, Zenon DEF IncidentsJustified, Justified

LEMMA MatchStepInv ==
    ASSUME MatchInv, NEW p \in InFlight, LocalStep(p), MatchStep(p), IInv'
    PROVE  MatchInv'
<1>1. /\ UNCHANGED <<requests, req>> /\ IncidentsGrow
      /\ \A q \in Procs : q # p => pc'[q] = pc[q] /\ todo'[q] = todo[q]
  BY Zenon DEF LocalStep, OthersKept
<1>2. RowsGrow
  BY <1>1, Zenon DEF MatchStep, RowsGrow
<1>3. \A q \in InFlight' : q = p \/ (q \in InFlight /\ q # p)
  BY <1>1, Zenon DEF InFlight
<1>4. \A q \in Procs : Job(q)' = Job(q) /\ SBOMOf(req[q])' = SBOMOf(req[q])
  BY <1>1, Zenon DEF Job, SBOMOf
<1>5. StoredFirst'
  BY <1>1, <1>2, <1>3, <1>4 DEF MatchInv, StoredFirst, MatchStep, InFlight, RowsGrow
<1>6. \A pair \in todo[p] : Justified(pair.ioc, pair.ref)
  BY Zenon DEF MatchInv, TodoJustified
<1>7. TodoJustified'
  <2> SUFFICES ASSUME NEW q \in InFlight', NEW pair \in todo'[q]
               PROVE  Justified(pair.ioc, pair.ref)'
    BY Zenon DEF TodoJustified
  <2>1. Justified(pair.ioc, pair.ref)
    BY <1>1, <1>3, <1>6, Zenon DEF MatchInv, TodoJustified, MatchStep, InFlight
  <2> QED
    BY <1>2, <2>1, JustifiedKept, Zenon
<1>8. IncidentsJustified'
  BY <1>1, <1>2, <1>6, IncidentsJustifiedKept, Zenon DEF MatchStep
<1> QED
  BY <1>5, <1>7, <1>8, Zenon DEF MatchInv

(* UpsertSBOM reports success only after it has written. *)
LEMMA StoreMatchStep ==
    ASSUME MatchInv, NEW p \in Procs, NEW ok \in BOOLEAN, UpsertSBOM(p, ok) \/ UpsertIoC(p, ok)
    PROVE  MatchStep(p)
<1>1. UNCHANGED <<todo, incidents>>
  BY Zenon DEF UpsertSBOM, UpsertIoC, locals
<1>2. CASE UpsertSBOM(p, ok)
  <2>1. sboms \subseteq sboms' /\ (ok => SBOMOf(req[p]) \in sboms')
    BY <1>2, Zenon DEF UpsertSBOM, WriteOutcomes
  <2>2. pc'[p] # "idle" => ok
    BY <1>2, Zenon DEF UpsertSBOM, Proceed, Fail, Goto, MatchInv, IInv, TypeOK, HandlersOK
  <2> QED
    BY <1>1, <2>1, <2>2, Zenon DEF MatchStep
<1>3. CASE UpsertIoC(p, ok)
  BY <1>1, <1>3, Zenon DEF UpsertIoC, MatchStep
<1> QED
  BY <1>2, <1>3, Zenon

(* Steps that neither store a row nor add to the list of pairs. *)
LEMMA QuietMatchStep ==
    ASSUME MatchInv, NEW p \in InFlight, pc[p] # "store", UNCHANGED <<sboms, incidents>>,
           \A pair \in todo'[p] : pair \in todo[p] \/ Justified(pair.ioc, pair.ref)
    PROVE  MatchStep(p)
  BY Zenon DEF MatchInv, StoredFirst, MatchStep

(* retroactiveMatch evaluates stored IoCs, each the IoC of a request, on    *)
(* the SBOM it has stored.                                                  *)
LEMMA ListIoCsMatchStep ==
    ASSUME MatchInv, NEW p \in Procs, ListIoCs(p)
    PROVE  MatchStep(p)
<1> DEFINE hits == retroactiveMatch(iocs, SBOMOf(req[p]))
           pairs == { matchPair(i, Job(p).ref) : i \in hits }
<1>1. p \in InFlight /\ pc[p] = "list" /\ Job(p).op = "sbom" /\ UNCHANGED <<sboms, incidents>>
  BY Zenon DEF ListIoCs, InFlight, store
<1>2. todo'[p] = pairs
  BY Zenon DEF ListIoCs, StartOpening, MatchInv, IInv, TypeOK, HandlersOK
<1>3. SBOMOf(req[p]) \in sboms /\ SBOMOf(req[p]).ref = Job(p).ref
  BY <1>1, Zenon DEF MatchInv, StoredFirst, SBOMOf, Job
<1>4. ASSUME NEW i \in iocs, Evaluate(i.body, SBOMOf(req[p]))
      PROVE  Justified(i.id, Job(p).ref)
  <2>1. i.by \in DOMAIN requests /\ requests[i.by].op # "sbom" /\ i = IoCOf(i.by)
    BY Zenon DEF MatchInv, IInv, TypeOK, RowsOK
  <2>2. i.id = requests[i.by].id /\ i.body = requests[i.by].body
    BY <2>1 DEF IoCOf
  <2> QED
    BY <1>3, <1>4, <2>1, <2>2, Zenon DEF Justified
<1>5. \A i \in hits : Justified(i, Job(p).ref)
  BY <1>4, Zenon DEF retroactiveMatch
<1>6. \A pair \in pairs : Justified(pair.ioc, pair.ref)
  <2> HIDE DEF hits
  <2> QED
    BY <1>5 DEF matchPair
<1> QED
  BY <1>1, <1>2, <1>6, QuietMatchStep, Zenon

(* A hit of the lookup is an SBOM the IoC accepts, even when the IoC's own  *)
(* ecosystem is left empty: the looked-up package has the SBOM's ecosystem. *)
LEMMA LookupIsSound ==
    ASSUME NEW ioc, NEW rows, \A s \in rows : ParsedSBOM(s)
    PROVE  \A ref \in forwardMatch(Backend, ioc, rows) :
             \E s \in rows : s.ref = ref /\ Evaluate(ioc, s)
<1> SUFFICES ASSUME NEW ref \in forwardMatch(Backend, ioc, rows)
             PROVE  \E s \in rows : s.ref = ref /\ Evaluate(ioc, s)
  BY Zenon
<1> DEFINE key == iocLookupKey(ioc)
           found == ListSBOMPackages(Backend, rows, key)
<1>1. ref \in matchPackagesAgainstIoC(ioc, key.eco, found)
  BY Zenon DEF forwardMatch
<1>2. PICK row \in found : ref = row.ref /\ Evaluate(ioc, [eco |-> key.eco, pkgs |-> {row.pkg}])
  BY <1>1, Zenon DEF matchPackagesAgainstIoC
<1>3. PICK s \in rows : \E q \in s.pkgs :
        InLookup(Backend, s, q, key) /\ row = [ref |-> s.ref, pkg |-> q]
  BY <1>2, Zenon DEF ListSBOMPackages
<1> PICK q \in s.pkgs : InLookup(Backend, s, q, key) /\ row = [ref |-> s.ref, pkg |-> q]
  BY <1>3, Zenon
<1>4. s.eco = key.eco
  BY Zenon DEF InLookup, ParsedSBOM
<1> HIDE DEF key, found
<1>5. SameEcosystem(ioc, s.eco) /\ Fires(ioc, q)
  BY <1>2, <1>4, Zenon DEF Evaluate
<1> QED
  BY <1>2, <1>5, Zenon DEF Evaluate

LEMMA LookupPackagesMatchStep ==
    ASSUME MatchInv, NEW p \in Procs, LookupPackages(p)
    PROVE  MatchStep(p)
<1> DEFINE hits == forwardMatch(Backend, Job(p).body, sboms)
           pairs == { matchPair(Job(p).id, r) : r \in hits }
<1>1. p \in InFlight /\ pc[p] = "list" /\ Job(p).op = "ioc" /\ UNCHANGED <<sboms, incidents>>
  BY Zenon DEF LookupPackages, InFlight, store
<1>2. todo'[p] = pairs
  BY Zenon DEF LookupPackages, StartOpening, MatchInv, IInv, TypeOK, HandlersOK
<1>3. req[p] \in DOMAIN requests
  BY <1>1, Zenon DEF MatchInv, IInv, TypeOK, HandlersOK
<1>4. \A r \in hits : \E s \in sboms : s.ref = r /\ Evaluate(Job(p).body, s)
  BY StoredSBOMsParsed, LookupIsSound, Zenon DEF MatchInv, IInv
<1>5. \A r \in hits : Justified(Job(p).id, r)
  <2> HIDE DEF hits
  <2> QED
    BY <1>1, <1>3, <1>4, Zenon DEF Justified, Job
<1>6. \A pair \in pairs : Justified(pair.ioc, pair.ref)
  <2> HIDE DEF hits
  <2> QED
    BY <1>5 DEF matchPair
<1> QED
  BY <1>1, <1>2, <1>6, QuietMatchStep, Zenon

LEMMA ListSBOMsMatchStep ==
    ASSUME MatchInv, NEW p \in Procs, NEW c \in toScan[p], ListSBOMsByComponent(p, c)
    PROVE  MatchStep(p)
<1> DEFINE found == { matchPair(Job(p).id, s.ref) :
                        s \in { t \in sboms : t.ref = c /\ Evaluate(Job(p).body, t) } }
<1>1. p \in InFlight /\ pc[p] = "scan" /\ Job(p).op = "forward" /\ UNCHANGED <<sboms, incidents>>
  BY Zenon DEF ListSBOMsByComponent, InFlight, store, MatchInv, IInv, TypeOK, HandlersOK
<1>2. todo'[p] = todo[p] \cup found
  BY Zenon DEF ListSBOMsByComponent, MatchInv, IInv, TypeOK, HandlersOK
<1>3. req[p] \in DOMAIN requests
  BY <1>1, Zenon DEF MatchInv, IInv, TypeOK, HandlersOK
<1>4. \A s \in sboms : Evaluate(Job(p).body, s) => Justified(Job(p).id, s.ref)
  BY <1>1, <1>3, Zenon DEF Justified, Job
<1>5. \A pair \in found : Justified(pair.ioc, pair.ref)
  BY <1>4 DEF matchPair
<1> QED
  BY <1>1, <1>2, <1>5, QuietMatchStep, Zenon

LEMMA OpenIncidentMatchStep ==
    ASSUME MatchInv, NEW p \in Procs, NEW pair \in todo[p], NEW ok \in BOOLEAN,
           OpenIncident(p, pair, ok)
    PROVE  MatchStep(p)
<1>1. /\ p \in InFlight /\ pc[p] = "open" /\ UNCHANGED <<sboms, requests, req>>
      /\ todo'[p] \subseteq todo[p]
  BY Zenon DEF OpenIncident, InFlight, store, MatchInv, IInv, TypeOK, HandlersOK
<1>2. SBOMOf(req[p]) \in sboms \/ Job(p).op # "sbom"
  BY <1>1, Zenon DEF MatchInv, StoredFirst
<1>3. ASSUME NEW n \in DOMAIN incidents' \ DOMAIN incidents
      PROVE  incidents'[n].ioc = pair.ioc /\ incidents'[n].ref = pair.ref
  <2> DEFINE row == NewIncident(pair.ioc, pair.ref, req[p])
  <2>1. row.ioc = pair.ioc /\ row.ref = pair.ref
    BY Zenon DEF NewIncident
  <2>2. incidents' = Append(incidents, row) \/ incidents' = incidents
    BY Zenon DEF OpenIncident
  <2> HIDE DEF row
  <2>3. incidents'[n] = row
    BY <1>3, <2>2 DEF MatchInv, IInv, TypeOK
  <2> QED
    BY <2>1, <2>3, Zenon
<1> QED
  BY <1>1, <1>2, <1>3, Zenon DEF MatchStep

LEMMA HandlerMatchStep ==
    ASSUME MatchInv, NEW p \in Procs, Handler(p)
    PROVE  MatchStep(p)
<1>1. p \in InFlight
  BY HandlerLocal, Zenon DEF MatchInv
<1>2. ASSUME \/ PublishIngested(p) \/ ListComponents(p) \/ FinishScan(p) \/ ListIncidents(p)
             \/ PublishOpened(p) \/ FinishOpening(p) \/ Respond(p) \/ ReadError(p)
             \/ \E pair \in todo[p] : SkipPair(p, pair)
             \/ \E e \in outbox[p] : PublishMatched(p, e)
      PROVE  MatchStep(p)
  <2>1. pc[p] # "store" /\ UNCHANGED <<sboms, incidents>>
    BY <1>2, Zenon DEF PublishIngested, ListComponents, FinishScan, ListIncidents, PublishOpened,
       FinishOpening, Respond, ReadError, SkipPair, PublishMatched, store
  <2>2. todo'[p] \subseteq todo[p]
    BY <1>2, Zenon DEF PublishIngested, ListComponents, FinishScan, ListIncidents, PublishOpened,
       FinishOpening, Respond, ReadError, SkipPair, PublishMatched, StartOpening, locals,
       MatchInv, IInv, TypeOK, HandlersOK
  <2> QED
    BY <1>1, <2>1, <2>2, QuietMatchStep, Zenon
<1> QED
  BY <1>2, StoreMatchStep, ListIoCsMatchStep, LookupPackagesMatchStep, ListSBOMsMatchStep,
     OpenIncidentMatchStep, Zenon DEF Handler

LEMMA AcceptMatchInv ==
    ASSUME MatchInv, NEW p \in Procs, NEW r \in Requests, Accept(p, r), IInv'
    PROVE  MatchInv'
<1>1. /\ pc[p] = "idle" /\ pc'[p] = "store" /\ todo'[p] = {}
      /\ \A q \in Procs : q # p => pc'[q] = pc[q] /\ req'[q] = req[q] /\ todo'[q] = todo[q]
      /\ UNCHANGED <<sboms, incidents>>
  BY DEF MatchInv, IInv, TypeOK, HandlersOK, Accept, Goto, store
<1>2. RowsGrow
  BY <1>1, AcceptKeepsRequests, Zenon DEF MatchInv, IInv, RowsGrow
<1>3. StoredFirst'
  <2> SUFFICES ASSUME NEW q \in InFlight', Job(q)'.op = "sbom", pc'[q] # "store"
               PROVE  SBOMOf(req[q])' \in sboms'
    BY Zenon DEF StoredFirst
  <2>1. q \in InFlight /\ pc'[q] = pc[q] /\ req'[q] = req[q]
    BY <1>1, Zenon DEF InFlight
  <2>2. req[q] \in DOMAIN requests
    BY <2>1, Zenon DEF MatchInv, IInv, TypeOK, HandlersOK
  <2>3. Job(q)' = Job(q) /\ SBOMOf(req[q])' = SBOMOf(req[q])
    BY <1>2, <2>1, <2>2, Zenon DEF RowsGrow, Job, SBOMOf
  <2> QED
    BY <1>1, <2>1, <2>3, Zenon DEF MatchInv, StoredFirst
<1>4. TodoJustified'
  <2>1. \A q \in InFlight' : todo'[q] = {} \/ (q \in InFlight /\ todo'[q] = todo[q])
    BY <1>1, Zenon DEF InFlight
  <2> QED
    BY <1>2, <2>1, JustifiedKept, Zenon DEF MatchInv, TodoJustified
<1>5. IncidentsJustified'
  BY <1>1, <1>2, SameIncidents, IncidentsJustifiedKept, Zenon
<1> QED
  BY <1>3, <1>4, <1>5, ZenonT(30) DEF MatchInv

LEMMA NextMatchInv ==
    ASSUME MatchInv, [Next]_vars
    PROVE  MatchInv'
<1>1. IInv'
  BY NextIInv, Zenon DEF MatchInv
<1>2. ASSUME UNCHANGED <<sboms, requests, req, pc, todo>>, IncidentsGrow,
             DOMAIN incidents' = DOMAIN incidents
      PROVE  MatchInv'
  <2>1. RowsGrow
    BY <1>2, Zenon DEF RowsGrow
  <2>2. StoredFirst'
    BY <1>2, Zenon DEF MatchInv, StoredFirst, InFlight, Job, SBOMOf
  <2>3. TodoJustified'
    BY <1>2, <2>1, JustifiedKept, Zenon DEF MatchInv, TodoJustified, InFlight
  <2>4. IncidentsJustified'
    BY <1>2, <2>1, IncidentsJustifiedKept, Zenon
  <2> QED
    BY <1>1, <2>2, <2>3, <2>4, Zenon DEF MatchInv
<1>3. CASE SubNext
  <2>1. ASSUME NEW ref \in Refs, UpsertComponent(ref)
        PROVE  MatchInv'
    BY <1>2, <2>1, SameIncidents, Zenon DEF UpsertComponent, locals
  <2>2. ASSUME NEW p \in Procs, Request(p)
        PROVE  MatchInv'
    BY <1>1, <2>2, RequestAccepts, AcceptMatchInv, Zenon
  <2>3. ASSUME NEW p \in Procs, Handler(p)
        PROVE  MatchInv'
    BY <1>1, <2>3, HandlerLocal, HandlerMatchStep, MatchStepInv, Zenon DEF MatchInv
  <2> QED
    BY <1>3, <2>1, <2>2, <2>3, Zenon DEF SubNext
<1>4. CASE TriageNext /\ UNCHANGED subVars
  <2>1. UNCHANGED <<sboms, requests, req, pc, todo>>
    BY <1>4, Zenon DEF subVars, store, locals
  <2> QED
    BY <1>2, <1>4, <2>1, TriageGrow, TriageDomain, Zenon DEF MatchInv
<1>5. CASE Restart
  <2>1. InFlight' = {} /\ UNCHANGED requests
    BY <1>5, Zenon DEF Restart, InFlight
  <2>2. IncidentsJustified'
    <3>1. CASE incidents' = <<>>
      BY <3>1 DEF IncidentsJustified
    <3>2. CASE UNCHANGED <<sboms, incidents>>
      BY <2>1, <3>2, SameIncidents, IncidentsJustifiedKept, Zenon DEF RowsGrow
    <3> QED
      BY <1>5, <3>1, <3>2, Zenon DEF Restart, store
  <2> QED
    BY <1>1, <2>1, <2>2, Zenon DEF MatchInv, StoredFirst, TodoJustified
<1>6. CASE UNCHANGED vars
  BY <1>2, <1>6, SameIncidents, Zenon DEF vars, subVars, store, locals
<1> QED
  BY <1>3, <1>4, <1>5, <1>6, Zenon DEF Next

(* Every incident has a match behind it, at every moment: openIncidents    *)
(* acts on a list computed earlier, and what made the list true (a stored  *)
(* SBOM, an IoC that was submitted) is not taken back.                     *)
THEOREM IncidentsHaveMatches == Spec => []IncidentsJustified
<1>1. Init => MatchInv
  BY InitIInv DEF Init, SubInit, IncidentsInit, MatchInv, StoredFirst, TodoJustified, InFlight,
     IncidentsJustified
<1>2. MatchInv /\ [Next]_vars => MatchInv'
  BY NextMatchInv, Zenon
<1>3. MatchInv => IncidentsJustified
  BY Zenon DEF MatchInv
<1> QED
  BY <1>1, <1>2, <1>3, PTL DEF Spec

-----------------------------------------------------------------------------
(* Events about openings and matches. *)

(* The event a handler is about to publish is about a row it wrote and has *)
(* not announced yet.                                                      *)
NoteSound(p) ==
    pc[p] = "announce" =>
      /\ note[p].inc \in DOMAIN incidents
      /\ matchPair(note[p].ioc, note[p].ref)
           = matchPair(incidents[note[p].inc].ioc, incidents[note[p].inc].ref)
      /\ incidents[note[p].inc].by = req[p]
      /\ ~Announced(note[p].inc)

(* Until a list of pairs is complete, it is about the submitted IoC alone. *)
ScanSound(p) ==
    pc[p] \in {"store", "ingested", "list", "scan"} =>
      \A pair \in todo[p] : pair.ioc = Job(p).id

(* Every component of a waiting ioc.matched has its incident or is on the list. *)
OutboxSound(p) ==
    p \in InFlight =>
      \A e \in outbox[p] : \A ref \in e.refs :
        HasIncident(e.ioc, ref) \/ matchPair(e.ioc, ref) \in todo[p]

(* An incident nobody announced belongs to a request that failed, or is    *)
(* about to be announced.                                                  *)
Accounted(n) ==
    \/ Announced(n)
    \/ incidents[n].by \in failed
    \/ \E p \in Procs : pc[p] = "announce" /\ note[p].inc = n /\ req[p] = incidents[n].by

EventInv ==
    /\ IInv
    /\ \A p \in Procs : NoteSound(p) /\ ScanSound(p) /\ OutboxSound(p)
    /\ \A n \in DOMAIN incidents : Accounted(n)
    /\ OpenedEventsFaithful /\ MatchedEventsHaveIncidents

(* HasIncident and Announced after the step. *)
HasIncidentThen(ioc, ref) ==
    \E n \in DOMAIN incidents' : incidents'[n].ioc = ioc /\ incidents'[n].ref = ref
AnnouncedThen(n) ==
    \E k \in DOMAIN log' : log'[k].type = "incident.opened" /\ log'[k].inc = n

LEMMA GrowKeepsIncidents ==
    ASSUME IncidentsGrow, NEW ioc, NEW ref, HasIncident(ioc, ref)
    PROVE  HasIncidentThen(ioc, ref)
  BY Zenon DEF IncidentsGrow, HasIncident, SameIncident, HasIncidentThen

(* No new ioc.matched, and every pair keeps its incident. *)
LEMMA MatchedEventsKept ==
    ASSUME MatchedEventsHaveIncidents,
           \A k \in DOMAIN log' : log'[k].type = "ioc.matched" => k \in DOMAIN log /\ log'[k] = log[k],
           \A ioc, ref : HasIncident(ioc, ref) => HasIncidentThen(ioc, ref)
    PROVE  MatchedEventsHaveIncidents'
<1> SUFFICES ASSUME NEW k \in DOMAIN log', log'[k].type = "ioc.matched", NEW ref \in log'[k].refs
             PROVE  HasIncidentThen(log'[k].ioc, ref)
  BY Zenon DEF MatchedEventsHaveIncidents, HasIncident, HasIncidentThen
<1>1. k \in DOMAIN log /\ log'[k] = log[k]
  BY Zenon
<1>2. HasIncident(log[k].ioc, ref)
  BY <1>1, Zenon DEF MatchedEventsHaveIncidents
<1> QED
  BY <1>1, <1>2, Zenon

(* The step publishes nothing, or an event that says nothing wrong about   *)
(* openings and matches.                                                   *)
QuietLog ==
    \/ UNCHANGED log
    \/ \E e \in Events :
         /\ log' = Append(log, e)
         /\ e.type # "incident.opened"
         /\ e.type = "ioc.matched" => \A ref \in e.refs : HasIncidentThen(e.ioc, ref)

(* Nobody starts or stops announcing an incident. *)
NotesKept ==
    \A q \in Procs : "announce" \in {pc[q], pc'[q]} =>
      pc'[q] = pc[q] /\ note'[q] = note[q] /\ req'[q] = req[q]

LEMMA QuietLogKeeps ==
    ASSUME TypeOK, QuietLog
    PROVE  /\ \A k \in DOMAIN log : k \in DOMAIN log' /\ log'[k] = log[k]
           /\ \A k \in DOMAIN log' : \/ k \in DOMAIN log
                                     \/ /\ log'[k].type # "incident.opened"
                                        /\ log'[k].type = "ioc.matched" =>
                                             \A ref \in log'[k].refs : HasIncidentThen(log'[k].ioc, ref)
<1>1. CASE UNCHANGED log
  BY <1>1, Zenon
<1>2. ASSUME NEW e \in Events, log' = Append(log, e)
      PROVE  /\ \A k \in DOMAIN log : k \in DOMAIN log' /\ log'[k] = log[k]
             /\ \A k \in DOMAIN log' : k \in DOMAIN log \/ log'[k] = e
  BY <1>2 DEF TypeOK
<1> QED
  BY <1>1, <1>2, Zenon DEF QuietLog

LEMMA QuietAnnounced ==
    ASSUME TypeOK, QuietLog
    PROVE  \A n : AnnouncedThen(n) <=> Announced(n)
  BY QuietLogKeeps, Zenon DEF Announced, AnnouncedThen

LEMMA QuietEventInv ==
    ASSUME EventInv, IInv', QuietLog, IncidentsGrow, DOMAIN incidents' = DOMAIN incidents,
           NotesKept, failed \subseteq failed',
           \A q \in Procs : ScanSound(q)' /\ OutboxSound(q)'
    PROVE  EventInv'
<1>1. TypeOK
  BY Zenon DEF EventInv, IInv
<1>2. \A q \in Procs : NoteSound(q)'
  <2> SUFFICES ASSUME NEW q \in Procs, pc'[q] = "announce"
               PROVE  /\ note'[q].inc \in DOMAIN incidents'
                      /\ matchPair(note'[q].ioc, note'[q].ref)
                           = matchPair(incidents'[note'[q].inc].ioc, incidents'[note'[q].inc].ref)
                      /\ incidents'[note'[q].inc].by = req'[q]
                      /\ ~AnnouncedThen(note'[q].inc)
    BY Zenon DEF NoteSound, matchPair, Announced, AnnouncedThen
  <2>1. pc[q] = "announce" /\ note'[q] = note[q] /\ req'[q] = req[q] /\ NoteSound(q)
    BY Zenon DEF NotesKept, EventInv
  <2>2. ~AnnouncedThen(note'[q].inc)
    BY <1>1, <2>1, QuietAnnounced, Zenon DEF NoteSound
  <2> QED
    BY <2>1, <2>2, Zenon DEF NoteSound, IncidentsGrow, SameIncident
<1>3. \A n \in DOMAIN incidents' : Accounted(n)'
  <2> SUFFICES ASSUME NEW n \in DOMAIN incidents
               PROVE  Accounted(n)'
    BY Zenon
  <2>1. Accounted(n) /\ incidents'[n].by = incidents[n].by
    BY Zenon DEF EventInv, IncidentsGrow, SameIncident
  <2>2. CASE Announced(n)
    BY <1>1, <2>2, QuietAnnounced, Zenon DEF Accounted, Announced, AnnouncedThen
  <2>3. CASE incidents[n].by \in failed
    BY <2>1, <2>3, Zenon DEF Accounted
  <2>4. ASSUME NEW p \in Procs, pc[p] = "announce", note[p].inc = n, req[p] = incidents[n].by
        PROVE  Accounted(n)'
    BY <2>1, <2>4, Zenon DEF Accounted, NotesKept
  <2> QED
    BY <2>1, <2>2, <2>3, <2>4, Zenon DEF Accounted
<1>4. OpenedEventsFaithful'
  <2> SUFFICES ASSUME NEW k \in DOMAIN log', log'[k].type = "incident.opened"
               PROVE  /\ log'[k].inc \in DOMAIN incidents'
                      /\ matchPair(log'[k].ioc, log'[k].ref)
                           = matchPair(incidents'[log'[k].inc].ioc, incidents'[log'[k].inc].ref)
                      /\ \A j \in DOMAIN log' :
                           log'[j].type = "incident.opened" /\ log'[j].inc = log'[k].inc => j = k
    BY Zenon DEF OpenedEventsFaithful, matchPair
  <2>1. k \in DOMAIN log /\ log'[k] = log[k]
    BY <1>1, QuietLogKeeps, Zenon
  <2>2. \A j \in DOMAIN log' : log'[j].type = "incident.opened" => j \in DOMAIN log /\ log'[j] = log[j]
    BY <1>1, QuietLogKeeps, Zenon
  <2> QED
    BY <2>1, <2>2 DEF EventInv, OpenedEventsFaithful, IncidentsGrow, SameIncident
<1>5. MatchedEventsHaveIncidents'
  <2> SUFFICES ASSUME NEW k \in DOMAIN log', log'[k].type = "ioc.matched", NEW ref \in log'[k].refs
               PROVE  HasIncidentThen(log'[k].ioc, ref)
    BY Zenon DEF MatchedEventsHaveIncidents, HasIncident, HasIncidentThen
  <2>1. CASE k \in DOMAIN log
    <3>1. log'[k] = log[k]
      BY <1>1, <2>1, QuietLogKeeps, Zenon
    <3>2. HasIncident(log[k].ioc, ref)
      BY <2>1, <3>1, Zenon DEF EventInv, MatchedEventsHaveIncidents
    <3> QED
      BY <3>1, <3>2, GrowKeepsIncidents, Zenon
  <2>2. CASE k \notin DOMAIN log
    BY <1>1, <2>2, QuietLogKeeps, Zenon
  <2> QED
    BY <2>1, <2>2, Zenon
<1> QED
  BY <1>2, <1>3, <1>4, <1>5, Zenon DEF EventInv

(* What a handler's step has to respect to keep that, unless it opens or   *)
(* announces an incident.                                                  *)
EventStep(p) ==
    /\ QuietLog /\ DOMAIN incidents' = DOMAIN incidents
    /\ "announce" \notin {pc[p], pc'[p]}
    /\ \A q \in Procs : q # p => note'[q] = note[q] /\ outbox'[q] = outbox[q]
    /\ ScanSound(p)' /\ OutboxSound(p)'

(* The other handlers' lists and waiting events stay true. *)
LEMMA OthersSound ==
    ASSUME EventInv, NEW p \in Procs, LocalStep(p),
           \A q \in Procs : q # p => outbox'[q] = outbox[q]
    PROVE  \A q \in Procs : q # p => ScanSound(q)' /\ OutboxSound(q)'
<1> SUFFICES ASSUME NEW q \in Procs, q # p
             PROVE  ScanSound(q)' /\ OutboxSound(q)'
  BY Zenon
<1>1. /\ pc'[q] = pc[q] /\ todo'[q] = todo[q] /\ outbox'[q] = outbox[q]
      /\ UNCHANGED <<requests, req>> /\ IncidentsGrow
  BY Zenon DEF LocalStep, OthersKept
<1>2. ScanSound(q) /\ OutboxSound(q)
  BY Zenon DEF EventInv
<1>3. ScanSound(q)'
  BY <1>1, <1>2, Zenon DEF ScanSound, Job
<1>4. OutboxSound(q)'
  <2>1. \A ioc, ref : HasIncident(ioc, ref) => HasIncident(ioc, ref)'
    BY <1>1, GrowKeepsIncident, Zenon
  <2> QED
    BY <1>1, <1>2, <2>1, Zenon DEF OutboxSound, InFlight, matchPair
<1> QED
  BY <1>3, <1>4, Zenon

LEMMA EventStepInv ==
    ASSUME EventInv, IInv', NEW p \in Procs, LocalStep(p), EventStep(p)
    PROVE  EventInv'
<1>1. NotesKept
  BY Zenon DEF EventStep, NotesKept, LocalStep, OthersKept
<1>2. failed \subseteq failed' /\ IncidentsGrow
  BY Zenon DEF LocalStep, Outcome
<1>3. \A q \in Procs : ScanSound(q)' /\ OutboxSound(q)'
  BY OthersSound, Zenon DEF EventStep
<1> QED
  BY <1>1, <1>2, <1>3, QuietEventInv, Zenon DEF EventStep

(* Steps that leave the lists, the waiting events and the incidents alone. *)
LEMMA MoveEventStep ==
    ASSUME EventInv, NEW p \in InFlight, QuietLog, "announce" \notin {pc[p], pc'[p]},
           UNCHANGED <<requests, req, todo, note, outbox, incidents>>,
           pc'[p] \in {"store", "ingested", "list", "scan"} =>
             pc[p] \in {"store", "ingested", "list", "scan"}
    PROVE  EventStep(p)
<1>1. p \in Procs /\ ScanSound(p) /\ OutboxSound(p)
  BY Zenon DEF EventInv, InFlight
<1>2. ScanSound(p)'
  BY <1>1, Zenon DEF ScanSound, Job
<1>3. OutboxSound(p)'
  BY <1>1, SameIncidents, Zenon DEF OutboxSound, matchPair
<1> QED
  BY <1>2, <1>3, Zenon DEF EventStep

LEMMA MovesEventStep ==
    ASSUME EventInv, NEW p \in InFlight,
           \/ \E ok \in BOOLEAN : UpsertSBOM(p, ok) \/ UpsertIoC(p, ok)
           \/ PublishIngested(p) \/ ListComponents(p) \/ ListIncidents(p) \/ FinishOpening(p)
           \/ Respond(p) \/ ReadError(p)
    PROVE  EventStep(p)
<1>1. UNCHANGED <<requests, req, todo, note, outbox, incidents>>
  BY Zenon DEF UpsertSBOM, UpsertIoC, PublishIngested, ListComponents, ListIncidents, FinishOpening,
     Respond, ReadError, locals
<1>2. QuietLog
  <2>1. CASE PublishIngested(p)
    <3> DEFINE e == [type |-> "sbom.ingested", sbom |-> req[p]]
    <3>1. e \in Events /\ e.type = "sbom.ingested"
      BY Zenon DEF Events, EventInv, IInv, TypeOK, HandlersOK, InFlight
    <3>2. log' = Append(log, e)
      BY <2>1, Zenon DEF PublishIngested, Publish
    <3> HIDE DEF e
    <3> QED
      BY <3>1, <3>2, Zenon DEF QuietLog
  <2>2. CASE ~PublishIngested(p)
    BY <2>2, Zenon DEF UpsertSBOM, UpsertIoC, ListComponents, ListIncidents, FinishOpening, Respond,
       ReadError, QuietLog
  <2> QED
    BY <2>1, <2>2, Zenon
<1>3. /\ "announce" \notin {pc[p], pc'[p]}
      /\ pc'[p] \in {"store", "ingested", "list", "scan"} =>
           pc[p] \in {"store", "ingested", "list", "scan"}
  <2>1. p \in Procs /\ pc \in [Procs -> Labels]
    BY Zenon DEF EventInv, IInv, TypeOK, HandlersOK, InFlight
  <2> QED
    BY <2>1, Zenon DEF UpsertSBOM, UpsertIoC, PublishIngested, ListComponents, ListIncidents, FinishOpening,
       Respond, ReadError, Proceed, Fail, Goto
<1> QED
  BY <1>1, <1>2, <1>3, MoveEventStep, Zenon

(* Matching hands over a list and the events about exactly that list. *)
LEMMA StartEventStep ==
    ASSUME EventInv, NEW p \in InFlight, pc[p] # "announce", NEW pairs, NEW events,
           StartOpening(p, pairs, events), UNCHANGED <<note, incidents, log>>,
           \A e \in events : \A ref \in e.refs : matchPair(e.ioc, ref) \in pairs
    PROVE  EventStep(p)
<1>1. /\ p \in Procs /\ pc'[p] \in {"matched", "index"}
      /\ todo'[p] = pairs /\ outbox'[p] = events
      /\ \A q \in Procs : q # p => outbox'[q] = outbox[q]
  BY Zenon DEF EventInv, IInv, TypeOK, HandlersOK, InFlight, StartOpening, Goto
<1>2. ScanSound(p)'
  BY <1>1, Zenon DEF ScanSound
<1>3. OutboxSound(p)'
  BY <1>1, Zenon DEF OutboxSound, matchPair
<1> QED
  BY <1>1, <1>2, <1>3, Zenon DEF EventStep, QuietLog

LEMMA MatchedOnceCovers ==
    ASSUME NEW id, NEW refs, NEW pairs, \A ref \in refs : matchPair(id, ref) \in pairs
    PROVE  \A e \in MatchedOnce(id, refs) : \A ref \in e.refs : matchPair(e.ioc, ref) \in pairs
  BY DEF MatchedOnce, IoCMatched

LEMMA MatchingEventStep ==
    ASSUME EventInv, NEW p \in InFlight, ListIoCs(p) \/ LookupPackages(p) \/ FinishScan(p)
    PROVE  EventStep(p)
<1>1. pc[p] # "announce" /\ UNCHANGED <<note, incidents, log>>
  BY Zenon DEF ListIoCs, LookupPackages, FinishScan
<1>2. CASE ListIoCs(p)
  <2> DEFINE hits == retroactiveMatch(iocs, SBOMOf(req[p]))
             pairs == { matchPair(i, Job(p).ref) : i \in hits }
             events == { IoCMatched(i, {Job(p).ref}) : i \in hits }
  <2>1. StartOpening(p, pairs, events)
    BY <1>2, Zenon DEF ListIoCs
  <2> HIDE DEF hits
  <2>2. \A e \in events : \A ref \in e.refs : matchPair(e.ioc, ref) \in pairs
    BY DEF IoCMatched
  <2> HIDE DEF pairs, events
  <2> QED
    BY <1>1, <2>1, <2>2, StartEventStep, Zenon
<1>3. CASE LookupPackages(p)
  <2> DEFINE hits == forwardMatch(Backend, Job(p).body, sboms)
             pairs == { matchPair(Job(p).id, r) : r \in hits }
             events == MatchedOnce(Job(p).id, hits)
  <2>1. StartOpening(p, pairs, events)
    BY <1>3, Zenon DEF LookupPackages
  <2> HIDE DEF hits
  <2>2. \A e \in events : \A ref \in e.refs : matchPair(e.ioc, ref) \in pairs
    BY MatchedOnceCovers, Zenon
  <2> HIDE DEF pairs, events
  <2> QED
    BY <1>1, <2>1, <2>2, StartEventStep, Zenon
<1>4. CASE FinishScan(p)
  <2> DEFINE refs == { pair.ref : pair \in todo[p] }
             events == MatchedOnce(Job(p).id, refs)
  <2>1. StartOpening(p, todo[p], events)
    BY <1>4, ZenonT(30) DEF FinishScan
  <2>2. \A pair \in todo[p] : pair.ioc = Job(p).id /\ pair = matchPair(pair.ioc, pair.ref)
    BY <1>4 DEF FinishScan, EventInv, ScanSound, InFlight, IInv, TypeOK, HandlersOK, Pairs, matchPair
  <2>3. \A ref \in refs : matchPair(Job(p).id, ref) \in todo[p]
    BY <2>2, Zenon
  <2> HIDE DEF refs
  <2>4. \A e \in events : \A ref \in e.refs : matchPair(e.ioc, ref) \in todo[p]
    BY <2>3, MatchedOnceCovers, Zenon
  <2> HIDE DEF events
  <2> QED
    BY <1>1, <2>1, <2>4, StartEventStep, Zenon
<1> QED
  BY <1>2, <1>3, <1>4, Zenon

LEMMA ListSBOMsEventStep ==
    ASSUME EventInv, NEW p \in InFlight, NEW c \in toScan[p], ListSBOMsByComponent(p, c)
    PROVE  EventStep(p)
<1> DEFINE found == { matchPair(Job(p).id, s.ref) :
                        s \in { t \in sboms : t.ref = c /\ Evaluate(Job(p).body, t) } }
<1>1. /\ p \in Procs /\ pc[p] = "scan" /\ todo'[p] = todo[p] \cup found
      /\ UNCHANGED <<pc, note, outbox, incidents, log, requests, req>>
  BY ZenonT(30) DEF ListSBOMsByComponent, EventInv, IInv, TypeOK, HandlersOK, InFlight
<1>2. \A pair \in found : pair.ioc = Job(p).id
  BY DEF matchPair
<1> HIDE DEF found
<1>3. ScanSound(p)'
  BY <1>1, <1>2, Zenon DEF EventInv, ScanSound, Job
<1>4. OutboxSound(p)'
  BY <1>1, SameIncidents, Zenon DEF EventInv, OutboxSound, matchPair
<1> QED
  BY <1>1, <1>3, <1>4, Zenon DEF EventStep, QuietLog

LEMMA SkipPairEventStep ==
    ASSUME EventInv, NEW p \in InFlight, NEW pair \in todo[p], SkipPair(p, pair)
    PROVE  EventStep(p)
<1>1. /\ p \in Procs /\ pc[p] = "open" /\ pair \in open[p] /\ todo'[p] = todo[p] \ {pair}
      /\ UNCHANGED <<pc, note, outbox, incidents, log>>
  BY Zenon DEF SkipPair, EventInv, IInv, TypeOK, HandlersOK, InFlight
<1>2. HasIncident(pair.ioc, pair.ref)
  BY <1>1, Zenon DEF EventInv, IInv, IndexSound
<1>3. ScanSound(p)'
  BY <1>1, Zenon DEF ScanSound
<1>4. OutboxSound(p)'
  <2>1. \A ioc, ref : matchPair(ioc, ref) = pair => HasIncident(ioc, ref)'
    BY <1>1, <1>2, SameIncidents DEF matchPair
  <2>2. \A ioc, ref : matchPair(ioc, ref) \in todo[p] =>
          HasIncident(ioc, ref)' \/ matchPair(ioc, ref) \in todo'[p]
    BY <1>1, <2>1, Zenon
  <2> QED
    BY <1>1, <2>2, SameIncidents, Zenon DEF EventInv, OutboxSound, matchPair
<1> QED
  BY <1>1, <1>3, <1>4, Zenon DEF EventStep, QuietLog

(* The list is empty by then, so every component of the event has its       *)
(* incident.                                                                *)
LEMMA PublishMatchedEventStep ==
    ASSUME EventInv, NEW p \in InFlight, NEW e \in outbox[p], PublishMatched(p, e)
    PROVE  EventStep(p)
<1>1. /\ p \in Procs /\ pc[p] = "matched" /\ outbox'[p] \subseteq outbox[p] /\ todo[p] = {}
      /\ \A q \in Procs : q # p => outbox'[q] = outbox[q]
      /\ UNCHANGED <<pc, note, todo, incidents>> /\ log' = Append(log, e)
  BY ZenonT(30) DEF PublishMatched, Publish, EventInv, IInv, TypeOK, HandlersOK, InFlight, NothingLeftAtEnd
<1>2. e \in MatchedEvents /\ e.type = "ioc.matched"
  BY <1>1 DEF EventInv, IInv, TypeOK, HandlersOK, MatchedEvents
<1>3. \A ref \in e.refs : HasIncidentThen(e.ioc, ref)
  BY <1>1, SameIncidents, GrowKeepsIncidents, Zenon DEF EventInv, OutboxSound
<1>4. QuietLog
  BY <1>1, <1>2, <1>3, Zenon DEF QuietLog, Events
<1>5. ScanSound(p)'
  BY <1>1, Zenon DEF ScanSound
<1>6. OutboxSound(p)'
  BY <1>1, SameIncidents, Zenon DEF EventInv, OutboxSound, matchPair
<1> QED
  BY <1>1, <1>4, <1>5, <1>6, Zenon DEF EventStep

(* Opening appends a row nobody has announced, and the handler that may now *)
(* announce it is the one that wrote it.                                    *)
LEMMA OpenIncidentEventInv ==
    ASSUME EventInv, IInv', NEW p \in Procs, NEW pair \in todo[p], NEW ok \in BOOLEAN,
           OpenIncident(p, pair, ok)
    PROVE  EventInv'
<1> DEFINE new == Len(incidents) + 1
           row == NewIncident(pair.ioc, pair.ref, req[p])
<1>1. LocalStep(p) /\ IncidentsGrow /\ failed \subseteq failed'
  BY OpenIncidentStep, ZenonT(30) DEF EventInv, LocalStep, Outcome
<1>2. /\ p \in InFlight /\ pc[p] = "open" /\ todo'[p] = todo[p] \ {pair}
      /\ UNCHANGED <<req, outbox, requests, log>>
      /\ note'[p] = Opened(Len(incidents'), pair)
      /\ \A q \in Procs : q # p => pc'[q] = pc[q] /\ note'[q] = note[q]
  BY <1>1 DEF OpenIncident, EventInv, IInv, TypeOK, HandlersOK, InFlight, LocalStep, OthersKept
<1>3. \/ ok /\ pc'[p] = "announce"
      \/ ~ok /\ pc'[p] = "idle" /\ req[p] \in failed'
  BY Zenon DEF OpenIncident, Proceed, Fail, Goto, EventInv, IInv, TypeOK, HandlersOK
<1>4. incidents' = Append(incidents, row) \/ (incidents' = incidents /\ ~ok)
  BY Zenon DEF OpenIncident, WriteOutcomes
<1>5. row.ioc = pair.ioc /\ row.ref = pair.ref /\ row.by = req[p]
  BY Zenon DEF NewIncident
<1> HIDE DEF row
<1>6. incidents' = Append(incidents, row) =>
        /\ Len(incidents') = new /\ new \in DOMAIN incidents' /\ incidents'[new] = row
        /\ \A n \in DOMAIN incidents' : n \in DOMAIN incidents \/ n = new
  <2>1. ComesLast(row, incidents, Append(incidents, row))
    BY AppendComesLast, Zenon DEF EventInv, IInv, TypeOK
  <2> QED
    BY <2>1, Zenon DEF ComesLast
<1>7. new \notin DOMAIN incidents
  <2>1. ComesLast(row, incidents, Append(incidents, row))
    BY AppendComesLast, Zenon DEF EventInv, IInv, TypeOK
  <2> QED
    BY <2>1, Zenon DEF ComesLast
<1>8. \A n : AnnouncedThen(n) <=> Announced(n)
  BY <1>2, Zenon DEF AnnouncedThen, Announced
<1>9. ~Announced(new)
  BY <1>7, Zenon DEF EventInv, OpenedEventsFaithful, Announced
<1>10. \A q \in Procs : NoteSound(q)'
  <2> SUFFICES ASSUME NEW q \in Procs, pc'[q] = "announce"
               PROVE  /\ note'[q].inc \in DOMAIN incidents'
                      /\ matchPair(note'[q].ioc, note'[q].ref)
                           = matchPair(incidents'[note'[q].inc].ioc, incidents'[note'[q].inc].ref)
                      /\ incidents'[note'[q].inc].by = req'[q]
                      /\ ~AnnouncedThen(note'[q].inc)
    BY ZenonT(30) DEF NoteSound, matchPair, Announced, AnnouncedThen
  <2>1. CASE q = p
    <3>1. incidents' = Append(incidents, row)
      BY <1>3, <1>4, <2>1, Zenon
    <3>2. note'[p].inc = new /\ note'[p].ioc = pair.ioc /\ note'[p].ref = pair.ref
      BY <1>2, <1>6, <3>1 DEF Opened
    <3> QED
      BY <1>2, <1>5, <1>6, <1>8, <1>9, <2>1, <3>1, <3>2
  <2>2. CASE q # p
    <3>1. pc[q] = "announce" /\ note'[q] = note[q] /\ NoteSound(q)
      BY <1>2, <2>2, Zenon DEF EventInv
    <3> QED
      BY <1>1, <1>2, <1>8, <3>1, Zenon DEF NoteSound, IncidentsGrow, SameIncident
  <2> QED
    BY <2>1, <2>2, Zenon
<1>11. ScanSound(p)'
  BY <1>3, Zenon DEF ScanSound
<1>12. OutboxSound(p)'
  <2> SUFFICES ASSUME ok, incidents' = Append(incidents, row),
                      NEW e \in outbox[p], NEW ref \in e.refs
               PROVE  HasIncident(e.ioc, ref)' \/ matchPair(e.ioc, ref) \in todo'[p]
    BY <1>2, <1>3, <1>4, Zenon DEF OutboxSound, InFlight, matchPair
  <2>1. HasIncident(e.ioc, ref) \/ matchPair(e.ioc, ref) \in todo[p]
    BY <1>2, Zenon DEF EventInv, OutboxSound
  <2>2. CASE HasIncident(e.ioc, ref)
    BY <1>1, <2>2, GrowKeepsIncident, Zenon
  <2>3. CASE matchPair(e.ioc, ref) = pair
    BY <1>5, <1>6, <2>3, Zenon DEF HasIncident, matchPair
  <2> QED
    BY <1>2, <2>1, <2>2, <2>3, Zenon
<1>13. \A n \in DOMAIN incidents' : Accounted(n)'
  <2>1. ASSUME NEW n \in DOMAIN incidents
        PROVE  Accounted(n)'
    <3>1. Accounted(n) /\ incidents'[n].by = incidents[n].by
      BY <1>1, Zenon DEF EventInv, IncidentsGrow, SameIncident
    <3>2. Announced(n) => Announced(n)'
      BY <1>2, Zenon DEF Announced
    <3>3. ASSUME NEW q \in Procs, pc[q] = "announce", note[q].inc = n, req[q] = incidents[n].by
          PROVE  Accounted(n)'
      BY <1>2, <3>1, <3>3, Zenon DEF Accounted
    <3> QED
      BY <1>1, <3>1, <3>2, <3>3, Zenon DEF Accounted
  <2>2. ASSUME incidents' = Append(incidents, row), NEW n \in DOMAIN incidents', n = new
        PROVE  Accounted(n)'
    <3>1. incidents'[n].by = req[p] /\ req'[p] = req[p]
      BY <1>2, <1>5, <1>6, <2>2, Zenon
    <3>2. note'[p].inc = n
      BY <1>2, <1>6, <2>2 DEF Opened
    <3> QED
      BY <1>3, <3>1, <3>2, Zenon DEF Accounted
  <2> QED
    BY <1>4, <1>6, <2>1, <2>2, Zenon
<1>14. OpenedEventsFaithful'
  BY <1>1, <1>2, ZenonT(30) DEF EventInv, OpenedEventsFaithful, IncidentsGrow, SameIncident, matchPair
<1>15. MatchedEventsHaveIncidents'
  <2>1. log' = log /\ \A ioc, ref : HasIncident(ioc, ref) => HasIncidentThen(ioc, ref)
    BY <1>1, <1>2, GrowKeepsIncidents, Zenon
  <2> QED
    BY <2>1, MatchedEventsKept, Zenon DEF EventInv
<1>16. \A q \in Procs : ScanSound(q)' /\ OutboxSound(q)'
  BY <1>1, <1>2, <1>11, <1>12, OthersSound, Zenon
<1> QED
  BY <1>10, <1>13, <1>14, <1>15, <1>16, Zenon DEF EventInv

LEMMA PublishOpenedEventInv ==
    ASSUME EventInv, IInv', NEW p \in Procs, PublishOpened(p)
    PROVE  EventInv'
<1>1. LocalStep(p)
  BY PublishStep, Zenon DEF EventInv
<1>2. /\ p \in InFlight /\ pc[p] = "announce" /\ pc'[p] = "open" /\ log' = Append(log, note[p])
      /\ UNCHANGED <<requests, req, todo, note, outbox, incidents, failed>>
      /\ \A q \in Procs : q # p => pc'[q] = pc[q]
  BY Zenon DEF PublishOpened, Publish, Goto, locals, outcomes, EventInv, IInv, TypeOK, HandlersOK, InFlight
<1>3. NoteSound(p) /\ note[p].type = "incident.opened" /\ note[p] \in Events
  BY <1>2, Zenon DEF EventInv, IInv, TypeOK, HandlersOK, OpenedEvents, Events
<1>4. /\ \A k \in DOMAIN log : k \in DOMAIN log' /\ log'[k] = log[k]
      /\ Len(log) + 1 \in DOMAIN log' /\ log'[Len(log) + 1] = note[p]
      /\ \A k \in DOMAIN log' : k \in DOMAIN log \/ k = Len(log) + 1
  <2>1. log \in Seq(Events) /\ log' = Append(log, note[p])
    BY <1>2, Zenon DEF EventInv, IInv, TypeOK
  <2>2. ComesLast(note[p], log, log')
    BY <2>1, AppendComesLast, Zenon
  <2> QED
    BY <2>2, Zenon DEF ComesLast
<1>5. \A n : AnnouncedThen(n) <=> Announced(n) \/ n = note[p].inc
  BY <1>3, <1>4, Zenon DEF AnnouncedThen, Announced
<1>6. \A q \in Procs : NoteSound(q)'
  <2> SUFFICES ASSUME NEW q \in Procs, pc'[q] = "announce"
               PROVE  NoteSound(q)'
    BY Zenon DEF NoteSound
  <2>1. q # p /\ pc[q] = "announce" /\ NoteSound(q)
    BY <1>2, Zenon DEF EventInv
  <2>2. note[q].inc # note[p].inc
    <3>1. q \in InFlight /\ req[q] # req[p]
      BY <1>2, <2>1, Zenon DEF InFlight, EventInv, IInv, RequestsExclusive
    <3> QED
      BY <1>2, <1>3, <2>1, <3>1, Zenon DEF NoteSound
  <2>3. ~AnnouncedThen(note[q].inc)
    BY <1>5, <2>1, <2>2, Zenon DEF NoteSound
  <2> QED
    BY <1>2, <2>1, <2>3, Zenon DEF NoteSound, matchPair, Announced, AnnouncedThen
<1>7. ScanSound(p)' /\ OutboxSound(p)'
  BY <1>2, SameIncidents, Zenon DEF EventInv, ScanSound, OutboxSound, matchPair
<1>8. \A n \in DOMAIN incidents' : Accounted(n)'
  <2> SUFFICES ASSUME NEW n \in DOMAIN incidents
               PROVE  Accounted(n)'
    BY <1>2, Zenon
  <2>1. Accounted(n)
    BY Zenon DEF EventInv
  <2>2. CASE Announced(n) \/ n = note[p].inc
    BY <1>5, <2>2, Zenon DEF Accounted, Announced, AnnouncedThen
  <2>3. CASE incidents[n].by \in failed
    BY <1>2, <2>3, Zenon DEF Accounted
  <2>4. ASSUME NEW q \in Procs, pc[q] = "announce", note[q].inc = n, req[q] = incidents[n].by,
               n # note[p].inc
        PROVE  Accounted(n)'
    BY <1>2, <2>4, Zenon DEF Accounted
  <2> QED
    BY <2>1, <2>2, <2>3, <2>4, Zenon DEF Accounted
<1>9. OpenedEventsFaithful'
  <2> SUFFICES ASSUME NEW k \in DOMAIN log', log'[k].type = "incident.opened"
               PROVE  /\ log'[k].inc \in DOMAIN incidents
                      /\ matchPair(log'[k].ioc, log'[k].ref)
                           = matchPair(incidents[log'[k].inc].ioc, incidents[log'[k].inc].ref)
                      /\ \A j \in DOMAIN log' :
                           log'[j].type = "incident.opened" /\ log'[j].inc = log'[k].inc => j = k
    BY <1>2, Zenon DEF OpenedEventsFaithful, matchPair
  <2>1. CASE k \in DOMAIN log
    <3>1. log'[k] = log[k] /\ log[k].inc # note[p].inc
      BY <1>2, <1>3, <1>4, <2>1, Zenon DEF NoteSound, Announced
    <3>2. /\ log[k].inc \in DOMAIN incidents
          /\ matchPair(log[k].ioc, log[k].ref)
               = matchPair(incidents[log[k].inc].ioc, incidents[log[k].inc].ref)
          /\ \A j \in DOMAIN log : log[j].type = "incident.opened" /\ log[j].inc = log[k].inc => j = k
      BY <2>1, <3>1, Zenon DEF EventInv, OpenedEventsFaithful
    <3> QED
      BY <1>4, <3>1, <3>2, Zenon
  <2>2. CASE k = Len(log) + 1
    <3>1. log'[k] = note[p]
      BY <1>4, <2>2, Zenon
    <3>2. \A j \in DOMAIN log : log[j].type = "incident.opened" => log[j].inc # note[p].inc
      BY <1>2, <1>3, Zenon DEF NoteSound, Announced
    <3> QED
      BY <1>2, <1>3, <1>4, <2>2, <3>1, <3>2, Zenon DEF NoteSound
  <2> QED
    BY <1>4, <2>1, <2>2, Zenon
<1>10. MatchedEventsHaveIncidents'
  <2>1. \A k \in DOMAIN log' : log'[k].type = "ioc.matched" => k \in DOMAIN log /\ log'[k] = log[k]
    BY <1>3, <1>4, Zenon
  <2>2. \A ioc, ref : HasIncident(ioc, ref) => HasIncidentThen(ioc, ref)
    BY <1>2, Zenon DEF HasIncident, HasIncidentThen
  <2> QED
    BY <2>1, <2>2, MatchedEventsKept, Zenon DEF EventInv
<1>11. \A q \in Procs : ScanSound(q)' /\ OutboxSound(q)'
  BY <1>1, <1>2, <1>7, OthersSound, Zenon
<1> QED
  BY <1>6, <1>8, <1>9, <1>10, <1>11, Zenon DEF EventInv

LEMMA AcceptEventInv ==
    ASSUME EventInv, IInv', NEW p \in Procs, NEW r \in Requests, Accept(p, r)
    PROVE  EventInv'
<1>1. /\ pc[p] = "idle" /\ pc'[p] = "store" /\ todo'[p] = {} /\ outbox'[p] = {}
      /\ \A q \in Procs : q # p =>
           pc'[q] = pc[q] /\ req'[q] = req[q] /\ todo'[q] = todo[q] /\ outbox'[q] = outbox[q]
      /\ UNCHANGED <<note, failed, incidents, log>>
  <2>1. /\ pc \in [Procs -> Labels] /\ req \in [Procs -> Nat]
        /\ todo \in [Procs -> SUBSET Pairs] /\ DOMAIN outbox = Procs
    BY Zenon DEF EventInv, IInv, TypeOK, HandlersOK
  <2> QED
    BY <2>1, Zenon DEF Accept, Goto, outcomes
<1>2. \A q \in Procs : ScanSound(q)' /\ OutboxSound(q)'
  <2>1. ScanSound(p)' /\ OutboxSound(p)'
    BY <1>1, Zenon DEF ScanSound, OutboxSound
  <2>2. ASSUME NEW q \in Procs, q # p
        PROVE  ScanSound(q)' /\ OutboxSound(q)'
    <3>1. pc[q] # "idle" => Job(q)' = Job(q)
      <4>1. pc[q] # "idle" => req[q] \in DOMAIN requests
        BY Zenon DEF EventInv, IInv, TypeOK, HandlersOK, InFlight
      <4> QED
        BY <1>1, <2>2, <4>1, AcceptKeepsRequests, ZenonT(30) DEF EventInv, IInv, Job
    <3> QED
      BY <1>1, <2>2, <3>1, SameIncidents, Zenon DEF EventInv, ScanSound, OutboxSound, InFlight, matchPair
  <2> QED
    BY <2>1, <2>2, Zenon
<1>3. NotesKept /\ QuietLog
  BY <1>1, Zenon DEF NotesKept, QuietLog
<1> QED
  BY <1>1, <1>2, <1>3, SameIncidents, QuietEventInv, Zenon

LEMMA HandlerEventInv ==
    ASSUME EventInv, IInv', NEW p \in Procs, Handler(p)
    PROVE  EventInv'
<1>1. p \in InFlight /\ LocalStep(p)
  BY HandlerLocal, Zenon DEF EventInv
<1>2. \/ EventStep(p)
      \/ PublishOpened(p)
      \/ \E pair \in todo[p], ok \in BOOLEAN : OpenIncident(p, pair, ok)
  BY <1>1, MovesEventStep, MatchingEventStep, ListSBOMsEventStep, SkipPairEventStep,
     PublishMatchedEventStep, Zenon DEF Handler
<1> QED
  BY <1>1, <1>2, EventStepInv, OpenIncidentEventInv, PublishOpenedEventInv, Zenon

(* Triage handlers publish events of their own kinds. *)
LEMMA TriageQuietLog ==
    ASSUME IInv, TriageNext
    PROVE  QuietLog
<1>1. ASSUME NEW o \in Operators, PublishTransitioned(o)
      PROVE  QuietLog
  <2> DEFINE e == Transitioned(task[o].inc, task[o].from, task[o].copy.state)
  <2>1. task[o] \in TransitionTasks
    BY <1>1, Zenon DEF IInv, TypeOK, OperatorsOK, PublishTransitioned
  <2>2. e \in Events /\ e.type = "incident.transitioned"
    BY <2>1, Zenon DEF Transitioned, TransitionTasks, Incident, Events
  <2>3. log' = Append(log, e)
    BY <1>1, Zenon DEF PublishTransitioned, Publish
  <2> HIDE DEF e
  <2> QED
    BY <2>2, <2>3, Zenon DEF QuietLog
<1>2. ASSUME NEW o \in Operators, PublishRemediationAdded(o)
      PROVE  QuietLog
  <2> DEFINE e == RemediationAdded(task[o].inc, task[o].rem)
  <2>1. task[o] \in RemediationTasks
    BY <1>2, Zenon DEF IInv, TypeOK, OperatorsOK, PublishRemediationAdded
  <2>2. e \in Events /\ e.type = "remediation.added"
    BY <2>1, Zenon DEF RemediationAdded, RemediationTasks, Events
  <2>3. log' = Append(log, e)
    BY <1>2, Zenon DEF PublishRemediationAdded, Publish
  <2> HIDE DEF e
  <2> QED
    BY <2>2, <2>3, Zenon DEF QuietLog
<1> QED
  BY <1>1, <1>2, Zenon DEF TriageNext, TriageRequest, TriageHandler, GetIncident, BeginRemediation,
     TAccept, WriteTransition, AddRemediation, QuietLog

LEMMA NextEventInv ==
    ASSUME EventInv, [Next]_vars
    PROVE  EventInv'
<1>1. IInv'
  BY NextIInv, Zenon DEF EventInv
<1>2. ASSUME UNCHANGED <<requests, req, pc, todo, note, outbox, failed>>, QuietLog, IncidentsGrow,
             DOMAIN incidents' = DOMAIN incidents
      PROVE  EventInv'
  <2>1. NotesKept
    BY <1>2, Zenon DEF NotesKept
  <2>2. \A q \in Procs : ScanSound(q)'
    BY <1>2, Zenon DEF EventInv, ScanSound, Job
  <2>3. \A ioc, ref : HasIncident(ioc, ref) => HasIncident(ioc, ref)'
    BY <1>2, GrowKeepsIncident, Zenon
  <2>4. \A q \in Procs : OutboxSound(q)'
    BY <1>2, <2>3, Zenon DEF EventInv, OutboxSound, InFlight, matchPair
  <2> QED
    BY <1>1, <1>2, <2>1, <2>2, <2>4, QuietEventInv, Zenon
<1>3. CASE SubNext
  <2>1. ASSUME NEW ref \in Refs, UpsertComponent(ref)
        PROVE  EventInv'
    BY <1>2, <2>1, SameIncidents, Zenon DEF UpsertComponent, locals, outcomes, QuietLog
  <2>2. ASSUME NEW p \in Procs, Request(p)
        PROVE  EventInv'
    BY <1>1, <2>2, RequestAccepts, AcceptEventInv, Zenon
  <2>3. ASSUME NEW p \in Procs, Handler(p)
        PROVE  EventInv'
    BY <1>1, <2>3, HandlerEventInv, Zenon
  <2> QED
    BY <1>3, <2>1, <2>2, <2>3, Zenon DEF SubNext
<1>4. CASE TriageNext /\ UNCHANGED subVars
  <2>1. UNCHANGED <<requests, req, pc, todo, note, outbox, failed>>
    BY <1>4, Zenon DEF subVars, locals
  <2> QED
    BY <1>2, <1>4, <2>1, TriageGrow, TriageDomain, TriageQuietLog, Zenon DEF EventInv
<1>5. CASE Restart
  <2>1. /\ pc' = [p \in Procs |-> "idle"]
        /\ failed' = failed \cup { req[p] : p \in InFlight }
    BY <1>5, Zenon DEF Restart
  <2>2. \A q \in Procs : NoteSound(q)' /\ ScanSound(q)' /\ OutboxSound(q)'
    BY <2>1, Zenon DEF NoteSound, ScanSound, OutboxSound, InFlight
  <2>3. CASE incidents' = <<>> /\ log' = <<>>
    <3>1. \A n \in DOMAIN incidents' : Accounted(n)'
      BY <2>3
    <3>2. OpenedEventsFaithful' /\ MatchedEventsHaveIncidents'
      BY <2>3 DEF OpenedEventsFaithful, MatchedEventsHaveIncidents
    <3> QED
      BY <1>1, <2>2, <3>1, <3>2, Zenon DEF EventInv
  <2>4. CASE UNCHANGED <<incidents, log>>
    <3>1. ASSUME NEW n \in DOMAIN incidents
          PROVE  Accounted(n)'
      <4>1. Announced(n) \/ incidents[n].by \in failed'
        BY <2>1, Zenon DEF EventInv, Accounted, InFlight
      <4> QED
        BY <2>4, <4>1, Zenon DEF Accounted, Announced
    <3>2. OpenedEventsFaithful' /\ MatchedEventsHaveIncidents'
      BY <2>4 DEF EventInv, OpenedEventsFaithful, MatchedEventsHaveIncidents, HasIncident, matchPair
    <3> QED
      BY <1>1, <2>2, <2>4, <3>1, <3>2, Zenon DEF EventInv
  <2> QED
    BY <1>5, <2>3, <2>4, Zenon DEF Restart
<1>6. CASE UNCHANGED vars
  BY <1>2, <1>6, SameIncidents, Zenon DEF vars, subVars, locals, QuietLog
<1> QED
  BY <1>3, <1>4, <1>5, <1>6, Zenon DEF Next

LEMMA EventInvariant == Spec => []EventInv
<1>1. Init => EventInv
  BY InitIInv, NothingYet, Zenon DEF Init, SubInit, IncidentsInit, EventInv, NoteSound, ScanSound, OutboxSound, InFlight,
     OpenedEventsFaithful, MatchedEventsHaveIncidents
<1> QED
  BY <1>1, NextEventInv, PTL DEF Spec

(* A submission answered with success has announced every incident it      *)
(* opened, whatever the other handlers did in between: an incident without *)
(* its incident.opened belongs to a submission that failed or died, or     *)
(* whose handler has yet to publish it.                                    *)
THEOREM AckedOpeningsAnnounced == Spec => []AckedIncidentsAnnounced
<1>1. EventInv => AckedIncidentsAnnounced
  <2> SUFFICES ASSUME EventInv, NEW n \in DOMAIN incidents, incidents[n].by \in acked
               PROVE  Announced(n)
    BY Zenon DEF AckedIncidentsAnnounced
  <2>1. incidents[n].by \notin failed
    BY Zenon DEF EventInv, IInv, RequestsExclusive
  <2>2. \A p \in Procs : pc[p] = "announce" => req[p] # incidents[n].by
    BY Zenon DEF EventInv, IInv, RequestsExclusive, InFlight
  <2> QED
    BY <2>1, <2>2, Zenon DEF EventInv, Accounted
<1> QED
  BY <1>1, EventInvariant, PTL

(* On either backend incident.opened is published at most once per incident *)
(* and names what the row holds, and every component an ioc.matched names   *)
(* has an incident.                                                         *)
THEOREM OpeningEventsTrue == Spec => [](OpenedEventsFaithful /\ MatchedEventsHaveIncidents)
<1>1. EventInv => OpenedEventsFaithful /\ MatchedEventsHaveIncidents
  BY Zenon DEF EventInv
<1> QED
  BY <1>1, EventInvariant, PTL

-----------------------------------------------------------------------------
(* What submissions do to the two variables they share with triage. *)

LEMMA SubmissionPublishes ==
    ASSUME IInv, SubNext
    PROVE  \/ UNCHANGED log
           \/ \E e \in Events : /\ log' = Append(log, e)
                                /\ e.type \notin {"incident.transitioned", "remediation.added"}
<1> DEFINE Quiet == \/ UNCHANGED log
                    \/ \E e \in Events : /\ log' = Append(log, e)
                                         /\ e.type \notin {"incident.transitioned", "remediation.added"}
<1>1. ASSUME NEW p \in Procs, PublishIngested(p)
      PROVE  Quiet
  <2> DEFINE e == [type |-> "sbom.ingested", sbom |-> req[p]]
  <2>1. e \in Events /\ e.type = "sbom.ingested"
    BY Zenon DEF Events, IInv, TypeOK, HandlersOK
  <2>2. log' = Append(log, e)
    BY <1>1, Zenon DEF PublishIngested, Publish
  <2> HIDE DEF e
  <2> QED
    BY <2>1, <2>2, Zenon
<1>2. ASSUME NEW p \in Procs, PublishOpened(p)
      PROVE  Quiet
  BY <1>2, Zenon DEF PublishOpened, Publish, Events, OpenedEvents, IInv, TypeOK, HandlersOK
<1>3. ASSUME NEW p \in Procs, NEW e \in outbox[p], PublishMatched(p, e)
      PROVE  Quiet
  BY <1>3 DEF PublishMatched, Publish, Events, MatchedEvents, IInv, TypeOK, HandlersOK
<1>4. ASSUME NEW p \in Procs, Request(p)
      PROVE  UNCHANGED log
  BY <1>4, RequestAccepts, Zenon DEF Accept
<1>5. CASE \E ref \in Refs : UpsertComponent(ref)
  BY <1>5, Zenon DEF UpsertComponent
<1>6. ASSUME NEW p \in Procs, Handler(p), ~PublishIngested(p), ~PublishOpened(p),
             ~\E e \in outbox[p] : PublishMatched(p, e)
      PROVE  UNCHANGED log
  BY <1>6, ZenonT(30) DEF Handler, UpsertSBOM, UpsertIoC, ListIoCs, LookupPackages, ListComponents,
     ListSBOMsByComponent, FinishScan, ListIncidents, SkipPair, OpenIncident, FinishOpening, Respond,
     ReadError
<1> QED
  BY <1>1, <1>2, <1>3, <1>4, <1>5, <1>6, Zenon DEF SubNext

LEMMA SubmissionOpens ==
    ASSUME IInv, SubNext
    PROVE  \/ UNCHANGED incidents
           \/ \E p \in Procs : \E pair \in todo[p] \ open[p] :
                /\ pc[p] = "open" /\ open'[p] = open[p] \cup {pair}
                /\ incidents' = Append(incidents, NewIncident(pair.ioc, pair.ref, req[p]))
<1>1. ASSUME NEW p \in Procs, NEW pair \in todo[p], NEW ok \in BOOLEAN, OpenIncident(p, pair, ok)
      PROVE  \/ UNCHANGED incidents
             \/ /\ pair \in todo[p] \ open[p] /\ pc[p] = "open" /\ open'[p] = open[p] \cup {pair}
                /\ incidents' = Append(incidents, NewIncident(pair.ioc, pair.ref, req[p]))
  <2>1. open'[p] = open[p] \cup {pair} /\ pair \in todo[p] \ open[p] /\ pc[p] = "open"
    BY <1>1, Zenon DEF OpenIncident, IInv, TypeOK, HandlersOK
  <2>2. UNCHANGED incidents \/ incidents' = Append(incidents, NewIncident(pair.ioc, pair.ref, req[p]))
    BY <1>1, Zenon DEF OpenIncident
  <2> QED
    BY <2>1, <2>2, Zenon
<1>2. ASSUME NEW p \in Procs, Handler(p),
             ~\E pair \in todo[p], ok \in BOOLEAN : OpenIncident(p, pair, ok)
      PROVE  UNCHANGED incidents
  BY <1>2, ZenonT(30) DEF Handler, UpsertSBOM, UpsertIoC, PublishIngested, ListIoCs, LookupPackages,
     ListComponents, ListSBOMsByComponent, FinishScan, ListIncidents, SkipPair, PublishOpened,
     FinishOpening, PublishMatched, Respond, ReadError
<1>3. ASSUME NEW p \in Procs, Request(p)
      PROVE  UNCHANGED incidents
  BY <1>3, RequestAccepts, Zenon DEF Accept
<1>4. CASE \E ref \in Refs : UpsertComponent(ref)
  BY <1>4, Zenon DEF UpsertComponent
<1> QED
  BY <1>1, <1>2, <1>3, <1>4 DEF SubNext

(* Incidents open in state pending and the ones there are stay as they are. *)
LEMMA SubmissionKeepsIncidents ==
    ASSUME IInv, SubNext
    PROVE  /\ \A n \in DOMAIN incidents : n \in DOMAIN incidents' /\ incidents'[n] = incidents[n]
           /\ \A n \in DOMAIN incidents' \ DOMAIN incidents :
                n = Len(incidents) + 1 /\ incidents'[n].state = "pending"
<1>1. ASSUME NEW row, row.state = "pending", incidents' = Append(incidents, row)
      PROVE  /\ \A n \in DOMAIN incidents : n \in DOMAIN incidents' /\ incidents'[n] = incidents[n]
             /\ \A n \in DOMAIN incidents' \ DOMAIN incidents :
                  n = Len(incidents) + 1 /\ incidents'[n].state = "pending"
  BY <1>1 DEF IInv, TypeOK
<1>2. \A ioc, ref, by : NewIncident(ioc, ref, by).state = "pending"
  BY Zenon DEF NewIncident
<1> QED
  BY <1>1, <1>2, SubmissionOpens

-----------------------------------------------------------------------------
(* The audit log. *)

(* Entries of an audit log are only added, at the end. *)
RemediationsGrow ==
    \A n \in DOMAIN incidents :
      LET old == incidents[n].remediations
          new == incidents'[n].remediations
      IN  n \in DOMAIN incidents' /\ Len(old) <= Len(new) /\ \A k \in DOMAIN old : new[k] = old[k]

Recorded(n, rem) ==
    n \in DOMAIN incidents /\
      \E m \in DOMAIN incidents[n].remediations : incidents[n].remediations[m] = rem

AuditInv ==
    /\ IInv
    /\ \A o \in Operators : tpc[o] = "added" => Recorded(task[o].inc, task[o].rem)
    /\ \A k \in DOMAIN log : log[k].type = "remediation.added" => Recorded(log[k].inc, log[k].rem)

LEMMA OrderReflexive == \A i \in Nat : i <= i
  OBVIOUS

LEMMA KeptIncidentsGrow ==
    ASSUME IInv, \A n \in DOMAIN incidents : n \in DOMAIN incidents' /\ incidents'[n] = incidents[n]
    PROVE  RemediationsGrow
<1>1. \A n \in DOMAIN incidents : Len(incidents[n].remediations) \in Nat
  BY DEF IInv, TypeOK, Incident
<1> QED
  BY <1>1 DEF RemediationsGrow

(* The Postgres upsert of an incident leaves the remediations table alone. *)
LEMMA TriageRemediationsGrow ==
    ASSUME Backend = "postgres", IInv, TriageNext
    PROVE  RemediationsGrow
<1>1. ASSUME NEW o \in Operators, NEW ok \in BOOLEAN, WriteTransition(o, ok),
             UpsertIncident(task[o].inc, task[o].copy)
      PROVE  RemediationsGrow
  <2> DEFINE m == task[o].inc
             row == UpsertedRow(incidents[m], task[o].copy)
  <2>1. m \in DOMAIN incidents /\ task[o].copy \in Incident
    BY <1>1, Zenon DEF WriteTransition, IInv, TypeOK, OperatorsOK, TransitionTasks
  <2>2. row.remediations = incidents[m].remediations
    BY <2>1, Zenon DEF UpsertedRow, Incident
  <2>3. incidents' = [incidents EXCEPT ![m] = row]
    BY <1>1, Zenon DEF UpsertIncident
  <2> HIDE DEF m, row
  <2>4. \A n \in DOMAIN incidents :
          n \in DOMAIN incidents' /\ incidents'[n].remediations = incidents[n].remediations
    BY <2>1, <2>2, <2>3, Zenon DEF IInv, TypeOK
  <2>5. \A n \in DOMAIN incidents : Len(incidents[n].remediations) \in Nat
    BY DEF IInv, TypeOK, Incident
  <2> QED
    BY <2>4, <2>5 DEF RemediationsGrow
<1>2. ASSUME NEW o \in Operators, NEW ok \in BOOLEAN, AddRemediation(o, ok),
             AppendRemediation(task[o].inc, task[o].rem)
      PROVE  RemediationsGrow
  <2> DEFINE m == task[o].inc
  <2>1. m \in DOMAIN incidents /\ task[o].rem \in Nat
    BY <1>2, Zenon DEF AddRemediation, IInv, TypeOK, OperatorsOK, RemediationTasks
  <2>2. \A n \in DOMAIN incidents : incidents[n] \in Incident
    BY DEF IInv, TypeOK
  <2>3. /\ DOMAIN incidents' = DOMAIN incidents
        /\ \A n \in DOMAIN incidents : n # m => incidents'[n] = incidents[n]
        /\ incidents'[m].remediations = Append(incidents[m].remediations, task[o].rem)
    BY <1>2, <2>1, <2>2, Zenon DEF AppendRemediation, Incident
  <2>4. \A n \in DOMAIN incidents : incidents[n].remediations \in Seq(Nat)
    BY <2>2, Zenon DEF Incident
  <2> HIDE DEF m
  <2>5. /\ Len(incidents[m].remediations) <= Len(incidents'[m].remediations)
        /\ \A k \in DOMAIN incidents[m].remediations :
             incidents'[m].remediations[k] = incidents[m].remediations[k]
    BY <2>1, <2>3, <2>4
  <2>6. \A n \in DOMAIN incidents : Len(incidents[n].remediations) \in Nat
    BY <2>4
  <2> QED
    BY <2>3, <2>5, <2>6, Zenon, OrderReflexive DEF RemediationsGrow
<1>3. UNCHANGED incidents => RemediationsGrow
  BY KeptIncidentsGrow, Zenon
<1> QED
  BY <1>1, <1>2, <1>3, Zenon DEF TriageNext, TriageRequest, TriageHandler, GetIncident, BeginRemediation,
     TAccept, WriteTransition, AddRemediation, PublishTransitioned, PublishRemediationAdded

LEMMA NextRemediationsGrow ==
    ASSUME Backend = "postgres", IInv, [Next]_vars
    PROVE  RemediationsGrow
<1>1. CASE SubNext
  BY <1>1, SubmissionKeepsIncidents, KeptIncidentsGrow, Zenon
<1>2. CASE TriageNext
  BY <1>2, TriageRemediationsGrow, Zenon
<1>3. CASE Restart \/ UNCHANGED vars
  BY <1>3, KeptIncidentsGrow, Zenon DEF Restart, vars
<1> QED
  BY <1>1, <1>2, <1>3, Zenon DEF Next

(* With Postgres the audit log of an incident is append-only, although     *)
(* TransitionIncident writes back whole incidents it read earlier: the     *)
(* statement does not touch the remediations.                              *)
THEOREM AuditLogAppendOnly ==
    ASSUME Backend = "postgres"
    PROVE  Spec => RemediationsAppendOnly
<1>1. IInv /\ [Next]_vars =>
        [\A n \in DOMAIN incidents \cap DOMAIN incidents' :
           LET old == incidents[n].remediations
               new == incidents'[n].remediations
           IN  Len(old) <= Len(new) /\ \A k \in DOMAIN old : new[k] = old[k]]_vars
  BY NextRemediationsGrow, Zenon DEF RemediationsGrow
<1> QED
  BY <1>1, Invariant, PTL DEF Spec, RemediationsAppendOnly

(* Recorded after the step. *)
RecordedThen(n, rem) ==
    n \in DOMAIN incidents' /\
      \E m \in DOMAIN incidents'[n].remediations : incidents'[n].remediations[m] = rem

LEMMA RecordedKept ==
    ASSUME IInv, IInv', RemediationsGrow
    PROVE  \A n, rem : Recorded(n, rem) => RecordedThen(n, rem)
<1> SUFFICES ASSUME NEW n, NEW rem, Recorded(n, rem)
             PROVE  RecordedThen(n, rem)
  BY Zenon
<1>1. n \in DOMAIN incidents /\ n \in DOMAIN incidents'
  BY Zenon DEF Recorded, RemediationsGrow
<1>2. incidents[n].remediations \in Seq(Nat) /\ incidents'[n].remediations \in Seq(Nat)
  <2>1. incidents[n] \in Incident /\ incidents'[n] \in Incident
    BY <1>1 DEF IInv, TypeOK
  <2> QED
    BY <2>1, Zenon DEF Incident
<1>3. DOMAIN incidents[n].remediations \subseteq DOMAIN incidents'[n].remediations
  BY <1>1, <1>2 DEF RemediationsGrow
<1> QED
  BY <1>1, <1>3, Zenon DEF Recorded, RecordedThen, RemediationsGrow

(* A step that neither finishes an append nor publishes about one. *)
LEMMA QuietAuditInv ==
    ASSUME AuditInv, IInv', RemediationsGrow,
           \A o \in Operators : tpc'[o] = "added" => tpc[o] = "added" /\ task'[o] = task[o],
           \/ UNCHANGED log
           \/ \E e \in Events : log' = Append(log, e) /\ e.type # "remediation.added"
    PROVE  AuditInv'
<1>1. \A n, rem : Recorded(n, rem) => RecordedThen(n, rem)
  BY RecordedKept, Zenon DEF AuditInv
<1>2. \A o \in Operators : tpc'[o] = "added" => Recorded(task[o].inc, task[o].rem)'
  <2> SUFFICES ASSUME NEW o \in Operators, tpc'[o] = "added"
               PROVE  RecordedThen(task'[o].inc, task'[o].rem)
    BY Zenon DEF Recorded, RecordedThen
  <2>1. task'[o] = task[o] /\ Recorded(task[o].inc, task[o].rem)
    BY Zenon DEF AuditInv
  <2> QED
    BY <1>1, <2>1, Zenon
<1>3. \A k \in DOMAIN log' : log'[k].type = "remediation.added" => k \in DOMAIN log /\ log'[k] = log[k]
  BY DEF AuditInv, IInv, TypeOK
<1>4. \A k \in DOMAIN log' : log'[k].type = "remediation.added" => Recorded(log[k].inc, log[k].rem)'
  <2> SUFFICES ASSUME NEW k \in DOMAIN log', log'[k].type = "remediation.added"
               PROVE  RecordedThen(log'[k].inc, log'[k].rem)
    BY Zenon DEF Recorded, RecordedThen
  <2>1. log'[k] = log[k] /\ Recorded(log[k].inc, log[k].rem)
    BY <1>3, Zenon DEF AuditInv
  <2> QED
    BY <1>1, <2>1, Zenon
<1> QED
  BY <1>2, <1>4, Zenon DEF AuditInv

LEMMA AddRemediationAuditInv ==
    ASSUME Backend = "postgres", AuditInv, IInv', RemediationsGrow,
           NEW o \in Operators, NEW ok \in BOOLEAN, AddRemediation(o, ok)
    PROVE  AuditInv'
<1>1. /\ UNCHANGED <<task, log>> /\ (tpc'[o] = "added" => ok)
      /\ \A q \in Operators : q # o => tpc'[q] = tpc[q]
  BY Zenon DEF AddRemediation, TProceed, TGoto, AuditInv, IInv, TypeOK, OperatorsOK
<1>2. CASE ~ok
  BY <1>1, <1>2, QuietAuditInv, Zenon
<1>3. CASE ok
  <2>1. task[o].inc \in DOMAIN incidents /\ task[o].rem \in Nat
    BY Zenon DEF AddRemediation, AuditInv, IInv, TypeOK, OperatorsOK, RemediationTasks
  <2>2. AppendRemediation(task[o].inc, task[o].rem)
    BY <1>3, Zenon DEF AddRemediation, WriteOutcomes
  <2>3. incidents[task[o].inc] \in Incident /\ incidents[task[o].inc].remediations \in Seq(Nat)
    <3>1. incidents[task[o].inc] \in Incident
      BY <2>1 DEF AuditInv, IInv, TypeOK
    <3> QED
      BY <3>1, Zenon DEF Incident
  <2>4. /\ DOMAIN incidents' = DOMAIN incidents
        /\ incidents'[task[o].inc].remediations = Append(incidents[task[o].inc].remediations, task[o].rem)
    BY <2>1, <2>2, <2>3, Zenon DEF AppendRemediation, Incident, AuditInv, IInv, TypeOK
  <2> DEFINE m == Len(incidents[task[o].inc].remediations) + 1
  <2>5. m \in DOMAIN incidents'[task[o].inc].remediations
        /\ incidents'[task[o].inc].remediations[m] = task[o].rem
    BY <2>1, <2>3, <2>4
  <2>6. Recorded(task[o].inc, task[o].rem)'
    BY <1>1, <2>1, <2>4, <2>5, Zenon DEF Recorded
  <2>7. \A n, rem : Recorded(n, rem) => RecordedThen(n, rem)
    BY RecordedKept, Zenon DEF AuditInv
  <2>8. ASSUME NEW q \in Operators, q # o, tpc'[q] = "added"
        PROVE  Recorded(task[q].inc, task[q].rem)'
    <3>1. Recorded(task[q].inc, task[q].rem)
      BY <1>1, <2>8, Zenon DEF AuditInv
    <3>2. RecordedThen(task[q].inc, task[q].rem)
      BY <2>7, <3>1, Zenon
    <3> QED
      BY <1>1, <3>2, Zenon DEF Recorded, RecordedThen
  <2>9. ASSUME NEW k \in DOMAIN log, log[k].type = "remediation.added"
        PROVE  Recorded(log[k].inc, log[k].rem)'
    <3>1. Recorded(log[k].inc, log[k].rem)
      BY <2>9, Zenon DEF AuditInv
    <3>2. RecordedThen(log[k].inc, log[k].rem)
      BY <2>7, <3>1, Zenon
    <3> QED
      BY <1>1, <3>2, Zenon DEF Recorded, RecordedThen
  <2> QED
    BY <1>1, <2>6, <2>8, <2>9 DEF AuditInv
<1> QED
  BY <1>2, <1>3, Zenon

LEMMA PublishAddedAuditInv ==
    ASSUME AuditInv, IInv', NEW o \in Operators, PublishRemediationAdded(o)
    PROVE  AuditInv'
<1> DEFINE e == RemediationAdded(task[o].inc, task[o].rem)
<1>1. /\ Recorded(task[o].inc, task[o].rem) /\ UNCHANGED <<task, incidents>> /\ log' = Append(log, e)
      /\ \A q \in Operators : tpc'[q] = "added" => tpc[q] = "added"
  BY Zenon DEF PublishRemediationAdded, Publish, TGoto, AuditInv, IInv, TypeOK, OperatorsOK
<1>2. e.inc = task[o].inc /\ e.rem = task[o].rem
  BY Zenon DEF RemediationAdded
<1> HIDE DEF e
<1>3. \A k \in DOMAIN log' : (k \in DOMAIN log /\ log'[k] = log[k]) \/ log'[k] = e
  BY <1>1 DEF AuditInv, IInv, TypeOK
<1>4. \A k \in DOMAIN log' : log'[k].type = "remediation.added" => Recorded(log[k].inc, log[k].rem)'
  BY <1>1, <1>2, <1>3 DEF AuditInv, Recorded
<1>5. \A q \in Operators : tpc'[q] = "added" => Recorded(task[q].inc, task[q].rem)'
  BY <1>1, Zenon DEF AuditInv, Recorded
<1> QED
  BY <1>4, <1>5, Zenon DEF AuditInv

LEMMA NextAuditInv ==
    ASSUME Backend = "postgres", AuditInv, [Next]_vars
    PROVE  AuditInv'
<1>1. IInv' /\ RemediationsGrow
  BY NextIInv, NextRemediationsGrow, Zenon DEF AuditInv
<1>2. CASE SubNext /\ UNCHANGED triageVars
  BY <1>1, <1>2, SubmissionPublishes, QuietAuditInv, Zenon DEF triageVars, AuditInv
<1>3. CASE TriageNext
  <2>1. ASSUME NEW o \in Operators, NEW n \in DOMAIN incidents, TriageRequest(o, n)
        PROVE  AuditInv'
    <3>1. /\ UNCHANGED log
          /\ \A q \in Operators : tpc'[q] = "added" => tpc[q] = "added" /\ task'[q] = task[q]
      BY <2>1, Zenon DEF TriageRequest, GetIncident, BeginRemediation, TAccept, TGoto, AuditInv, IInv, TypeOK,
         OperatorsOK
    <3> QED
      BY <1>1, <3>1, QuietAuditInv, Zenon
  <2>2. ASSUME NEW o \in Operators, NEW ok \in BOOLEAN, WriteTransition(o, ok)
        PROVE  AuditInv'
    <3>1. /\ UNCHANGED <<task, log>>
          /\ \A q \in Operators : tpc'[q] = "added" => tpc[q] = "added"
      BY <2>2, Zenon DEF WriteTransition, TProceed, TGoto, AuditInv, IInv, TypeOK, OperatorsOK
    <3> QED
      BY <1>1, <3>1, QuietAuditInv, Zenon
  <2>3. ASSUME NEW o \in Operators, PublishTransitioned(o)
        PROVE  AuditInv'
    <3> DEFINE e == Transitioned(task[o].inc, task[o].from, task[o].copy.state)
    <3>1. task[o] \in TransitionTasks
      BY <2>3, Zenon DEF AuditInv, IInv, TypeOK, OperatorsOK, PublishTransitioned
    <3>2. e \in Events /\ e.type = "incident.transitioned"
      BY <3>1, Zenon DEF Transitioned, TransitionTasks, Incident, Events
    <3>3. /\ log' = Append(log, e) /\ UNCHANGED task
          /\ \A q \in Operators : tpc'[q] = "added" => tpc[q] = "added"
      BY <2>3, Zenon DEF PublishTransitioned, Publish, TGoto, AuditInv, IInv, TypeOK, OperatorsOK
    <3> HIDE DEF e
    <3> QED
      BY <1>1, <3>2, <3>3, QuietAuditInv
  <2> QED
    BY <1>1, <1>3, <2>1, <2>2, <2>3, AddRemediationAuditInv, PublishAddedAuditInv, Zenon
       DEF TriageNext, TriageHandler
<1>4. CASE Restart
  <2>1. UNCHANGED log /\ \A o \in Operators : tpc'[o] # "added"
    BY <1>4, Zenon DEF Restart
  <2> QED
    BY <1>1, <2>1, QuietAuditInv, Zenon
<1>5. CASE UNCHANGED vars
  BY <1>1, <1>5, QuietAuditInv, Zenon DEF vars, triageVars
<1> QED
  BY <1>2, <1>3, <1>4, <1>5, Zenon DEF Next

(* With Postgres, what subscribers are told is what the tables say, at     *)
(* every later moment too: incident.opened names its row, and only once;   *)
(* the components of ioc.matched have incidents; a remediation announced   *)
(* by remediation.added is in the audit log of its incident.               *)
THEOREM EventsTrue ==
    ASSUME Backend = "postgres"
    PROVE  Spec => []EventsMatchRows
<1>1. Init => AuditInv
  BY InitIInv DEF Init, TriageInit, IncidentsInit, AuditInv
<1>2. AuditInv /\ [Next]_vars => AuditInv'
  BY NextAuditInv, Zenon
<1>3. AuditInv /\ EventInv => EventsMatchRows
  BY Zenon DEF AuditInv, EventInv, EventsMatchRows, RemediationEventsRecorded, Recorded
<1> QED
  BY <1>1, <1>2, <1>3, EventInvariant, PTL DEF Spec

-----------------------------------------------------------------------------
(* Triage requests that do not overlap. *)

(* The copy a transition writes was computed from the row as it still is. *)
CopiesFresh ==
    \A o \in Operators : tpc[o] = "write" =>
      /\ incidents[task[o].inc].state = task[o].from
      /\ CanTransitionTo(task[o].from, task[o].copy.state)

FreshInv == IInv /\ CopiesFresh

(* The incidents follow the state machine, also when they are written back. *)
StatesFollow ==
    \A n \in DOMAIN incidents :
      n \in DOMAIN incidents' /\ CanTransitionTo(incidents[n].state, incidents'[n].state)

LEMMA WriteTransitionStates ==
    ASSUME IInv, NEW o \in Operators, NEW ok \in BOOLEAN, WriteTransition(o, ok)
    PROVE  /\ task[o].inc \in DOMAIN incidents /\ DOMAIN incidents' = DOMAIN incidents
           /\ \A n \in DOMAIN incidents : n # task[o].inc => incidents'[n] = incidents[n]
           /\ \/ incidents'[task[o].inc].state = task[o].copy.state
              \/ incidents' = incidents /\ ~ok
<1>1. task[o].inc \in DOMAIN incidents /\ task[o].copy \in Incident
  BY Zenon DEF WriteTransition, IInv, TypeOK, OperatorsOK, TransitionTasks
<1>2. CASE UpsertIncident(task[o].inc, task[o].copy)
  <2> DEFINE row == UpsertedRow(incidents[task[o].inc], task[o].copy)
  <2>1. row.state = task[o].copy.state
    BY <1>1, Zenon DEF UpsertedRow, Incident
  <2>2. incidents' = [incidents EXCEPT ![task[o].inc] = row]
    BY <1>2, Zenon DEF UpsertIncident
  <2> HIDE DEF row
  <2> QED
    BY <1>1, <2>1, <2>2, Zenon DEF IInv, TypeOK
<1>3. CASE UNCHANGED incidents /\ ~ok
  BY <1>1, <1>3, Zenon
<1> QED
  BY <1>2, <1>3, Zenon DEF WriteTransition, WriteOutcomes

LEMMA AddRemediationStates ==
    ASSUME IInv, NEW o \in Operators, NEW ok \in BOOLEAN, AddRemediation(o, ok)
    PROVE  /\ DOMAIN incidents' = DOMAIN incidents
           /\ \A n \in DOMAIN incidents : incidents'[n].state = incidents[n].state
<1>1. task[o].inc \in DOMAIN incidents /\ \A n \in DOMAIN incidents : incidents[n] \in Incident
  BY DEF AddRemediation, IInv, TypeOK, OperatorsOK
<1>2. CASE AppendRemediation(task[o].inc, task[o].rem)
  BY <1>1, <1>2, Zenon DEF AppendRemediation, Incident
<1> QED
  BY <1>2, ZenonT(30) DEF AddRemediation

LEMMA TriageStatesFollow ==
    ASSUME FreshInv, TriageNext
    PROVE  StatesFollow
<1>1. ASSUME NEW o \in Operators, NEW ok \in BOOLEAN, WriteTransition(o, ok)
      PROVE  StatesFollow
  <2>1. /\ incidents[task[o].inc].state = task[o].from
        /\ CanTransitionTo(task[o].from, task[o].copy.state)
    BY <1>1, Zenon DEF FreshInv, CopiesFresh, WriteTransition
  <2> QED
    BY <1>1, <2>1, WriteTransitionStates, Zenon DEF StatesFollow, FreshInv, CanTransitionTo
<1>2. ASSUME NEW o \in Operators, NEW ok \in BOOLEAN, AddRemediation(o, ok)
      PROVE  StatesFollow
  BY <1>2, AddRemediationStates, Zenon DEF StatesFollow, FreshInv, CanTransitionTo
<1>3. UNCHANGED incidents => StatesFollow
  BY Zenon DEF StatesFollow, CanTransitionTo
<1> QED
  BY <1>1, <1>2, <1>3, Zenon DEF TriageNext, TriageRequest, TriageHandler, GetIncident, BeginRemediation,
     TAccept, PublishTransitioned, PublishRemediationAdded

LEMMA NextFreshInv ==
    ASSUME \A o, q \in Operators : o = q, FreshInv, [Next]_vars
    PROVE  FreshInv'
<1>1. IInv'
  BY NextIInv, Zenon DEF FreshInv
<1>2. \A o \in Operators : tpc[o] = "write" => task[o].inc \in DOMAIN incidents
  BY Zenon DEF FreshInv, IInv, TypeOK, OperatorsOK
<1>3. CASE SubNext /\ UNCHANGED triageVars
  <2>1. \A n \in DOMAIN incidents : incidents'[n] = incidents[n]
    BY <1>3, SubmissionKeepsIncidents, Zenon DEF FreshInv
  <2> QED
    BY <1>1, <1>2, <1>3, <2>1, Zenon DEF FreshInv, CopiesFresh, triageVars
<1>4. CASE TriageNext
  <2>1. ASSUME NEW o \in Operators, NEW n \in DOMAIN incidents, NEW to \in IncidentStates,
               GetIncident(o, n, to)
        PROVE  FreshInv'
    <3> DEFINE t == [inc |-> n, from |-> incidents[n].state, copy |-> Transition(incidents[n], to)]
    <3>1. incidents[n] \in Incident
      BY DEF FreshInv, IInv, TypeOK
    <3>2. t.inc = n /\ t.from = incidents[n].state /\ t.copy.state = to
      BY <3>1, Zenon DEF Transition, Incident
    <3>3. task'[o] = t /\ UNCHANGED incidents /\ CanTransitionTo(incidents[n].state, to)
      BY <2>1, Zenon DEF GetIncident, TAccept, FreshInv, IInv, TypeOK, OperatorsOK
    <3> HIDE DEF t
    <3> QED
      BY <1>1, <3>2, <3>3, Zenon DEF FreshInv, CopiesFresh
  <2>2. ASSUME NEW o \in Operators, NEW n \in DOMAIN incidents, BeginRemediation(o, n)
        PROVE  tpc'[o] # "write"
    BY <2>2, Zenon DEF BeginRemediation, TAccept, TGoto, FreshInv, IInv, TypeOK, OperatorsOK
  <2>3. ASSUME NEW o \in Operators, TriageHandler(o)
        PROVE  tpc'[o] # "write"
    BY <2>3, Zenon DEF TriageHandler, WriteTransition, AddRemediation, TProceed, PublishTransitioned,
       PublishRemediationAdded, TGoto, FreshInv, IInv, TypeOK, OperatorsOK
  <2>4. ASSUME NEW o \in Operators, tpc'[o] # "write"
        PROVE  FreshInv'
    BY <1>1, <2>4, Zenon DEF FreshInv, CopiesFresh
  <2> QED
    BY <1>4, <2>1, <2>2, <2>3, <2>4 DEF TriageNext, TriageRequest
<1>5. CASE Restart
  BY <1>1, <1>5, Zenon DEF Restart, FreshInv, CopiesFresh
<1>6. CASE UNCHANGED vars
  BY <1>1, <1>6, Zenon DEF vars, triageVars, FreshInv, CopiesFresh
<1> QED
  BY <1>3, <1>4, <1>5, <1>6, Zenon DEF Next

LEMMA FreshInvariant ==
    ASSUME \A o, q \in Operators : o = q
    PROVE  Spec => []FreshInv
<1>1. Init => FreshInv
  BY InitIInv, Zenon DEF Init, TriageInit, FreshInv, CopiesFresh
<1>2. FreshInv /\ [Next]_vars => FreshInv'
  BY NextFreshInv, Zenon
<1> QED
  BY <1>1, <1>2, PTL DEF Spec

(* While triage requests do not overlap, an incident that was closed or    *)
(* dismissed stays so, whatever submissions, errors and restarts do: the   *)
(* copy TransitionIncident writes is of the row as it still is.            *)
THEOREM TerminalFinalOneOperator ==
    ASSUME \A o, q \in Operators : o = q
    PROVE  Spec => TerminalStatesFinal
<1>1. FreshInv /\ [Next]_vars =>
        [\A n \in DOMAIN incidents \cap DOMAIN incidents' :
           ~isNonTerminal(incidents[n].state) => incidents'[n].state = incidents[n].state]_vars
  <2> SUFFICES ASSUME FreshInv, Next, NEW n \in DOMAIN incidents \cap DOMAIN incidents',
                      ~isNonTerminal(incidents[n].state)
               PROVE  incidents'[n].state = incidents[n].state
    BY Zenon
  <2>1. CASE SubNext
    BY <2>1, SubmissionKeepsIncidents, Zenon DEF FreshInv
  <2>2. CASE TriageNext
    <3>1. CanTransitionTo(incidents[n].state, incidents'[n].state)
      BY <2>2, TriageStatesFollow, Zenon DEF StatesFollow
    <3> QED
      BY <3>1 DEF CanTransitionTo, isNonTerminal, allowedTransitions
  <2>3. CASE Restart
    BY <2>3 DEF Restart
  <2> QED
    BY <2>1, <2>2, <2>3, Zenon DEF Next
<1> QED
  BY <1>1, FreshInvariant, PTL DEF Spec, TerminalStatesFinal

-----------------------------------------------------------------------------
(* Submissions that do not overlap either. *)

(* The index of open pairs is complete while its handler uses it. *)
IndexComplete == \A p \in Procs : pc[p] \in {"open", "announce"} => OpenPairs \subseteq open[p]

OpenInv == FreshInv /\ IndexComplete /\ OneOpenPerPair

(* A handler that is opening incidents has just read the index, or has     *)
(* only added to it.                                                       *)
LEMMA IndexStep ==
    ASSUME IInv, SubNext, NEW p \in Procs, pc'[p] \in {"open", "announce"}
    PROVE  \/ pc[p] \in {"open", "announce"} /\ open[p] \subseteq open'[p]
           \/ open'[p] = OpenPairs /\ UNCHANGED incidents
<1>1. CASE UNCHANGED <<pc, open>>
  BY <1>1, Zenon
<1>2. ASSUME NEW q \in Procs, Request(q)
      PROVE  pc[p] \in {"open", "announce"} /\ open[p] \subseteq open'[p]
  BY <1>2, RequestAccepts DEF Accept, Goto, IInv, TypeOK, HandlersOK
<1>3. ASSUME NEW q \in Procs, q # p, Handler(q)
      PROVE  pc'[p] = pc[p] /\ open'[p] = open[p]
  BY <1>3, HandlerLocal, Zenon DEF LocalStep, OthersKept
<1>4. ASSUME ListIncidents(p)
      PROVE  open'[p] = OpenPairs /\ UNCHANGED incidents
  BY <1>4 DEF ListIncidents, IInv, TypeOK, HandlersOK
<1>5. ASSUME NEW pair \in todo[p], NEW ok \in BOOLEAN, OpenIncident(p, pair, ok)
      PROVE  pc[p] \in {"open", "announce"} /\ open[p] \subseteq open'[p]
  BY <1>5, Zenon DEF OpenIncident, IInv, TypeOK, HandlersOK
<1>6. ASSUME \/ PublishOpened(p) \/ \E pair \in todo[p] : SkipPair(p, pair)
      PROVE  pc[p] \in {"open", "announce"} /\ open[p] \subseteq open'[p]
  BY <1>6, Zenon DEF PublishOpened, SkipPair, locals
<1>7. ASSUME \/ \E ok \in BOOLEAN : UpsertSBOM(p, ok) \/ UpsertIoC(p, ok)
             \/ PublishIngested(p) \/ ListIoCs(p) \/ LookupPackages(p) \/ ListComponents(p)
             \/ \E c \in toScan[p] : ListSBOMsByComponent(p, c)
             \/ FinishScan(p) \/ FinishOpening(p) \/ \E e \in outbox[p] : PublishMatched(p, e)
             \/ Respond(p) \/ ReadError(p)
      PROVE  FALSE
  BY <1>7, Zenon DEF UpsertSBOM, UpsertIoC, PublishIngested, ListIoCs, LookupPackages, ListComponents,
     ListSBOMsByComponent, FinishScan, FinishOpening, PublishMatched, Respond, ReadError,
     StartOpening, Proceed, Fail, Goto, IInv, TypeOK, HandlersOK
<1>8. ASSUME Handler(p)
      PROVE  \/ pc[p] \in {"open", "announce"} /\ open[p] \subseteq open'[p]
             \/ open'[p] = OpenPairs /\ UNCHANGED incidents
  BY <1>4, <1>5, <1>6, <1>7, <1>8, Zenon DEF Handler
<1> QED
  BY <1>1, <1>2, <1>3, <1>8, Zenon DEF SubNext, UpsertComponent, locals

(* The pairs with an open incident after the step. *)
OpenPairsThen ==
    { matchPair(incidents'[n].ioc, incidents'[n].ref) :
        n \in { m \in DOMAIN incidents' : isNonTerminal(incidents'[m].state) } }

LEMMA SubmissionOpenInv ==
    ASSUME \A p, q \in Procs : p = q, OpenInv, SubNext, FreshInv'
    PROVE  OpenInv'
<1>1. CASE UNCHANGED incidents
  <2>1. OpenPairs' = OpenPairs /\ OneOpenPerPair'
    BY <1>1, Zenon DEF OpenInv, OpenPairs, OneOpenPerPair
  <2>2. IndexComplete'
    BY <2>1, IndexStep, Zenon DEF OpenInv, FreshInv, IndexComplete
  <2> QED
    BY <2>1, <2>2, Zenon DEF OpenInv
<1>2. ASSUME NEW p \in Procs, NEW pair \in todo[p] \ open[p], pc[p] = "open",
             open'[p] = open[p] \cup {pair},
             incidents' = Append(incidents, NewIncident(pair.ioc, pair.ref, req[p]))
      PROVE  OpenInv'
  <2> DEFINE row == NewIncident(pair.ioc, pair.ref, req[p])
             new == Len(incidents) + 1
  <2>1. /\ row.ioc = pair.ioc /\ row.ref = pair.ref
        /\ pair = matchPair(pair.ioc, pair.ref)
    BY <1>2 DEF NewIncident, matchPair, OpenInv, FreshInv, IInv, TypeOK, HandlersOK, Pairs
  <2>2. /\ \A n \in DOMAIN incidents : incidents'[n] = incidents[n]
        /\ \A n \in DOMAIN incidents' : n \in DOMAIN incidents \/ (n = new /\ incidents'[n] = row)
    <3>1. incidents \in Seq(Incident) /\ incidents' = Append(incidents, row)
      BY <1>2, Zenon DEF OpenInv, FreshInv, IInv, TypeOK
    <3>2. ComesLast(row, incidents, incidents')
      BY <3>1, AppendComesLast, Zenon
    <3> HIDE DEF row
    <3> QED
      BY <3>2, Zenon DEF ComesLast
  <2> HIDE DEF row
  <2>3. OpenPairs \subseteq open[p]
    BY <1>2, Zenon DEF OpenInv, IndexComplete
  <2>4. \A n \in DOMAIN incidents : isNonTerminal(incidents[n].state) =>
          matchPair(incidents[n].ioc, incidents[n].ref) \in open[p]
    BY <2>3, Zenon DEF OpenPairs
  <2>5. \A n \in DOMAIN incidents : isNonTerminal(incidents[n].state) =>
          ~(incidents[n].ioc = pair.ioc /\ incidents[n].ref = pair.ref)
    BY <1>2, <2>1, <2>4, Zenon
  <2>6. OneOpenPerPair'
    <3> SUFFICES ASSUME NEW m \in DOMAIN incidents', NEW n \in DOMAIN incidents',
                        isNonTerminal(incidents'[m].state), isNonTerminal(incidents'[n].state),
                        incidents'[m].ioc = incidents'[n].ioc, incidents'[m].ref = incidents'[n].ref
                 PROVE  m = n
      BY Zenon DEF OneOpenPerPair, isNonTerminal
    <3>1. CASE m \in DOMAIN incidents /\ n \in DOMAIN incidents
      BY <2>2, <3>1, Zenon DEF OpenInv, OneOpenPerPair
    <3>2. CASE m \notin DOMAIN incidents /\ n \in DOMAIN incidents
      BY <2>1, <2>2, <2>5, <3>2, ZenonT(30)
    <3>3. CASE m \in DOMAIN incidents /\ n \notin DOMAIN incidents
      BY <2>1, <2>2, <2>5, <3>3, ZenonT(30)
    <3>4. CASE m \notin DOMAIN incidents /\ n \notin DOMAIN incidents
      BY <2>2, <3>4, Zenon
    <3> QED
      BY <3>1, <3>2, <3>3, <3>4, Zenon
  <2>7. OpenPairsThen \subseteq open'[p]
    <3> SUFFICES ASSUME NEW n \in DOMAIN incidents', isNonTerminal(incidents'[n].state)
                 PROVE  matchPair(incidents'[n].ioc, incidents'[n].ref) \in open'[p]
      BY Zenon DEF OpenPairsThen
    <3> QED
      BY <1>2, <2>1, <2>2, <2>4, Zenon
  <2>8. IndexComplete'
    BY <2>7, Zenon DEF IndexComplete, OpenPairs, OpenPairsThen, matchPair, isNonTerminal
  <2> QED
    BY <2>6, <2>8, ZenonT(30) DEF OpenInv
<1> QED
  BY <1>1, <1>2, SubmissionOpens, Zenon DEF OpenInv, FreshInv

(* Triage never makes a pair open again. *)
LEMMA TriageOpenInv ==
    ASSUME OpenInv, TriageNext, UNCHANGED subVars, FreshInv'
    PROVE  OpenInv'
<1>1. StatesFollow /\ IncidentsGrow /\ DOMAIN incidents' = DOMAIN incidents
  BY TriageStatesFollow, TriageGrow, TriageDomain, ZenonT(30) DEF OpenInv, FreshInv
<1>2. \A n \in DOMAIN incidents' :
        /\ n \in DOMAIN incidents
        /\ incidents'[n].ioc = incidents[n].ioc /\ incidents'[n].ref = incidents[n].ref
        /\ isNonTerminal(incidents'[n].state) => isNonTerminal(incidents[n].state)
  <2>1. \A s, t : CanTransitionTo(s, t) /\ isNonTerminal(t) => isNonTerminal(s)
    BY DEF CanTransitionTo, isNonTerminal, allowedTransitions
  <2> QED
    BY <1>1, <2>1, Zenon DEF StatesFollow, IncidentsGrow, SameIncident
<1>3. OpenPairsThen \subseteq OpenPairs
  BY <1>2, Zenon DEF OpenPairs, OpenPairsThen
<1>4. IndexComplete'
  <2>1. UNCHANGED <<pc, open>>
    BY Zenon DEF subVars, locals
  <2> QED
    BY <1>3, <2>1, Zenon DEF OpenInv, IndexComplete, OpenPairs, OpenPairsThen, matchPair, isNonTerminal
<1>5. OneOpenPerPair'
  BY <1>2, Zenon DEF OpenInv, OneOpenPerPair
<1> QED
  BY <1>4, <1>5, Zenon DEF OpenInv

(* While submissions do not overlap one another, nor triage requests one   *)
(* another, no two non-terminal incidents are about the same IoC and       *)
(* component, whatever fails or restarts: the index of open pairs that     *)
(* openIncidentsForMatches reads once cannot miss an incident.             *)
THEOREM OneOpenOneAtATime ==
    ASSUME \A o, q \in Operators : o = q, \A p, q \in Procs : p = q
    PROVE  Spec => []OneOpenPerPair
<1>1. Init => OpenInv
  BY InitIInv, NothingYet, Zenon DEF Init, SubInit, TriageInit, IncidentsInit, OpenInv, FreshInv, CopiesFresh,
     IndexComplete, OneOpenPerPair
<1>2. OpenInv /\ [Next]_vars => OpenInv'
  <2> SUFFICES ASSUME OpenInv, [Next]_vars
               PROVE  OpenInv'
    BY Zenon
  <2>1. FreshInv'
    BY NextFreshInv, Zenon DEF OpenInv
  <2>2. CASE Restart
    <3>1. \A p \in Procs : pc'[p] = "idle"
      BY <2>2, Zenon DEF Restart
    <3>2. incidents' = <<>> \/ UNCHANGED incidents
      BY <2>2, Zenon DEF Restart
    <3> QED
      BY <2>1, <3>1, <3>2, NothingYet, Zenon DEF OpenInv, IndexComplete, OneOpenPerPair
  <2>3. CASE UNCHANGED vars
    BY <2>1, <2>3, Zenon DEF vars, subVars, locals, OpenInv, IndexComplete, OneOpenPerPair, OpenPairs
  <2> QED
    BY <2>1, <2>2, <2>3, SubmissionOpenInv, TriageOpenInv, Zenon DEF Next
<1>3. OpenInv => OneOpenPerPair
  BY Zenon DEF OpenInv
<1> QED
  BY <1>1, <1>2, <1>3, PTL DEF Spec

-----------------------------------------------------------------------------
(* What subscribers believe, when triage requests do not overlap and        *)
(* nothing fails.                                                           *)

(* Subscribers know the state of every incident, up to the event about to  *)
(* be published.                                                           *)
EventsKnown ==
    \A k \in DOMAIN log : log[k].type = "incident.transitioned" => log[k].inc \in DOMAIN incidents

BeliefsCurrent ==
    \A n \in DOMAIN incidents :
      (\A o \in Operators : tpc[o] = "publish" => task[o].inc # n)
        => Believed(n, Len(log), incidents[n].state)

BeliefsDue ==
    \A o \in Operators : tpc[o] = "publish" =>
      /\ Believed(task[o].inc, Len(log), task[o].from)
      /\ incidents[task[o].inc].state = task[o].copy.state
      /\ CanTransitionTo(task[o].from, task[o].copy.state)

PathInv ==
    /\ FreshInv /\ faults = 0
    /\ EventsKnown /\ BeliefsCurrent /\ BeliefsDue /\ TransitionEventsCompose

(* TransitionsOf and Believed after the step. *)
TransitionsThen(n) ==
    { k \in DOMAIN log' : log'[k].type = "incident.transitioned" /\ log'[k].inc = n }
BelievedThen(n, k, state) ==
    LET before == { j \in TransitionsThen(n) : j <= k }
    IN  \/ before = {} /\ state = "pending"
        \/ \E j \in before : log'[j].to = state /\ \A i \in before : i <= j

(* A later event does not change what was believed before it. *)
LEMMA BelievedBefore ==
    ASSUME log \in Seq(Events), NEW e \in Events, log' = Append(log, e),
           NEW n, NEW k \in Nat, k <= Len(log), NEW state
    PROVE  BelievedThen(n, k, state) <=> Believed(n, k, state)
<1>1. /\ DOMAIN log = 1..Len(log) /\ DOMAIN log' = 1..(Len(log) + 1) /\ Len(log) \in Nat
      /\ \A j \in DOMAIN log : log'[j] = log[j]
  OBVIOUS
<1>2. { j \in TransitionsThen(n) : j <= k } = { j \in TransitionsOf(n) : j <= k }
  BY <1>1 DEF TransitionsThen, TransitionsOf
<1>3. \A j \in TransitionsOf(n) : log'[j] = log[j]
  BY <1>1, Zenon DEF TransitionsOf
<1> QED
  BY <1>2, <1>3, Zenon DEF BelievedThen, Believed

(* An event that is not about a transition of n tells nothing about n. *)
LEMMA BelievedKept ==
    ASSUME log \in Seq(Events), NEW n, NEW state,
           \/ UNCHANGED log
           \/ \E e \in Events : /\ log' = Append(log, e)
                                /\ e.type # "incident.transitioned" \/ e.inc # n
    PROVE  BelievedThen(n, Len(log'), state) <=> Believed(n, Len(log), state)
<1>1. CASE UNCHANGED log
  BY <1>1, Zenon DEF BelievedThen, Believed, TransitionsThen, TransitionsOf
<1>2. ASSUME NEW e \in Events, log' = Append(log, e), e.type # "incident.transitioned" \/ e.inc # n
      PROVE  BelievedThen(n, Len(log'), state) <=> Believed(n, Len(log), state)
  <2>1. /\ DOMAIN log = 1..Len(log) /\ DOMAIN log' = 1..(Len(log) + 1) /\ Len(log) \in Nat
        /\ \A j \in DOMAIN log : log'[j] = log[j]
        /\ log'[Len(log) + 1] = e /\ Len(log') = Len(log) + 1
    BY <1>2
  <2>2. { j \in TransitionsThen(n) : j <= Len(log') } = { j \in TransitionsOf(n) : j <= Len(log) }
    <3>1. \A j \in DOMAIN log' : j \in DOMAIN log \/ j = Len(log) + 1
      BY <2>1
    <3>2. Len(log) + 1 \notin TransitionsThen(n)
      BY <1>2, <2>1, Zenon DEF TransitionsThen
    <3>3. TransitionsThen(n) = TransitionsOf(n)
      BY <2>1, <3>1, <3>2 DEF TransitionsThen, TransitionsOf
    <3>4. \A j \in TransitionsOf(n) : j <= Len(log) /\ j <= Len(log')
      BY <2>1 DEF TransitionsOf
    <3> QED
      BY <3>3, <3>4, Zenon
  <2>3. \A j \in TransitionsOf(n) : log'[j] = log[j]
    BY <2>1, Zenon DEF TransitionsOf
  <2> QED
    BY <2>2, <2>3, Zenon DEF BelievedThen, Believed
<1> QED
  BY <1>1, <1>2, Zenon

LEMMA ComposeKept ==
    ASSUME PathInv, TypeOK',
           \/ UNCHANGED log
           \/ \E e \in Events : log' = Append(log, e) /\ e.type # "incident.transitioned",
           \A n \in DOMAIN incidents : n \in DOMAIN incidents'
    PROVE  EventsKnown' /\ TransitionEventsCompose'
<1>1. log \in Seq(Events)
  BY Zenon DEF PathInv, FreshInv, IInv, TypeOK
<1>2. \A k \in DOMAIN log' : log'[k].type = "incident.transitioned" => k \in DOMAIN log /\ log'[k] = log[k]
  BY <1>1
<1>3. EventsKnown'
  BY <1>2, Zenon DEF PathInv, EventsKnown
<1>4. ASSUME NEW n \in DOMAIN incidents', NEW k \in TransitionsThen(n)
      PROVE  BelievedThen(n, k - 1, log'[k].from) /\ CanTransitionTo(log'[k].from, log'[k].to)
  <2>1. k \in TransitionsOf(n) /\ log'[k] = log[k] /\ n \in DOMAIN incidents
    BY <1>2, Zenon DEF TransitionsThen, TransitionsOf, PathInv, EventsKnown
  <2>2. Believed(n, k - 1, log[k].from) /\ CanTransitionTo(log[k].from, log[k].to)
    BY <2>1, Zenon DEF PathInv, TransitionEventsCompose
  <2>3. k - 1 \in Nat /\ k - 1 <= Len(log)
    BY <1>1, <2>1 DEF TransitionsOf
  <2>4. BelievedThen(n, k - 1, log[k].from)
    <3>1. CASE UNCHANGED log
      BY <2>2, <3>1, Zenon DEF BelievedThen, Believed, TransitionsThen, TransitionsOf
    <3>2. CASE \E e \in Events : log' = Append(log, e)
      BY <1>1, <2>2, <2>3, <3>2, BelievedBefore, Zenon
    <3> QED
      BY <3>1, <3>2, Zenon
  <2> QED
    BY <2>1, <2>2, <2>4, Zenon
<1>5. TransitionEventsCompose'
  BY <1>4, Zenon DEF TransitionEventsCompose, TransitionsOf, TransitionsThen, Believed, BelievedThen,
     CanTransitionTo, allowedTransitions
<1> QED
  BY <1>3, <1>5, Zenon

(* Steps that publish no transition and change no state that is believed. *)
LEMMA QuietPathInv ==
    ASSUME PathInv, FreshInv', UNCHANGED faults,
           \/ UNCHANGED log
           \/ \E e \in Events : log' = Append(log, e) /\ e.type # "incident.transitioned",
           \A n \in DOMAIN incidents : n \in DOMAIN incidents' /\ incidents'[n].state = incidents[n].state,
           \A n \in DOMAIN incidents' \ DOMAIN incidents : incidents'[n].state = "pending",
           \A o \in Operators : "publish" \in {tpc[o], tpc'[o]} => tpc'[o] = tpc[o] /\ task'[o] = task[o]
    PROVE  PathInv'
<1>1. log \in Seq(Events) /\ TypeOK'
  BY Zenon DEF PathInv, FreshInv, IInv, TypeOK
<1>2. EventsKnown' /\ TransitionEventsCompose'
  BY <1>1, ComposeKept, Zenon
<1>3. \A n, state : BelievedThen(n, Len(log'), state) <=> Believed(n, Len(log), state)
  BY <1>1, BelievedKept, Zenon
<1>4. ASSUME NEW n \in DOMAIN incidents', \A o \in Operators : tpc'[o] = "publish" => task'[o].inc # n
      PROVE  BelievedThen(n, Len(log'), incidents'[n].state)
  <2>1. CASE n \in DOMAIN incidents
    <3>1. Believed(n, Len(log), incidents[n].state)
      BY <1>4, <2>1, Zenon DEF PathInv, BeliefsCurrent
    <3> QED
      BY <1>3, <2>1, <3>1, Zenon
  <2>2. CASE n \notin DOMAIN incidents
    <3>1. TransitionsOf(n) = {}
      BY <2>2, Zenon DEF PathInv, EventsKnown, TransitionsOf
    <3>2. Believed(n, Len(log), "pending")
      BY <3>1, Zenon DEF Believed
    <3> QED
      BY <1>3, <2>2, <3>2, Zenon
  <2> QED
    BY <2>1, <2>2, Zenon
<1>5. BeliefsCurrent'
  BY <1>4, Zenon DEF BeliefsCurrent, TransitionsOf, TransitionsThen, Believed, BelievedThen
<1>6. ASSUME NEW o \in Operators, tpc'[o] = "publish"
      PROVE  /\ BelievedThen(task'[o].inc, Len(log'), task'[o].from)
             /\ incidents'[task'[o].inc].state = task'[o].copy.state
             /\ CanTransitionTo(task'[o].from, task'[o].copy.state)
  <2>1. tpc[o] = "publish" /\ task'[o] = task[o] /\ task[o].inc \in DOMAIN incidents
    BY <1>6, Zenon DEF PathInv, FreshInv, IInv, TypeOK, OperatorsOK
  <2>2. /\ Believed(task[o].inc, Len(log), task[o].from)
        /\ incidents[task[o].inc].state = task[o].copy.state
        /\ CanTransitionTo(task[o].from, task[o].copy.state)
    BY <2>1, Zenon DEF PathInv, BeliefsDue
  <2> QED
    BY <1>3, <2>1, <2>2, Zenon
<1>7. BeliefsDue'
  BY <1>6, Zenon DEF BeliefsDue, TransitionsOf, TransitionsThen, Believed, BelievedThen,
     CanTransitionTo, allowedTransitions
<1> QED
  BY <1>2, <1>5, <1>7, Zenon DEF PathInv

(* The write makes an event due, unless it changed nothing. *)
LEMMA WritePathInv ==
    ASSUME \A o, q \in Operators : o = q, PathInv, FreshInv',
           NEW o \in Operators, WriteTransition(o, TRUE)
    PROVE  PathInv'
<1>1. /\ tpc[o] = "write" /\ UNCHANGED <<task, log, faults>>
      /\ tpc'[o] = (IF task[o].from = task[o].copy.state THEN "idle" ELSE "publish")
  BY Zenon DEF WriteTransition, TProceed, TGoto, PathInv, FreshInv, IInv, TypeOK, OperatorsOK
<1>2. /\ task[o].inc \in DOMAIN incidents /\ DOMAIN incidents' = DOMAIN incidents
      /\ \A n \in DOMAIN incidents : n # task[o].inc => incidents'[n] = incidents[n]
      /\ incidents'[task[o].inc].state = task[o].copy.state
  BY WriteTransitionStates, Zenon DEF PathInv, FreshInv
<1>3. /\ incidents[task[o].inc].state = task[o].from
      /\ CanTransitionTo(task[o].from, task[o].copy.state)
  BY <1>1, Zenon DEF PathInv, FreshInv, CopiesFresh
<1>4. CASE task[o].from = task[o].copy.state
  BY <1>1, <1>2, <1>3, <1>4, QuietPathInv, Zenon
<1>5. CASE task[o].from # task[o].copy.state
  <2>1. \A n \in DOMAIN incidents : Believed(n, Len(log), incidents[n].state)
    BY <1>1, ZenonT(30) DEF PathInv, BeliefsCurrent
  <2>2. \A n, k, state : Believed(n, k, state)' <=> Believed(n, k, state)
    <3>1. log' = log
      BY <1>1, Zenon
    <3> QED
      BY <3>1 DEF Believed, TransitionsOf
  <2>3. EventsKnown' /\ TransitionEventsCompose'
    BY <1>1, <1>2, ComposeKept, Zenon DEF FreshInv, IInv
  <2>4. ASSUME NEW n \in DOMAIN incidents, n # task[o].inc
        PROVE  Believed(n, Len(log), incidents[n].state)'
    BY <1>1, <1>2, <2>1, <2>2, <2>4, Zenon
  <2>5. BeliefsCurrent'
    BY <1>1, <1>2, <1>5, <2>4, Zenon DEF BeliefsCurrent
  <2>6. Believed(task[o].inc, Len(log), task[o].from)'
    <3>1. Believed(task[o].inc, Len(log), task[o].from)
      BY <1>2, <1>3, <2>1, Zenon
    <3> QED
      BY <1>1, <3>1, Zenon DEF Believed, TransitionsOf
  <2>7. BeliefsDue'
    BY <1>1, <1>2, <1>3, <2>6, Zenon DEF BeliefsDue
  <2> QED
    BY <1>1, <2>3, <2>5, <2>7, Zenon DEF PathInv
<1> QED
  BY <1>4, <1>5, ZenonT(30)

(* Publishing it brings what subscribers believe up to date. *)
LEMMA PublishPathInv ==
    ASSUME \A o, q \in Operators : o = q, PathInv, FreshInv',
           NEW o \in Operators, PublishTransitioned(o)
    PROVE  PathInv'
<1> DEFINE inc == task[o].inc
           e == Transitioned(inc, task[o].from, task[o].copy.state)
           new == Len(log) + 1
<1>1. /\ tpc[o] = "publish" /\ UNCHANGED <<task, incidents, faults>> /\ log' = Append(log, e)
      /\ \A q \in Operators : tpc'[q] # "publish"
  BY Zenon DEF PublishTransitioned, Publish, TGoto, PathInv, FreshInv, IInv, TypeOK, OperatorsOK
<1>2. /\ Believed(inc, Len(log), task[o].from) /\ inc \in DOMAIN incidents
      /\ incidents[inc].state = task[o].copy.state
      /\ CanTransitionTo(task[o].from, task[o].copy.state)
  BY <1>1, Zenon DEF PathInv, BeliefsDue, FreshInv, IInv, TypeOK, OperatorsOK
<1>3. e \in Events
  <2>1. task[o] \in TransitionTasks
    BY <1>1, Zenon DEF PathInv, FreshInv, IInv, TypeOK, OperatorsOK
  <2> QED
    BY <2>1, Zenon DEF Transitioned, TransitionTasks, Incident, Events
<1>4. e.type = "incident.transitioned" /\ e.inc = inc /\ e.from = task[o].from /\ e.to = task[o].copy.state
  BY Zenon DEF Transitioned
<1> HIDE DEF e
<1>5. log \in Seq(Events)
  BY Zenon DEF PathInv, FreshInv, IInv, TypeOK
<1>6. /\ DOMAIN log = 1..Len(log) /\ Len(log) \in Nat /\ Len(log') = new
      /\ new \in DOMAIN log' /\ log'[new] = e
      /\ \A k \in DOMAIN log : log'[k] = log[k]
      /\ \A k \in DOMAIN log' : k \in DOMAIN log \/ k = new
  <2>1. log' = Append(log, e)
    BY <1>1, Zenon
  <2>2. ComesLast(e, log, log')
    BY <1>5, <2>1, AppendComesLast, Zenon
  <2> QED
    BY <2>2, Zenon DEF ComesLast
<1>7. EventsKnown'
  BY <1>1, <1>2, <1>4, <1>6, ZenonT(30) DEF PathInv, EventsKnown
<1>8. ASSUME NEW n \in DOMAIN incidents, NEW k \in TransitionsThen(n)
      PROVE  BelievedThen(n, k - 1, log'[k].from) /\ CanTransitionTo(log'[k].from, log'[k].to)
  <2>1. k - 1 \in Nat /\ k - 1 <= Len(log)
    BY <1>6 DEF TransitionsThen
  <2>2. CASE k \in DOMAIN log
    <3>1. k \in TransitionsOf(n) /\ log'[k] = log[k]
      BY <1>6, <2>2, Zenon DEF TransitionsThen, TransitionsOf
    <3>2. Believed(n, k - 1, log[k].from) /\ CanTransitionTo(log[k].from, log[k].to)
      BY <3>1, Zenon DEF PathInv, TransitionEventsCompose
    <3> QED
      BY <1>1, <1>3, <1>5, <2>1, <3>1, <3>2, BelievedBefore, Zenon
  <2>3. CASE k = new
    <3>1. log'[k] = e /\ Len(log) \in Nat
      BY <1>6, <2>3, Zenon
    <3>2. n = inc
      BY <1>4, <3>1, Zenon DEF TransitionsThen
    <3>3. k - 1 = Len(log)
      BY <2>3, <3>1
    <3> QED
      BY <1>1, <1>2, <1>3, <1>4, <1>5, <2>1, <3>1, <3>2, <3>3, BelievedBefore, Zenon
  <2> QED
    BY <1>6, <2>2, <2>3, Zenon DEF TransitionsThen
<1>9. TransitionEventsCompose'
  BY <1>1, <1>8, Zenon DEF TransitionEventsCompose, TransitionsOf, TransitionsThen, Believed,
     BelievedThen, CanTransitionTo, allowedTransitions
<1>10. ASSUME NEW n \in DOMAIN incidents
       PROVE  BelievedThen(n, Len(log'), incidents[n].state)
  <2>1. CASE n # inc
    <3>1. Believed(n, Len(log), incidents[n].state)
      BY <1>1, <2>1, Zenon DEF PathInv, BeliefsCurrent
    <3> QED
      BY <1>1, <1>3, <1>4, <1>5, <2>1, <3>1, BelievedKept, Zenon
  <2>2. CASE n = inc
    <3>1. new \in { j \in TransitionsThen(n) : j <= Len(log') }
      BY <1>4, <1>6, <2>2 DEF TransitionsThen
    <3>2. \A j \in TransitionsThen(n) : j <= new
      BY <1>6 DEF TransitionsThen
    <3>3. log'[new].to = incidents[n].state
      BY <1>2, <1>4, <1>6, <2>2, Zenon
    <3> HIDE DEF new
    <3> QED
      BY <3>1, <3>2, <3>3, Zenon DEF BelievedThen
  <2> QED
    BY <2>1, <2>2, Zenon
<1>11. BeliefsCurrent'
  BY <1>1, <1>10, Zenon DEF BeliefsCurrent, TransitionsOf, TransitionsThen, Believed, BelievedThen
<1>12. BeliefsDue'
  BY <1>1, Zenon DEF BeliefsDue
<1> QED
  BY <1>1, <1>7, <1>9, <1>11, <1>12, Zenon DEF PathInv

LEMMA NextPathInv ==
    ASSUME \A o, q \in Operators : o = q, MaxFaults = 0, PathInv, [Next]_vars
    PROVE  PathInv'
<1>1. FreshInv'
  BY NextFreshInv, Zenon DEF PathInv
<1>2. ~Fault
  BY DEF Fault, PathInv
<1>3. CASE SubNext /\ UNCHANGED triageVars
  <2>1. UNCHANGED faults
    <3>1. ASSUME NEW p \in Procs, Handler(p)
          PROVE  UNCHANGED faults
      BY <1>2, <3>1, ZenonT(30) DEF Handler, UpsertSBOM, UpsertIoC, PublishIngested, ListIoCs,
         LookupPackages, ListComponents, ListSBOMsByComponent, FinishScan, ListIncidents, SkipPair,
         OpenIncident, PublishOpened, FinishOpening, PublishMatched, Respond, ReadError, Proceed,
         Fail, outcomes
    <3>2. ASSUME NEW p \in Procs, Request(p)
          PROVE  UNCHANGED faults
      BY <3>2, RequestAccepts, Zenon DEF Accept, outcomes
    <3> QED
      BY <1>3, <3>1, <3>2, Zenon DEF SubNext, UpsertComponent, outcomes
  <2> QED
    BY <1>1, <1>3, <2>1, SubmissionPublishes, SubmissionKeepsIncidents, QuietPathInv, Zenon
       DEF PathInv, FreshInv, triageVars
<1>4. CASE TriageNext
  <2>1. ASSUME NEW o \in Operators, NEW n \in DOMAIN incidents, TriageRequest(o, n)
        PROVE  PathInv'
    <3>1. /\ UNCHANGED <<incidents, log, faults>>
          /\ \A q \in Operators : "publish" \notin {tpc[q], tpc'[q]}
      BY <2>1, Zenon DEF TriageRequest, GetIncident, BeginRemediation, TAccept, TGoto, PathInv, FreshInv, IInv,
         TypeOK, OperatorsOK
    <3> QED
      BY <1>1, <3>1, QuietPathInv, Zenon
  <2>2. ASSUME NEW o \in Operators, NEW ok \in BOOLEAN, WriteTransition(o, ok)
        PROVE  PathInv'
    <3>1. ok = TRUE
      BY <1>2, <2>2, Zenon DEF WriteTransition, TProceed
    <3> QED
      BY <1>1, <2>2, <3>1, WritePathInv, Zenon
  <2>3. ASSUME NEW o \in Operators, NEW ok \in BOOLEAN, AddRemediation(o, ok)
        PROVE  PathInv'
    <3>1. /\ UNCHANGED <<log, faults>>
          /\ \A q \in Operators : "publish" \notin {tpc[q], tpc'[q]}
      BY <1>2, <2>3 DEF AddRemediation, TProceed, TGoto, PathInv, FreshInv, IInv, TypeOK, OperatorsOK
    <3>2. /\ DOMAIN incidents' = DOMAIN incidents
          /\ \A n \in DOMAIN incidents : incidents'[n].state = incidents[n].state
      BY <2>3, AddRemediationStates, Zenon DEF PathInv, FreshInv
    <3> QED
      BY <1>1, <3>1, <3>2, QuietPathInv, Zenon
  <2>4. ASSUME NEW o \in Operators, PublishRemediationAdded(o)
        PROVE  PathInv'
    <3> DEFINE e == RemediationAdded(task[o].inc, task[o].rem)
    <3>1. task[o] \in RemediationTasks
      BY <2>4, Zenon DEF PathInv, FreshInv, IInv, TypeOK, OperatorsOK, PublishRemediationAdded
    <3>2. e \in Events /\ e.type = "remediation.added"
      BY <3>1, Zenon DEF RemediationAdded, RemediationTasks, Events
    <3>3. /\ UNCHANGED <<incidents, faults>> /\ log' = Append(log, e)
          /\ \A q \in Operators : "publish" \notin {tpc[q], tpc'[q]}
      BY <2>4, Zenon DEF PublishRemediationAdded, Publish, TGoto, PathInv, FreshInv, IInv, TypeOK, OperatorsOK
    <3> HIDE DEF e
    <3> QED
      BY <1>1, <3>2, <3>3, QuietPathInv, Zenon
  <2>5. ASSUME NEW o \in Operators, PublishTransitioned(o)
        PROVE  PathInv'
    BY <1>1, <2>5, PublishPathInv, Zenon
  <2> QED
    BY <1>4, <2>1, <2>2, <2>3, <2>4, <2>5, Zenon DEF TriageNext, TriageHandler
<1>5. CASE Restart
  BY <1>2, <1>5, Zenon DEF Restart
<1>6. CASE UNCHANGED vars
  BY <1>1, <1>6, QuietPathInv, Zenon DEF vars, triageVars
<1> QED
  BY <1>3, <1>4, <1>5, <1>6, Zenon DEF Next

(* While triage requests do not overlap and nothing fails, the             *)
(* incident.transitioned events about an incident form a path of the state *)
(* machine from pending, whatever submissions interleave with them.        *)
THEOREM TransitionEventsPath ==
    ASSUME \A o, q \in Operators : o = q, MaxFaults = 0
    PROVE  Spec => []TransitionEventsCompose
<1>1. Init => PathInv
  <2> SUFFICES ASSUME Init
               PROVE  PathInv
    BY Zenon
  <2>1. IInv /\ incidents = <<>> /\ log = <<>> /\ faults = 0 /\ \A o \in Operators : tpc[o] = "idle"
    BY InitIInv, Zenon DEF Init, TriageInit, IncidentsInit
  <2> QED
    BY <2>1, NothingYet, Zenon DEF PathInv, FreshInv, CopiesFresh, EventsKnown, BeliefsCurrent, BeliefsDue,
       TransitionEventsCompose
<1>2. PathInv /\ [Next]_vars => PathInv'
  BY NextPathInv, Zenon
<1>3. PathInv => TransitionEventsCompose
  BY Zenon DEF PathInv
<1> QED
  BY <1>1, <1>2, <1>3, PTL DEF Spec
==============================================================================
