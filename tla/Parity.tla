------------------------------- MODULE Parity -------------------------------
(***************************************************************************)
(* The API handlers and the background workers run once against the memory *)
(* store and once against Postgres, request by request with the same       *)
(* clock.  The properties say what a client may rely on whichever backend  *)
(* RAMPART_STORAGE selects: the same records by id, list answers that only *)
(* differ where Postgres cannot tell two times apart, the same blast       *)
(* radius.  Requests do not overlap here; Engine models overlapping ones.  *)
(***************************************************************************)
EXTENDS Tables

CONSTANTS
    Refs, Owners, IoCs,         \* components, their owners, IoC ids
    Lockfiles,                  \* the package lists of SBOMs, in order
    Tracked, Kinds,             \* packages with snapshots, kinds of anomalies
    Publishers,                 \* publishers of one ecosystem
    Grain,                      \* ticks of the clock in a microsecond
    Registered,                 \* the components registered at the start
    Workloads,                  \* the kinds of request a behaviour makes
    MaxRequests, MaxAnomalies   \* bounds on requests and on saved anomalies

ASSUME GrainAssumption == Grain \in Nat \ {0}

(* A lockfile lists its packages, in order. *)
ASSUME LockfilesAssumption == \A packages \in Lockfiles : packages \in Seq(Range(packages))

VARIABLES mem, pg, now, load

Names == UNION { Range(packages) : packages \in Lockfiles }

M == INSTANCE MemoryStore
P == INSTANCE PostgresStore

Init ==
    /\ mem = [M!New EXCEPT !.components = Registered]
    /\ pg = [P!Open EXCEPT !.components = Registered]
    /\ now = 0
    /\ load \in Workloads

(* One request of a kind the workload has; the clock never stands still. *)
Request(kind, ticks) ==
    /\ kind \in load /\ now < MaxRequests
    /\ now' = now + ticks
    /\ UNCHANGED load

-----------------------------------------------------------------------------
UpsertComponent(ref, owner) ==
    /\ Request("component", 1)
    /\ mem' = M!UpsertComponent(mem, ref, owner)
    /\ pg' = P!UpsertComponent(pg, ref, owner)

Fires(ioc, sbom) == ioc.eco = sbom.eco /\ ioc.name \in Range(sbom.packages)

(* The pairs of openIncidentsForMatches that have no open incident yet. *)
Unopened(incidents, pairs) ==
    { p \in pairs : ~ \E id \in DOMAIN incidents :
        /\ incidents[id].ioc = p.ioc /\ p.ref \in incidents[id].refs
        /\ incidents[id].state \notin {"closed", "dismissed"} }

(* Ids are fresh ULIDs: here the time of the request and the pair. *)
NewID(p) == <<now, p.ioc, p.ref>>

NewIncidents(pairs) ==
    [ id \in { NewID(p) : p \in pairs } |->
        [ ioc |-> id[2], state |-> "pending", opened |-> id[1], moved |-> id[1],
          refs |-> {id[3]}, remediations |-> <<>> ] ]

OpenInMemory(db, pairs) ==
    M!UpsertIncidents(db, NewIncidents(Unopened(db.incidents, pairs)))

OpenInPostgres(db, pairs) ==
    P!UpsertIncidents(db, NewIncidents(Unopened(db.incidents, pairs)))

RetroactivePairs(iocs, sbom) ==
    { [ioc |-> id, ref |-> sbom.ref] : id \in { i \in DOMAIN iocs : Fires(iocs[i], sbom) } }

SubmitSBOM(ref, packages) ==
    /\ Request("sbom", 1)
    /\ M!GetComponent(mem, ref) # {}
    /\ LET sbom == [ref |-> ref, eco |-> "npm", at |-> now, packages |-> packages]
           m == M!UpsertSBOM(mem, now, sbom)
           p == P!UpsertSBOM(pg, now, sbom)
       IN  /\ mem' = OpenInMemory(m, RetroactivePairs(m.iocs, sbom))
           /\ pg' = OpenInPostgres(p, RetroactivePairs(p.iocs, sbom))

SubmitIoC(id, ioc) ==
    /\ Request("ioc", 1)
    /\ LET m == M!UpsertIoC(mem, id, ioc)
           p == P!UpsertIoC(pg, id, ioc)
           Pairs(refs) == { [ioc |-> id, ref |-> r] : r \in refs }
       IN  /\ mem' = OpenInMemory(m, Pairs(M!ListSBOMPackages(m, ioc.eco, ioc.name)))
           /\ pg' = OpenInPostgres(p, Pairs(P!ListSBOMPackages(p, ioc.eco, ioc.name)))

(* The part of the state machine of Incidents that the requests below use. *)
CanTransitionTo(from, to) ==
    from \in {to, "pending"} \/ (from = "triaged" /\ to = "dismissed")

Moved(inc, to) == IF inc.state = to THEN inc ELSE [inc EXCEPT !.state = to, !.moved = now]

TransitionIncident(id, to) ==
    /\ Request("triage", 1)
    /\ CanTransitionTo(mem.incidents[id].state, to)
    /\ mem' = M!UpsertIncident(mem, id, Moved(M!GetIncident(mem, id), to))
    /\ pg' = P!UpsertIncident(pg, id, Moved(P!GetIncident(pg, id), to))

(* The client may give the time of a remediation; it can lie in the past. *)
AddRemediation(id, at) ==
    /\ Request("triage", 1)
    /\ mem' = M!AppendRemediation(mem, id, [id |-> now, at |-> at])
    /\ pg' = P!AppendRemediation(pg, id, [id |-> now, at |-> at])

(* The scheduler saves what an ingestor returned, without a time: the store *)
(* stamps it.                                                               *)
SaveSnapshot(ref) ==
    /\ Request("publisher", 1)
    /\ mem' = M!SavePublisherSnapshot(mem, ref, [ref |-> ref, at |-> now])
    /\ pg' = P!SavePublisherSnapshot(pg, ref, [ref |-> ref, at |-> now])

(* A tick of the orchestrator saves its anomalies one by one with the       *)
(* tick's time, so the clock may stand still in between.  A tick raises a   *)
(* kind once for a package, and ticks are more than a microsecond apart.    *)
SaveAnomaly(kind, ref, ticks) ==
    /\ Request("anomaly", ticks) /\ Cardinality(DOMAIN mem.anomalies) < MaxAnomalies
    /\ \A id \in DOMAIN mem.anomalies :
        mem.anomalies[id].kind = kind /\ mem.anomalies[id].ref = ref =>
            mem.anomalies[id].at + Grain <= now
    /\ LET a == [kind |-> kind, ref |-> ref, at |-> now]
       IN  mem' = M!SaveAnomaly(mem, a) /\ pg' = P!SaveAnomaly(pg, a)

(* Part of the storage contract, with no caller in the engine yet: the      *)
(* contract suite writes publishers and profiles, stamped with the time the *)
(* publisher was seen.                                                      *)
UpsertPublisher(name) ==
    /\ Request("profile", 1)
    /\ mem' = M!UpsertPublisher(mem, name, now)
    /\ pg' = P!UpsertPublisher(pg, name, now)

UpsertPublisherProfile(name, changed) ==
    /\ Request("profile", 1)
    /\ LET profile == [seen |-> now, count |-> now, changed |-> changed]
       IN  /\ mem' = M!UpsertPublisherProfile(mem, name, profile)
           /\ pg' = P!UpsertPublisherProfile(pg, name, profile)

Next ==
    \/ \E ref \in Refs, owner \in Owners : UpsertComponent(ref, owner)
    \/ \E ref \in Refs, packages \in Lockfiles : SubmitSBOM(ref, packages)
    \/ \E id \in IoCs, eco \in {"npm", "pypi"}, name \in Names :
        SubmitIoC(id, [eco |-> eco, name |-> name, at |-> 0])
    \/ \E id \in DOMAIN mem.incidents :
        \/ \E to \in {"triaged", "dismissed"} : TransitionIncident(id, to)
        \/ \E at \in {0, now} : AddRemediation(id, at)
    \/ \E ref \in Tracked : SaveSnapshot(ref)
    \/ \E kind \in Kinds, ref \in Tracked, ticks \in {0, 1} : SaveAnomaly(kind, ref, ticks)
    \/ \E name \in Publishers :
        UpsertPublisher(name) \/ \E changed \in {NoTime, now} : UpsertPublisherProfile(name, changed)

Spec == Init /\ [][Next]_<<mem, pg, now, load>>

-----------------------------------------------------------------------------
(* GetIncidentDetail: the incident with its IoC and its components; what is *)
(* gone is left out.                                                        *)
GetIncidentDetail(inc, ioc, found) ==
    [ incident |-> inc, ioc |-> ioc[inc.ioc],
      components |-> UNION { { <<r, c>> : c \in found[r] } : r \in inc.refs } ]

(* BlastRadius of one IoC: its incidents when the IoC is stored, otherwise  *)
(* the components whose packages it would match.                            *)
BlastRadius(iocs, id, cached, live) == IF id \in DOMAIN iocs THEN cached ELSE live

Cut(rows) == { [row EXCEPT !.at = P!Micro(@)] : row \in rows }

CutLog(log) == [i \in DOMAIN log |-> [log[i] EXCEPT !.at = P!Micro(@)]]

CutIncident(inc) ==
    [inc EXCEPT !.opened = P!Micro(@), !.moved = P!Micro(@), !.remediations = CutLog(@)]

(* Read by its id, a component, SBOM, IoC, incident with its remediations   *)
(* in order, history or anomaly is the same on both backends up to the      *)
(* microsecond, or missing on both, although Postgres spreads it over       *)
(* several tables and a transition writes back a copy read before.          *)
RecordsAgree ==
    /\ P!ListComponents(pg) = M!ListComponents(mem)
    /\ \A ref \in Refs : P!GetComponent(pg, ref) = M!GetComponent(mem, ref)
    /\ \A id \in IoCs : P!GetIoC(pg, id) = Cut(M!GetIoC(mem, id))
    /\ \A id \in 0 .. now :
        /\ P!GetSBOM(pg, id) = Cut(M!GetSBOM(mem, id))
        /\ P!GetAnomaly(pg, id) = Cut(M!GetAnomaly(mem, id))
    /\ DOMAIN pg.incidents = DOMAIN mem.incidents
    /\ \A id \in DOMAIN mem.incidents :
        /\ GetIncidentDetail(P!GetIncident(pg, id),
                             [i \in IoCs |-> P!GetIoC(pg, i)],
                             [r \in Refs |-> P!GetComponent(pg, r)]) =
           GetIncidentDetail(CutIncident(M!GetIncident(mem, id)),
                             [i \in IoCs |-> Cut(M!GetIoC(mem, i))],
                             [r \in Refs |-> M!GetComponent(mem, r)])
        /\ P!ListRemediations(pg, id) = { CutLog(log) : log \in M!ListRemediations(mem, id) }
    /\ \A ref \in DOMAIN mem.history : P!SnapshotsOf(pg, ref) = CutLog(mem.history[ref])

(* Profiles up to the microsecond, with times taken from elsewhere. *)
Joined(times, profiles) ==
    { [ seen |-> t, count |-> pf.count,
        changed |-> IF pf.changed = NoTime THEN NoTime ELSE P!Micro(pf.changed) ] :
        t \in times, pf \in profiles }

(* A publisher is stored by itself and inside its profile.  Postgres keeps  *)
(* one row for both, so it answers with the copy written last; the memory   *)
(* store keeps two and never brings them together.  The rest of a profile   *)
(* is the same on both.                                                     *)
PostgresKeepsNewestPublisher ==
    /\ P!ListPublishers(pg) = M!ListPublishers(mem) \cup DOMAIN mem.profiles
    /\ \A name \in Publishers :
        LET copies == { row.seen : row \in M!GetPublisher(mem, name)
                                            \cup M!GetPublisherProfile(mem, name) }
            newest == { P!Micro(t) : t \in { c \in copies : \A d \in copies : d <= c } }
        IN  /\ { row.seen : row \in P!GetPublisher(pg, name) } = newest
            /\ P!GetPublisherProfile(pg, name) = Joined(newest, M!GetPublisherProfile(mem, name))

(* By state and ecosystem, and by a search string or an owner. *)
Unbounded ==
    { f \in [ states : {{}, {"pending"}}, ecosystems : {{}, {"npm"}}, search : {Unset} \cup Refs,
              owner : {Unset} \cup Owners, from : {NoTime}, to : {NoTime}, limit : {0, 1} ] :
        Unset \in {f.search, f.owner} }

UnboundedAnomalies ==
    [ref : {Unset} \cup Tracked, kind : {Unset} \cup Kinds, from : {NoTime}, to : {NoTime},
     limit : {0, 1}]

(* Without time bounds, whatever the memory store may answer to a list      *)
(* request, filtered and limited, Postgres may answer too: the two orders   *)
(* only differ among rows of one microsecond.  So for the packages to       *)
(* refresh, stalest first and cut to the batch, when the cutoff is a whole  *)
(* microsecond.  Answers are compared by the ids they list.                 *)
ListsAgree ==
    /\ \A f \in Unbounded : M!ListIncidentsFiltered(mem, f) \subseteq P!ListIncidentsFiltered(pg, f)
    /\ \A f \in UnboundedAnomalies : M!ListAnomalies(mem, f) \subseteq P!ListAnomalies(pg, f)
    /\ M!ListIncidents(mem) \subseteq P!ListIncidents(pg)
    /\ M!ListIoCs(mem) \subseteq P!ListIoCs(pg)
    /\ \A ref \in Refs : M!ListSBOMsByComponent(mem, ref) \subseteq P!ListSBOMsByComponent(pg, ref)
    /\ \A ref \in Tracked, limit \in 0 .. 2 :
        M!GetPublisherHistory(mem, ref, limit) \subseteq P!GetPublisherHistory(pg, ref, limit)
    /\ \A cutoff \in { t \in 0 .. now : t % Grain = 0 }, limit \in 0 .. 2 :
        M!ListPackagesNeedingRefresh(mem, cutoff, limit)
            \subseteq P!ListPackagesNeedingRefresh(pg, cutoff, limit)

Members(Q) == UNION { Range(q) : q \in Q }

AllIncidents(from, to) ==
    [states |-> {}, ecosystems |-> {}, search |-> Unset, owner |-> Unset,
     from |-> from, to |-> to, limit |-> 0]
AllAnomalies(from, to) == [ref |-> Unset, kind |-> Unset, from |-> from, to |-> to, limit |-> 0]

(* Every member of m is in p; what p has more is of the bound's microsecond. *)
WithinAMicrosecond(m, p, at, bound) ==
    m \subseteq p /\ \A x \in p \ m : P!Micro(at[x]) = P!Micro(bound)

(* A lower or an upper time bound, or both at one moment, select the same   *)
(* rows on both backends except for rows of the bound's own microsecond:    *)
(* Postgres includes those in a list, and leaves them out of the packages   *)
(* to refresh.                                                              *)
BoundsDifferByAMicrosecond ==
    /\ \A t \in 0 .. now : \A b \in {<<t, NoTime>>, <<NoTime, t>>, <<t, t>>} :
        /\ WithinAMicrosecond(Members(M!ListIncidentsFiltered(mem, AllIncidents(b[1], b[2]))),
                              Members(P!ListIncidentsFiltered(pg, AllIncidents(b[1], b[2]))),
                              Column(mem.incidents, "opened"), t)
        /\ WithinAMicrosecond(Members(M!ListAnomalies(mem, AllAnomalies(b[1], b[2]))),
                              Members(P!ListAnomalies(pg, AllAnomalies(b[1], b[2]))),
                              Column(mem.anomalies, "at"), t)
    /\ \A cutoff \in 0 .. now :
        WithinAMicrosecond(Members(P!ListPackagesNeedingRefresh(pg, cutoff, 0)),
                           Members(M!ListPackagesNeedingRefresh(mem, cutoff, 0)),
                           [ref \in DOMAIN mem.history |-> M!Latest(mem.history[ref])], cutoff)

MemRadius(id, ioc) ==
    BlastRadius(mem.iocs, id, M!MatchedComponentRefsByIoC(mem, id),
                M!ListSBOMPackages(mem, ioc.eco, ioc.name))
PgRadius(id, ioc) ==
    BlastRadius(pg.iocs, id, P!MatchedComponentRefsByIoC(pg, id),
                P!ListSBOMPackages(pg, ioc.eco, ioc.name))

(* BlastRadius answers the same on both backends, for a stored IoC from its *)
(* incidents and for a hypothetical one from the packages.                  *)
BlastRadiusAgrees ==
    \A id \in IoCs, name \in Names :
        LET ioc == [eco |-> "npm", name |-> name] IN MemRadius(id, ioc) = PgRadius(id, ioc)

(* For a stored IoC the incidents BlastRadius reads instead of matching     *)
(* again cover every component the match would find, through               *)
(* re-publications, later SBOMs and incidents that are closed already.      *)
CachedRadiusCoversLive ==
    \A id \in DOMAIN mem.iocs :
        LET ioc == mem.iocs[id]
        IN  /\ M!ListSBOMPackages(mem, ioc.eco, ioc.name) \subseteq MemRadius(id, ioc)
            /\ P!ListSBOMPackages(pg, ioc.eco, ioc.name) \subseteq PgRadius(id, ioc)
=============================================================================
