----------------------------- MODULE MemoryStore -----------------------------
(***************************************************************************)
(* The in-memory backend, engine/internal/storage/memory/memory.go: maps   *)
(* behind one mutex.  Every method is atomic, so it is an operator on the  *)
(* record db of its maps: a write returns the new record, a read its       *)
(* answer.  Times keep the resolution of Go's clock.                       *)
(***************************************************************************)
EXTENDS Tables

New == [ components |-> <<>>, sboms |-> <<>>, iocs |-> <<>>, incidents |-> <<>>,
         history |-> <<>>, anomalies |-> <<>>, publishers |-> <<>>, profiles |-> <<>> ]

UpsertComponent(db, ref, owner) == [db EXCEPT !.components = Put(@, ref, owner)]

GetComponent(db, ref) == Lookup(db.components, ref)

(* Sorted by reference on both backends; the order is left out, as it only  *)
(* differs with the collation of the database.                              *)
ListComponents(db) == { <<ref, db.components[ref]>> : ref \in DOMAIN db.components }

UpsertSBOM(db, id, sbom) == [db EXCEPT !.sboms = Put(@, id, sbom)]

GetSBOM(db, id) == Lookup(db.sboms, id)

ListSBOMsByComponent(db, ref) ==
    Ascending({ id \in DOMAIN db.sboms : db.sboms[id].ref = ref }, Column(db.sboms, "at"))

(* The rows are sorted by component and version; what the callers use of   *)
(* them is the set of components.  The ecosystem compared is the SBOM's.   *)
ListSBOMPackages(db, eco, name) ==
    { db.sboms[id].ref : id \in { i \in DOMAIN db.sboms :
        db.sboms[i].eco = eco /\ name \in Range(db.sboms[i].packages) } }

UpsertIoC(db, id, ioc) == [db EXCEPT !.iocs = Put(@, id, ioc)]

GetIoC(db, id) == Lookup(db.iocs, id)

ListIoCs(db) == Ascending(DOMAIN db.iocs, Column(db.iocs, "at"))

-----------------------------------------------------------------------------
UpsertIncident(db, id, incident) == [db EXCEPT !.incidents = Put(@, id, incident)]

(* A loop of UpsertIncident over different ids. *)
UpsertIncidents(db, rows) == [db EXCEPT !.incidents = Merge(@, rows)]

GetIncident(db, id) == db.incidents[id]

ListIncidents(db) == Ascending(DOMAIN db.incidents, Column(db.incidents, "opened"))

(* Mutant: closed and dismissed incidents no longer count. *)
MatchedOpenRefsByIoC(db, ioc) ==
    UNION { db.incidents[id].refs : id \in { i \in DOMAIN db.incidents :
        /\ db.incidents[i].ioc = ioc
        /\ db.incidents[i].state # "dismissed" } }

MatchedComponentRefsByIoC(db, ioc) ==
    UNION { db.incidents[id].refs : id \in { i \in DOMAIN db.incidents :
        db.incidents[i].ioc = ioc } }

matchesIndexedFilter(inc, f) ==
    /\ f.states # {} => inc.state \in f.states
    /\ f.from # NoTime => inc.opened >= f.from
    /\ f.to # NoTime => inc.opened <= f.to

matchesEcosystemFilter(db, inc, f) ==
    \/ f.ecosystems = {}
    \/ inc.ioc \in DOMAIN db.iocs /\ db.iocs[inc.ioc].eco \in f.ecosystems

(* A search string stands for the ids and references that contain it. *)
matchesSearchFilter(inc, f) == f.search = Unset \/ f.search = inc.ioc \/ f.search \in inc.refs

matchesOwnerFilter(db, inc, f) ==
    \/ f.owner = Unset
    \/ \E ref \in inc.refs \cap DOMAIN db.components : db.components[ref] = f.owner

ListIncidentsFiltered(db, f) ==
    LET out == { id \in DOMAIN db.incidents :
                    LET inc == db.incidents[id]
                    IN  /\ matchesIndexedFilter(inc, f)
                        /\ matchesEcosystemFilter(db, inc, f)
                        /\ matchesSearchFilter(inc, f)
                        /\ matchesOwnerFilter(db, inc, f) }
    IN  Takes(Descending(out, Column(db.incidents, "opened")), f.limit)

AppendRemediation(db, id, rem) ==
    [db EXCEPT !.incidents[id].remediations = Append(@, rem)]

ListRemediations(db, id) == { inc.remediations : inc \in Lookup(db.incidents, id) }

-----------------------------------------------------------------------------
(* A profile carries its publisher; it is stored beside the publishers. *)
UpsertPublisher(db, name, seen) == [db EXCEPT !.publishers = Put(@, name, [seen |-> seen])]

GetPublisher(db, name) == Lookup(db.publishers, name)

UpsertPublisherProfile(db, name, profile) == [db EXCEPT !.profiles = Put(@, name, profile)]

GetPublisherProfile(db, name) == Lookup(db.profiles, name)

ListPublishers(db) == DOMAIN db.publishers

-----------------------------------------------------------------------------
SavePublisherSnapshot(db, ref, snap) ==
    [db EXCEPT !.history =
        Put(@, ref, IF ref \in DOMAIN @ THEN Append(@[ref], snap) ELSE <<snap>>)]

GetPublisherHistory(db, ref, limit) ==
    IF ref \notin DOMAIN db.history THEN {<<>>}
    ELSE Takes(Descending(DOMAIN db.history[ref], Column(db.history[ref], "at")), limit)

Latest(hist) ==
    LET times == { hist[i].at : i \in DOMAIN hist }
    IN  CHOOSE t \in times : \A u \in times : u <= t

ListPackagesNeedingRefresh(db, olderThan, limit) ==
    LET stale == { ref \in DOMAIN db.history : Latest(db.history[ref]) < olderThan }
    IN  Takes(Ascending(stale, [ref \in stale |-> Latest(db.history[ref])]), limit)

(* The map of dedup keys holds exactly the keys of the rows. *)
SaveAnomaly(db, a) ==
    IF a \in { db.anomalies[id] : id \in DOMAIN db.anomalies } THEN db
    ELSE [db EXCEPT !.anomalies = Put(@, Cardinality(DOMAIN @) + 1, a)]

GetAnomaly(db, id) == Lookup(db.anomalies, id)

ListAnomalies(db, f) ==
    LET out == { id \in DOMAIN db.anomalies :
                    LET a == db.anomalies[id]
                    IN  /\ f.ref # Unset => a.ref = f.ref
                        /\ f.kind # Unset => a.kind = f.kind
                        /\ f.from # NoTime => a.at >= f.from
                        /\ f.to # NoTime => a.at <= f.to }
    IN  Takes(Descending(out, Column(db.anomalies, "at")), f.limit)
=============================================================================
