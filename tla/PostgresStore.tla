---------------------------- MODULE PostgresStore ----------------------------
(***************************************************************************)
(* The Postgres backend, engine/internal/storage/postgres/storage.go, with *)
(* the tables of its migrations.  Packages and remediations live in tables *)
(* of their own, positions and a serial column keep their order, and every *)
(* timestamp, stored or compared, is cut to the microseconds of            *)
(* timestamptz.  A method is an operator on the record db of the tables;   *)
(* requests come one at a time, so the several statements of one method    *)
(* see one state.                                                          *)
(***************************************************************************)
EXTENDS Tables

CONSTANT Grain      \* ticks of the clock in a microsecond

Micro(t) == (t \div Grain) * Grain

Open == [ components |-> <<>>, sboms |-> <<>>, sbom_packages |-> {}, iocs |-> <<>>,
          incidents |-> <<>>, remediations |-> <<>>, publisher_history |-> <<>>,
          anomalies |-> <<>>, anomaly_seq |-> 0, publishers |-> <<>>,
          publisher_profiles |-> <<>> ]

UpsertComponent(db, ref, owner) == [db EXCEPT !.components = Put(@, ref, owner)]

GetComponent(db, ref) == Lookup(db.components, ref)

ListComponents(db) == { <<ref, db.components[ref]>> : ref \in DOMAIN db.components }

(* One transaction: the row, then its packages deleted and written again. *)
UpsertSBOM(db, id, sbom) ==
    [db EXCEPT
        !.sboms = Put(@, id, [ref |-> sbom.ref, eco |-> sbom.eco, at |-> Micro(sbom.at)]),
        !.sbom_packages = { p \in @ : p.sbom # id } \cup
            { [sbom |-> id, position |-> i, eco |-> sbom.eco, name |-> sbom.packages[i]] :
                i \in DOMAIN sbom.packages }]

(* The packages of an SBOM, by position. *)
hydrateSBOMPackages(db, id) ==
    LET rows == { p \in db.sbom_packages : p.sbom = id }
    IN  [i \in 1 .. Cardinality(rows) |-> (CHOOSE p \in rows : p.position = i).name]

GetSBOM(db, id) ==
    { [ ref |-> row.ref, eco |-> row.eco, at |-> row.at,
        packages |-> hydrateSBOMPackages(db, id) ] : row \in Lookup(db.sboms, id) }

ListSBOMsByComponent(db, ref) ==
    Ascending({ id \in DOMAIN db.sboms : db.sboms[id].ref = ref }, Column(db.sboms, "at"))

(* Mutant: the join only sees the first package of an SBOM. *)
ListSBOMFirstPackage(db, eco, name) ==
    { db.sboms[p.sbom].ref : p \in { q \in db.sbom_packages :
        q.position = 1 /\ q.eco = eco /\ q.name = name } }

(* The ecosystem compared is the package's. *)
ListSBOMPackages(db, eco, name) ==
    { db.sboms[p.sbom].ref : p \in { q \in db.sbom_packages : q.eco = eco /\ q.name = name } }

UpsertIoC(db, id, ioc) == [db EXCEPT !.iocs = Put(@, id, [ioc EXCEPT !.at = Micro(@)])]

GetIoC(db, id) == Lookup(db.iocs, id)

ListIoCs(db) == Ascending(DOMAIN db.iocs, Column(db.iocs, "at"))

-----------------------------------------------------------------------------
(* The statement writes every column of the row and no remediation. *)
IncidentRow(inc) ==
    [ ioc |-> inc.ioc, state |-> inc.state, opened |-> Micro(inc.opened),
      moved |-> Micro(inc.moved), refs |-> inc.refs ]

UpsertIncident(db, id, inc) == [db EXCEPT !.incidents = Put(@, id, IncidentRow(inc))]

(* A loop of UpsertIncident over different ids. *)
UpsertIncidents(db, rows) ==
    [db EXCEPT !.incidents = Merge(@, [id \in DOMAIN rows |-> IncidentRow(rows[id])])]

(* A row's place in the table is its seq. *)
SeqsOf(db, id) == { k \in DOMAIN db.remediations : db.remediations[k].incident = id }

Remediation(row) == [id |-> row.id, at |-> row.at]

(* Mutant: the log is read backwards, newest entry first. *)
listRemediationsNewestFirst(db, id) ==
    LET seqs == InOrder(SeqsOf(db, id))
    IN  [i \in DOMAIN seqs |-> Remediation(db.remediations[seqs[Len(seqs) + 1 - i]])]

(* ORDER BY seq. *)
listRemediationsTx(db, id) ==
    LET seqs == InOrder(SeqsOf(db, id))
    IN  [i \in DOMAIN seqs |-> Remediation(db.remediations[seqs[i]])]

GetIncident(db, id) ==
    LET row == db.incidents[id]
        rems == listRemediationsTx(db, id)
    IN  [ ioc |-> row.ioc, state |-> row.state, opened |-> row.opened, moved |-> row.moved,
          refs |-> row.refs,
          remediations |-> rems ]

(* The rows of a list come without their remediations, unlike those of the  *)
(* memory store; an answer is the sequence of their ids.                    *)
ListIncidents(db) == Ascending(DOMAIN db.incidents, Column(db.incidents, "opened"))

MatchedComponentRefsByIoC(db, ioc) ==
    UNION { db.incidents[id].refs : id \in { i \in DOMAIN db.incidents :
        db.incidents[i].ioc = ioc } }

matchesWhere(row, f) ==
    /\ f.states # {} => row.state \in f.states
    /\ f.from # NoTime => row.opened >= Micro(f.from)
    /\ f.to # NoTime => row.opened <= Micro(f.to)

matchesEcosystemFilter(db, row, f) ==
    \/ f.ecosystems = {}
    \/ row.ioc \in DOMAIN db.iocs /\ db.iocs[row.ioc].eco \in f.ecosystems

matchesSearchFilterPg(row, f) == f.search = Unset \/ f.search = row.ioc \/ f.search \in row.refs

matchesOwnerFilter(db, row, f) ==
    \/ f.owner = Unset
    \/ \E ref \in row.refs \cap DOMAIN db.components : db.components[ref] = f.owner

(* Mutant: the statement gets the limit, before the filters written in Go. *)
ListIncidentsLimitedFirst(db, f) ==
    LET indexed == { id \in DOMAIN db.incidents : matchesWhere(db.incidents[id], f) }
        pages == Takes(Descending(indexed, Column(db.incidents, "opened")), f.limit)
    IN  { SelectSeq(q, LAMBDA id : /\ matchesEcosystemFilter(db, db.incidents[id], f)
                                   /\ matchesSearchFilterPg(db.incidents[id], f)
                                   /\ matchesOwnerFilter(db, db.incidents[id], f)) : q \in pages }

(* The WHERE clause first, then the filters over other tables, and the loop *)
(* stops at the limit.                                                      *)
ListIncidentsFiltered(db, f) ==
    LET indexed == { id \in DOMAIN db.incidents : matchesWhere(db.incidents[id], f) }
        out == { id \in indexed : /\ matchesEcosystemFilter(db, db.incidents[id], f)
                                  /\ matchesSearchFilterPg(db.incidents[id], f)
                                  /\ matchesOwnerFilter(db, db.incidents[id], f) }
    IN  Takes(Descending(out, Column(db.incidents, "opened")), f.limit)

AppendRemediation(db, id, rem) ==
    [db EXCEPT !.remediations =
        Append(@, [id |-> rem.id, incident |-> id, at |-> Micro(rem.at)])]

ListRemediations(db, id) == { listRemediationsTx(db, i) : i \in {id} \cap DOMAIN db.incidents }

-----------------------------------------------------------------------------
UpsertPublisher(db, name, seen) ==
    [db EXCEPT !.publishers = Put(@, name, [seen |-> Micro(seen)])]

GetPublisher(db, name) == Lookup(db.publishers, name)

ProfileRow(profile) ==
    [ count |-> profile.count,
      changed |-> IF profile.changed = NoTime THEN NoTime ELSE Micro(profile.changed) ]

(* Mutant: the parent row is only written when there is none. *)
UpsertProfileKeepParent(db, name, profile) ==
    LET parent == IF name \in DOMAIN db.publishers THEN db
                  ELSE UpsertPublisher(db, name, profile.seen)
    IN  [parent EXCEPT !.publisher_profiles = Put(@, name, ProfileRow(profile))]

(* The parent row first, for the foreign key, then the profile. *)
UpsertPublisherProfile(db, name, profile) ==
    [UpsertPublisher(db, name, profile.seen) EXCEPT
        !.publisher_profiles = Put(@, name, ProfileRow(profile))]

(* The publisher of a profile comes from the joined parent row. *)
GetPublisherProfile(db, name) ==
    { [seen |-> db.publishers[name].seen, count |-> row.count, changed |-> row.changed] :
        row \in Lookup(db.publisher_profiles, name) }

ListPublishers(db) == DOMAIN db.publishers

-----------------------------------------------------------------------------
SavePublisherSnapshot(db, ref, snap) ==
    [db EXCEPT !.publisher_history = Append(@, [ref |-> ref, at |-> Micro(snap.at)])]

IdsOf(db, ref) == { k \in DOMAIN db.publisher_history : db.publisher_history[k].ref = ref }

(* The n-th row of a package, by the serial of the table, is named n, as in *)
(* the memory store.                                                        *)
SnapshotsOf(db, ref) ==
    LET ids == InOrder(IdsOf(db, ref)) IN [i \in DOMAIN ids |-> db.publisher_history[ids[i]]]

GetPublisherHistory(db, ref, limit) ==
    LET rows == SnapshotsOf(db, ref)
    IN  Takes(Descending(DOMAIN rows, Column(rows, "at")), limit)

MaxSnapshotAt(db, ref) ==
    LET times == { r.at : r \in Range(SnapshotsOf(db, ref)) }
    IN  CHOOSE t \in times : \A u \in times : u <= t

(* Mutant: the HAVING clause also admits the cutoff itself. *)
ListPackagesAtCutoff(db, olderThan, limit) ==
    LET stale == { ref \in { r.ref : r \in Range(db.publisher_history) } :
                    MaxSnapshotAt(db, ref) <= Micro(olderThan) }
    IN  Takes(Ascending(stale, [ref \in stale |-> MaxSnapshotAt(db, ref)]), limit)

ListPackagesNeedingRefresh(db, olderThan, limit) ==
    LET stale == { ref \in { r.ref : r \in Range(db.publisher_history) } :
                    MaxSnapshotAt(db, ref) < Micro(olderThan) }
    IN  Takes(Ascending(stale, [ref \in stale |-> MaxSnapshotAt(db, ref)]), limit)

(* A conflict returns the row there is, and has drawn a serial all the same. *)
SaveAnomaly(db, a) ==
    LET row == [a EXCEPT !.at = Micro(@)]
    IN  [db EXCEPT
            !.anomaly_seq = @ + 1,
            !.anomalies = IF row \in { @[id] : id \in DOMAIN @ } THEN @
                          ELSE Put(@, db.anomaly_seq + 1, row)]

GetAnomaly(db, id) == Lookup(db.anomalies, id)

ListAnomalies(db, f) ==
    LET out == { id \in DOMAIN db.anomalies :
                    LET a == db.anomalies[id]
                    IN  /\ f.ref # Unset => a.ref = f.ref
                        /\ f.kind # Unset => a.kind = f.kind
                        /\ f.from # NoTime => a.at >= Micro(f.from)
                        /\ f.to # NoTime => a.at <= Micro(f.to) }
    IN  Takes(Descending(out, Column(db.anomalies, "at")), f.limit)
=============================================================================
