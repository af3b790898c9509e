---------------------------- MODULE ParityReads -----------------------------
(***************************************************************************)
(* What the two stores answer, as a consequence of StoresAgree:            *)
(* RecordsAgree, ListsAgree, BoundsDifferByAMicrosecond,                   *)
(* PostgresKeepsNewestPublisher, BlastRadiusAgrees and                     *)
(* CachedRadiusCoversLive.  A sort by a coarser clock allows more answers, *)
(* and a bound selects the same rows but for those of its own microsecond. *)
(***************************************************************************)
EXTENDS ParityProofs

(* The steps are about sets, functions and records; the few that need      *)
(* arithmetic say SMT.                                                     *)
USE ZenonT(30)

-----------------------------------------------------------------------------
(* What the reads return: records.                                          *)

(* The columns of a sort or a cut do not depend on the store. *)
LEMMA LogIs ==
    ASSUME NEW db, NEW id
    PROVE  P!listRemediationsTx(db, id) = LogIn(db.remediations, id)
<1> DEFINE rows == db.remediations
           S == SeqsIn(rows, id)
           q == InOrder(S)
<1>1. P!SeqsOf(db, id) = S /\ P!InOrder(S) = q
  BY SameSorts DEF P!SeqsOf, SeqsIn
<1>2. P!listRemediationsTx(db, id) = [i \in DOMAIN q |-> P!Remediation(rows[q[i]])]
  BY <1>1 DEF P!listRemediationsTx
<1> HIDE DEF rows, S, q
<1>3. Listed(rows, S) = [i \in DOMAIN q |-> rows[q[i]]]
  BY DEF Listed, q
<1>4. LogIn(rows, id) = [i \in DOMAIN q |-> P!Remediation(Listed(rows, S)[i])]
  BY <1>3 DEF LogIn, S
<1>5. \A i \in DOMAIN q : P!Remediation(Listed(rows, S)[i]) = P!Remediation(rows[q[i]])
  BY <1>3
<1> QED
  BY <1>2, <1>4, <1>5 DEF rows

LEMMA HistoryIs ==
    ASSUME NEW db, NEW ref
    PROVE  P!SnapshotsOf(db, ref) = HistoryIn(db.publisher_history, ref)
<1>1. P!IdsOf(db, ref) = IdsIn(db.publisher_history, ref)
  BY DEF P!IdsOf, IdsIn
<1> QED
  BY <1>1, SameSorts DEF P!SnapshotsOf, HistoryIn, Listed

LEMMA PackageRowsCount ==
    ASSUME NEW id, NEW s \in SBOMs
    PROVE  /\ Cardinality(PackageRows(id, s)) = Len(s.packages)
           /\ s.packages = [i \in 1 .. Len(s.packages) |-> s.packages[i]]
           /\ DOMAIN s.packages = 1 .. Len(s.packages)
<1> DEFINE list == s.packages
           n == Len(list)
           R(i) == [sbom |-> id, position |-> i, eco |-> s.eco, name |-> list[i]]
           f == [i \in 1 .. n |-> R(i)]
           T == PackageRows(id, s)
<1>1. list \in Seq(Range(list))
  BY LockfilesAssumption, Fields
<1>2. n \in Nat /\ DOMAIN list = 1 .. n /\ list = [i \in 1 .. n |-> list[i]]
  <2> DEFINE E == Range(list)
  <2>1. list \in Seq(E)
    BY <1>1
  <2> HIDE DEF E, list
  <2> QED
    BY <2>1, SMTT(20)
<1> HIDE DEF list, n
<1>3. T = { R(i) : i \in 1 .. n }
  BY <1>2 DEF PackageRows, list
<1>4. \A i : R(i).position = i
  OBVIOUS
<1> HIDE DEF R, T
<1>5. f \in [1 .. n -> T] /\ \A y \in T : \E x \in 1 .. n : f[x] = y
  BY <1>3
<1>6. \A x, y \in 1 .. n : f[x] = f[y] => x = y
  <2>1. \A x \in 1 .. n : f[x].position = x
    BY <1>4
  <2> HIDE DEF f
  <2> QED
    BY <2>1
<1>7. f \in Bijection(1 .. n, T)
  <2> HIDE DEF f
  <2> QED
    BY <1>5, <1>6 DEF Bijection, Injection, Surjection, IsInjective
<1>8. IsFiniteSet(1 .. n) /\ Cardinality(1 .. n) = n
  BY <1>2, FS_Interval, SMTT(20)
<1>9. Cardinality(T) = n
  BY <1>7, <1>8, FS_Bijection DEF ExistsBijection
<1> QED
  BY <1>2, <1>9 DEF T, n, list

LEMMA Hydrated ==
    ASSUME NEW db, NEW sboms, SBOMsAgree(sboms, db.sboms, db.sbom_packages), NEW id \in DOMAIN sboms
    PROVE  P!hydrateSBOMPackages(db, id) = sboms[id].packages
<1> DEFINE s == sboms[id]
           list == s.packages
           n == Len(list)
           rows == { p \in db.sbom_packages : p.sbom = id }
           R(i) == [sbom |-> id, position |-> i, eco |-> s.eco, name |-> list[i]]
<1>1. s \in SBOMs
  BY DEF SBOMsAgree
<1>2. rows = PackageRows(id, s)
  <2>1. db.sbom_packages = UNION { PackageRows(j, sboms[j]) : j \in DOMAIN sboms }
    BY DEF SBOMsAgree
  <2>2. \A p : p \in db.sbom_packages <=> \E j \in DOMAIN sboms : p \in PackageRows(j, sboms[j])
    BY <2>1
  <2>3. \A j, u, p : p \in PackageRows(j, u) => p.sbom = j
    BY SMTT(20) DEF PackageRows
  <2>4. \A p : p \in rows <=> p \in PackageRows(id, s)
    BY <2>2, <2>3
  <2> QED
    BY <2>4
<1>3. Cardinality(rows) = n /\ list = [i \in 1 .. n |-> list[i]] /\ DOMAIN list = 1 .. n
  BY <1>1, <1>2, PackageRowsCount
<1>4. P!hydrateSBOMPackages(db, id) = [i \in 1 .. n |-> (CHOOSE p \in rows : p.position = i).name]
  BY <1>3, SameCardinality DEF P!hydrateSBOMPackages
<1> HIDE DEF n, list
<1>5. rows = { R(i) : i \in 1 .. n }
  BY <1>2, <1>3 DEF PackageRows, list
<1>6. \A i : R(i).position = i /\ R(i).name = list[i]
  OBVIOUS
<1> HIDE DEF rows, R, s
<1>7. ASSUME NEW i \in 1 .. n PROVE (CHOOSE p \in rows : p.position = i).name = list[i]
  <2> DEFINE c == CHOOSE p \in rows : p.position = i
  <2>1. \E p \in rows : p.position = i
    BY <1>5, <1>6
  <2>2. c \in rows /\ c.position = i
    BY <2>1
  <2> HIDE DEF c
  <2>3. c = R(i)
    BY <2>2, <1>5, <1>6
  <2> QED
    BY <2>3, <1>6 DEF c
<1> QED
  BY <1>3, <1>4, <1>7 DEF list, s

LEMMA LookupIs ==
    ASSUME NEW t, NEW k
    PROVE  /\ k \in DOMAIN t => Lookup(t, k) = {t[k]}
           /\ k \notin DOMAIN t => Lookup(t, k) = {}
  BY DEF Lookup

(* A table whose rows only differ by the microsecond. *)
CutTable(t) == [k \in DOMAIN t |-> [t[k] EXCEPT !.at = P!Micro(@)]]

LEMMA CutLookup ==
    ASSUME NEW t, NEW rows, rows = CutTable(t), NEW k
    PROVE  P!Lookup(rows, k) = Cut(M!Lookup(t, k))
<1> DEFINE C(x) == [x EXCEPT !.at = P!Micro(@)]
<1>1. DOMAIN rows = DOMAIN t /\ \A j \in DOMAIN t : rows[j] = C(t[j])
  BY DEF CutTable
<1>2. \A x : Cut({x}) = {C(x)}
  BY DEF Cut
<1>3. Cut({}) = {}
  BY DEF Cut
<1> HIDE DEF C
<1>4. CASE k \in DOMAIN t
  <2>1. Lookup(rows, k) = {C(t[k])} /\ Lookup(t, k) = {t[k]}
    BY <1>1, <1>4, LookupIs
  <2>2. Cut(Lookup(t, k)) = {C(t[k])}
    BY <2>1, <1>2
  <2> QED
    BY <2>1, <2>2, SameTables
<1>5. CASE k \notin DOMAIN t
  BY <1>1, <1>3, <1>5, LookupIs, SameTables
<1> QED
  BY <1>4, <1>5

LEMMA SBOMReads ==
    ASSUME NEW m, NEW p, SBOMsAgree(m.sboms, p.sboms, p.sbom_packages), NEW id
    PROVE  P!GetSBOM(p, id) = Cut(M!GetSBOM(m, id))
<1> DEFINE C(x) == [x EXCEPT !.at = P!Micro(@)]
           G(row) == [ ref |-> row.ref, eco |-> row.eco, at |-> row.at,
                       packages |-> P!hydrateSBOMPackages(p, id) ]
           s == m.sboms[id]
<1>1. /\ P!GetSBOM(p, id) = { G(row) : row \in Lookup(p.sboms, id) }
      /\ M!GetSBOM(m, id) = Lookup(m.sboms, id)
  BY SameTables DEF P!GetSBOM, M!GetSBOM
<1>2. DOMAIN p.sboms = DOMAIN m.sboms
  BY DEF SBOMsAgree
<1>3. (\A x : Cut({x}) = {C(x)}) /\ Cut({}) = {}
  BY DEF Cut
<1>4. CASE id \in DOMAIN m.sboms
  <2>1. s \in SBOMs /\ p.sboms[id] = SBOMRow(s) /\ P!hydrateSBOMPackages(p, id) = s.packages
    <3>1. P!hydrateSBOMPackages(p, id) = m.sboms[id].packages
      BY <1>4, Hydrated
    <3> QED
      BY <1>4, <3>1 DEF SBOMsAgree
  <2>2. Lookup(p.sboms, id) = {SBOMRow(s)} /\ Lookup(m.sboms, id) = {s}
    BY <2>1, <1>2, <1>4, LookupIs
  <2>3. G(SBOMRow(s)) = C(s)
    <3> HIDE DEF s
    <3>1. P!hydrateSBOMPackages(p, id) = s.packages
      BY <2>1 DEF s
    <3>2. s = [ref |-> s.ref, eco |-> s.eco, at |-> s.at, packages |-> s.packages]
      BY <2>1, Fields
    <3> QED
      BY <3>1, <3>2, SMTT(20) DEF SBOMRow
  <2> HIDE DEF G, C, s
  <2>4. P!GetSBOM(p, id) = {G(SBOMRow(s))}
    BY <1>1, <2>2
  <2>5. Cut(M!GetSBOM(m, id)) = {C(s)}
    BY <1>1, <1>3, <2>2
  <2> QED
    BY <2>3, <2>4, <2>5
<1>5. CASE id \notin DOMAIN m.sboms
  <2>1. Lookup(p.sboms, id) = {} /\ Lookup(m.sboms, id) = {}
    BY <1>2, <1>5, LookupIs
  <2> HIDE DEF G, C
  <2> QED
    BY <1>1, <1>3, <2>1
<1> QED
  BY <1>4, <1>5

LEMMA IncidentReads ==
    ASSUME NEW m, NEW p, NEW time, IncidentsAgree(m.incidents, p.incidents, time),
           LogsAgree(m.incidents, p.remediations), NEW id \in DOMAIN m.incidents
    PROVE  /\ P!GetIncident(p, id) = CutIncident(M!GetIncident(m, id))
           /\ P!ListRemediations(p, id) = { CutLog(log) : log \in M!ListRemediations(m, id) }
<1> DEFINE inc == m.incidents[id]
<1>1. inc \in IncidentRecords /\ p.incidents[id] = P!IncidentRow(inc) /\ DOMAIN p.incidents = DOMAIN m.incidents
  BY DEF IncidentsAgree
<1>2. P!listRemediationsTx(p, id) = CutLog(inc.remediations)
  BY LogIs DEF LogsAgree
<1> DEFINE log == CutLog(inc.remediations)
           row == p.incidents[id]
<1>3. P!GetIncident(p, id) =
        [ ioc |-> row.ioc, state |-> row.state, opened |-> row.opened, moved |-> row.moved,
          refs |-> row.refs, remediations |-> log ]
  BY <1>2 DEF P!GetIncident
<1>4. CutIncident(inc) = [inc EXCEPT !.opened = P!Micro(@), !.moved = P!Micro(@), !.remediations = log]
  BY DEF CutIncident
<1> HIDE DEF inc, row, log
<1>5. inc = [ ioc |-> inc.ioc, state |-> inc.state, opened |-> inc.opened, moved |-> inc.moved,
              refs |-> inc.refs, remediations |-> inc.remediations ]
  BY <1>1 DEF IncidentRecords
<1>6. row = P!IncidentRow(inc)
  BY <1>1 DEF row
<1>7. P!GetIncident(p, id) = CutIncident(inc)
  BY <1>3, <1>4, <1>5, <1>6 DEF P!IncidentRow
<1>8. P!GetIncident(p, id) = CutIncident(M!GetIncident(m, id))
  BY <1>7 DEF M!GetIncident, inc
<1>9. P!ListRemediations(p, id) = {log}
  BY <1>1, <1>2 DEF P!ListRemediations, log
<1>10. M!ListRemediations(m, id) = {inc.remediations}
  <2>1. M!Lookup(m.incidents, id) = {inc}
    BY SameTables, LookupIs DEF inc
  <2> QED
    BY <2>1 DEF M!ListRemediations
<1>11. { CutLog(l) : l \in M!ListRemediations(m, id) } = {log}
  BY <1>10 DEF log
<1> QED
  BY <1>8, <1>9, <1>11

LEMMA RecordsInStep == IInv => RecordsAgree
<1> SUFFICES ASSUME IInv PROVE RecordsAgree
  OBVIOUS
<1>1. /\ pg.components = mem.components
      /\ SBOMsAgree(mem.sboms, pg.sboms, pg.sbom_packages)
      /\ IoCsAgree(mem.iocs, pg.iocs)
      /\ IncidentsAgree(mem.incidents, pg.incidents, now)
      /\ LogsAgree(mem.incidents, pg.remediations)
      /\ HistoryAgrees(mem.history, pg.publisher_history, now)
      /\ AnomaliesAgree(mem.anomalies, pg.anomalies, pg.anomaly_seq)
  BY DEF IInv, StoresAgree
<1>2. P!ListComponents(pg) = M!ListComponents(mem)
  BY <1>1 DEF P!ListComponents, M!ListComponents
<1>3. \A ref : P!GetComponent(pg, ref) = M!GetComponent(mem, ref)
  BY <1>1, SameTables DEF P!GetComponent, M!GetComponent
<1>4. \A id : P!GetIoC(pg, id) = Cut(M!GetIoC(mem, id))
  <2>1. pg.iocs = CutTable(mem.iocs)
    BY <1>1 DEF IoCsAgree, CutTable
  <2> QED
    BY <2>1, CutLookup DEF P!GetIoC, M!GetIoC
<1>5. \A id : P!GetSBOM(pg, id) = Cut(M!GetSBOM(mem, id))
  BY <1>1, SBOMReads
<1>6. \A id : P!GetAnomaly(pg, id) = Cut(M!GetAnomaly(mem, id))
  <2>1. pg.anomalies = CutTable(mem.anomalies)
    BY <1>1 DEF AnomaliesAgree, CutTable
  <2> QED
    BY <2>1, CutLookup DEF P!GetAnomaly, M!GetAnomaly
<1>7. DOMAIN pg.incidents = DOMAIN mem.incidents
  BY <1>1 DEF IncidentsAgree
<1>8. [i \in IoCs |-> P!GetIoC(pg, i)] = [i \in IoCs |-> Cut(M!GetIoC(mem, i))]
  BY <1>4
<1>9. [r \in Refs |-> P!GetComponent(pg, r)] = [r \in Refs |-> M!GetComponent(mem, r)]
  BY <1>3
<1>10. ASSUME NEW id \in DOMAIN mem.incidents
       PROVE  /\ P!GetIncident(pg, id) = CutIncident(M!GetIncident(mem, id))
              /\ P!ListRemediations(pg, id) = { CutLog(log) : log \in M!ListRemediations(mem, id) }
  BY <1>1, IncidentReads
<1>11. ASSUME NEW id \in DOMAIN mem.incidents
       PROVE  GetIncidentDetail(P!GetIncident(pg, id),
                                [i \in IoCs |-> P!GetIoC(pg, i)],
                                [r \in Refs |-> P!GetComponent(pg, r)]) =
              GetIncidentDetail(CutIncident(M!GetIncident(mem, id)),
                                [i \in IoCs |-> Cut(M!GetIoC(mem, i))],
                                [r \in Refs |-> M!GetComponent(mem, r)])
  BY <1>8, <1>9, <1>10
<1>12. \A ref \in DOMAIN mem.history : P!SnapshotsOf(pg, ref) = CutLog(mem.history[ref])
  BY <1>1, HistoryIs DEF HistoryAgrees
<1> QED
  BY <1>2, <1>3, <1>4, <1>5, <1>6, <1>7, <1>10, <1>11, <1>12 DEF RecordsAgree

(* A component, an IoC, an SBOM with its packages, an anomaly, an incident *)
(* in detail with its remediations in order, and a package's history are   *)
(* the same on both backends, or missing on both, but for times cut to the *)
(* microsecond.                                                            *)
THEOREM RecordsStayInStep == Spec => []RecordsAgree
  BY Inductive, RecordsInStep, PTL

-----------------------------------------------------------------------------
LEMMA RadiusInStep == IInv => BlastRadiusAgrees /\ CachedRadiusCoversLive
<1> SUFFICES ASSUME IInv PROVE BlastRadiusAgrees /\ CachedRadiusCoversLive
  OBVIOUS
<1>1. /\ SBOMsAgree(mem.sboms, pg.sboms, pg.sbom_packages)
      /\ IoCsAgree(mem.iocs, pg.iocs)
      /\ IncidentsAgree(mem.incidents, pg.incidents, now)
      /\ Covered(mem.iocs, mem.sboms, mem.incidents)
  BY DEF IInv, StoresAgree
<1>2. /\ DOMAIN pg.incidents = DOMAIN mem.incidents /\ DOMAIN pg.iocs = DOMAIN mem.iocs
      /\ \A j \in DOMAIN mem.incidents : pg.incidents[j] = P!IncidentRow(mem.incidents[j])
  BY <1>1 DEF IncidentsAgree, IoCsAgree
<1>3. \A x : P!IncidentRow(x).ioc = x.ioc /\ P!IncidentRow(x).refs = x.refs
  BY DEF P!IncidentRow
<1>4. \A j \in DOMAIN mem.incidents : /\ pg.incidents[j].ioc = mem.incidents[j].ioc
                                      /\ pg.incidents[j].refs = mem.incidents[j].refs
  BY <1>2, <1>3
<1>5. \A id : P!MatchedComponentRefsByIoC(pg, id) = M!MatchedComponentRefsByIoC(mem, id)
  <2>1. ASSUME NEW id PROVE P!MatchedComponentRefsByIoC(pg, id) = M!MatchedComponentRefsByIoC(mem, id)
    <3> DEFINE S == { i \in DOMAIN mem.incidents : mem.incidents[i].ioc = id }
    <3>1. { i \in DOMAIN pg.incidents : pg.incidents[i].ioc = id } = S
      BY <1>2, <1>4
    <3>2. { pg.incidents[i].refs : i \in S } = { mem.incidents[i].refs : i \in S }
      BY <1>4
    <3>3. P!MatchedComponentRefsByIoC(pg, id) = UNION { pg.incidents[i].refs : i \in S }
      BY <3>1 DEF P!MatchedComponentRefsByIoC
    <3>4. M!MatchedComponentRefsByIoC(mem, id) = UNION { mem.incidents[i].refs : i \in S }
      BY DEF M!MatchedComponentRefsByIoC
    <3> QED
      BY <3>2, <3>3, <3>4
  <2> QED
    BY <2>1
<1>6. \A eco, name : /\ M!ListSBOMPackages(mem, eco, name) = RefsWith(mem.sboms, eco, name)
                     /\ P!ListSBOMPackages(pg, eco, name) = RefsWith(mem.sboms, eco, name)
  BY <1>1, PackagesOf
<1>7. \A id, ioc : MemRadius(id, ioc) = PgRadius(id, ioc)
  <2>1. ASSUME NEW id, NEW ioc PROVE MemRadius(id, ioc) = PgRadius(id, ioc)
    <3>1. P!ListSBOMPackages(pg, ioc.eco, ioc.name) = M!ListSBOMPackages(mem, ioc.eco, ioc.name)
      BY <1>6
    <3> QED
      BY <3>1, <1>2, <1>5 DEF MemRadius, PgRadius, BlastRadius
  <2> QED
    BY <2>1
<1>8. BlastRadiusAgrees
  BY <1>7 DEF BlastRadiusAgrees
<1>9. ASSUME NEW id \in DOMAIN mem.iocs
      PROVE  RefsWith(mem.sboms, mem.iocs[id].eco, mem.iocs[id].name) \subseteq
                MemRadius(id, mem.iocs[id])
  <2>1. MemRadius(id, mem.iocs[id]) = M!MatchedComponentRefsByIoC(mem, id)
    BY DEF MemRadius, BlastRadius
  <2>2. ASSUME NEW r \in RefsWith(mem.sboms, mem.iocs[id].eco, mem.iocs[id].name)
        PROVE  r \in M!MatchedComponentRefsByIoC(mem, id)
    <3>1. PICK s \in DOMAIN mem.sboms : Carries(mem.sboms[s], mem.iocs[id].eco, mem.iocs[id].name)
                                        /\ r = mem.sboms[s].ref
      BY DEF RefsWith
    <3>2. Held(mem.incidents, id, r)
      BY <3>1, <1>1, FiresCarries DEF Covered
    <3>3. PICK j \in DOMAIN mem.incidents : mem.incidents[j].ioc = id /\ r \in mem.incidents[j].refs
      BY <3>2 DEF Held
    <3>4. mem.incidents[j].refs \in { mem.incidents[i].refs : i \in { k \in DOMAIN mem.incidents :
                                        mem.incidents[k].ioc = id } }
      BY <3>3
    <3> QED
      BY <3>3, <3>4 DEF M!MatchedComponentRefsByIoC
  <2> QED
    BY <2>1, <2>2
<1>10. CachedRadiusCoversLive
  BY <1>6, <1>7, <1>9 DEF CachedRadiusCoversLive
<1> QED
  BY <1>8, <1>10

(* BlastRadius answers the same on both backends, for a stored IoC and for *)
(* a hypothetical one.                                                     *)
THEOREM RadiusSameOnBoth == Spec => []BlastRadiusAgrees
  BY Inductive, RadiusInStep, PTL

(* The incidents BlastRadius reads for a stored IoC cover every component  *)
(* that matching again would find: onSBOMIngested and onIoCMatched between *)
(* them leave no match without an incident.                                *)
THEOREM RadiusNeverMisses == Spec => []CachedRadiusCoversLive
  BY Inductive, RadiusInStep, PTL

-----------------------------------------------------------------------------
(* What the reads return: publishers.                                       *)

Newest(copies) == { P!Micro(t) : t \in { c \in copies : \A d \in copies : d <= c } }

LEMMA NewestIs ==
    ASSUME NEW copies, copies \subseteq Nat, NEW row, IsNewest(copies, row)
    PROVE  Newest(copies) = {row.seen}
<1>1. PICK c \in copies : (\A d \in copies : d <= c) /\ row = [seen |-> P!Micro(c)]
  BY DEF IsNewest
<1>2. row.seen = P!Micro(c)
  BY <1>1
<1>3. \A b \in copies : (\A d \in copies : d <= b) => b = c
  BY <1>1, SMTT(20)
<1>4. { b \in copies : \A d \in copies : d <= b } = {c}
  BY <1>1, <1>3
<1> QED
  BY <1>2, <1>4 DEF Newest

CutProfile(t, pf) ==
    [ seen |-> t, count |-> pf.count,
      changed |-> IF pf.changed = NoTime THEN NoTime ELSE P!Micro(pf.changed) ]

LEMMA JoinedIs ==
    ASSUME NEW t, NEW pf, NEW T
    PROVE  Joined({t}, {pf}) = {CutProfile(t, pf)} /\ Joined(T, {}) = {}
  BY SMTT(20) DEF Joined, CutProfile

LEMMA PublishersInStep == IInv => PostgresKeepsNewestPublisher
<1> SUFFICES ASSUME IInv PROVE PostgresKeepsNewestPublisher
  OBVIOUS
<1>1. now \in Nat /\ PublishersAgree(mem.publishers, mem.profiles, pg.publishers, pg.publisher_profiles, now)
  BY DEF IInv, StoresAgree
<1>2. P!ListPublishers(pg) = M!ListPublishers(mem) \cup DOMAIN mem.profiles
  BY <1>1 DEF PublishersAgree, P!ListPublishers, M!ListPublishers
<1> DEFINE K(name) == Copies(mem.publishers, mem.profiles, name)
<1>3. \A name : M!GetPublisher(mem, name) \cup M!GetPublisherProfile(mem, name) =
                    Lookup(mem.publishers, name) \cup Lookup(mem.profiles, name)
  BY SameTables DEF M!GetPublisher, M!GetPublisherProfile
<1>4. \A name : { row.seen : row \in M!GetPublisher(mem, name) \cup M!GetPublisherProfile(mem, name) } = K(name)
  BY <1>3 DEF Copies
<1> HIDE DEF K
<1>5. ASSUME NEW name
      PROVE  /\ { row.seen : row \in P!GetPublisher(pg, name) } = Newest(K(name))
             /\ P!GetPublisherProfile(pg, name) =
                  Joined(Newest(K(name)), M!GetPublisherProfile(mem, name))
  <2>1. /\ P!GetPublisher(pg, name) = Lookup(pg.publishers, name)
        /\ M!GetPublisherProfile(mem, name) = Lookup(mem.profiles, name)
        /\ P!Lookup(pg.publisher_profiles, name) = Lookup(pg.publisher_profiles, name)
    BY SameTables DEF P!GetPublisher, M!GetPublisherProfile
  <2>2. /\ DOMAIN pg.publishers = DOMAIN mem.publishers \cup DOMAIN mem.profiles
        /\ DOMAIN pg.publisher_profiles = DOMAIN mem.profiles
        /\ \A n \in DOMAIN mem.profiles : pg.publisher_profiles[n] = P!ProfileRow(mem.profiles[n])
        /\ \A n \in DOMAIN pg.publishers : IsNewest(K(n), pg.publishers[n])
    BY <1>1 DEF PublishersAgree, K
  <2>3. CASE name \in DOMAIN pg.publishers
    <3> DEFINE s == pg.publishers[name].seen
    <3>1. K(name) \subseteq Nat
      <4>1. \A c \in K(name) : IsCopy(mem.publishers, mem.profiles, name, c)
        BY CopiesAre DEF K
      <4>2. SeenBefore(mem.publishers, [seen : Nat], now) /\ SeenBefore(mem.profiles, Profiles, now)
        BY <1>1, SeenSoFar
      <4> QED
        BY <4>1, <4>2 DEF SeenBefore, IsCopy
    <3>2. Newest(K(name)) = {s}
      BY <2>2, <2>3, <3>1, NewestIs
    <3>3. Lookup(pg.publishers, name) = {pg.publishers[name]}
      BY <2>3, LookupIs
    <3>4. { row.seen : row \in P!GetPublisher(pg, name) } = {s}
      BY <2>1, <3>3
    <3>5. P!GetPublisherProfile(pg, name) = Joined({s}, M!GetPublisherProfile(mem, name))
      <4>1. CASE name \in DOMAIN mem.profiles
        <5> DEFINE pf == mem.profiles[name]
        <5>1. Lookup(pg.publisher_profiles, name) = {P!ProfileRow(pf)} /\ Lookup(mem.profiles, name) = {pf}
          BY <2>2, <4>1, LookupIs
        <5> HIDE DEF pf, s
        <5>2. P!GetPublisherProfile(pg, name) =
                {[seen |-> s, count |-> P!ProfileRow(pf).count, changed |-> P!ProfileRow(pf).changed]}
          BY <2>1, <5>1 DEF P!GetPublisherProfile, s
        <5>3. P!NoTime = NoTime
          BY DEF P!NoTime, NoTime
        <5>4. P!GetPublisherProfile(pg, name) = {CutProfile(s, pf)}
          BY <5>2, <5>3 DEF P!ProfileRow, CutProfile
        <5>5. Joined({s}, {pf}) = {CutProfile(s, pf)}
          BY JoinedIs
        <5> QED
          BY <2>1, <5>1, <5>4, <5>5
      <4>2. CASE name \notin DOMAIN mem.profiles
        <5>1. Lookup(pg.publisher_profiles, name) = {} /\ Lookup(mem.profiles, name) = {}
          BY <2>2, <4>2, LookupIs
        <5>2. P!GetPublisherProfile(pg, name) = {}
          BY <2>1, <5>1 DEF P!GetPublisherProfile
        <5> QED
          BY <2>1, <5>1, <5>2, JoinedIs
      <4> QED
        BY <4>1, <4>2
    <3> QED
      BY <3>2, <3>4, <3>5
  <2>4. CASE name \notin DOMAIN pg.publishers
    <3>1. /\ Lookup(pg.publishers, name) = {} /\ Lookup(pg.publisher_profiles, name) = {}
          /\ Lookup(mem.profiles, name) = {}
      BY <2>2, <2>4, LookupIs
    <3>2. K(name) = {}
      <4>1. \A c \in K(name) : IsCopy(mem.publishers, mem.profiles, name, c)
        BY CopiesAre DEF K
      <4> QED
        BY <4>1, <2>2, <2>4 DEF IsCopy
    <3>3. Newest(K(name)) = {}
      BY <3>2 DEF Newest
    <3>4. { row.seen : row \in P!GetPublisher(pg, name) } = {} /\ P!GetPublisherProfile(pg, name) = {}
      BY <2>1, <3>1 DEF P!GetPublisherProfile
    <3> QED
      BY <2>1, <3>1, <3>3, <3>4, JoinedIs
  <2> QED
    BY <2>3, <2>4
<1> QED
  BY <1>2, <1>4, <1>5 DEF PostgresKeepsNewestPublisher, Newest

(* UpsertPublisher and UpsertPublisherProfile write one parent row in      *)
(* Postgres and two maps in memory; what Postgres answers is the newer of  *)
(* the two copies the memory store keeps.                                  *)
THEOREM PostgresAnswersNewest == Spec => []PostgresKeepsNewestPublisher
  BY Inductive, PublishersInStep, PTL

-----------------------------------------------------------------------------
(* What the reads return: lists, by the rows they select and their order.   *)

TimesCut(S, key, coarse) == \A x \in S : key[x] \in Nat /\ coarse[x] = P!Micro(key[x])

LEMMA AscendingCut ==
    ASSUME NEW S, IsFiniteSet(S), NEW key, NEW coarse, TimesCut(S, key, coarse)
    PROVE  /\ Ascending(S, key) \subseteq Ascending(S, coarse)
           /\ HasKeys(S, key) /\ HasKeys(S, coarse)
<1>1. \A x \in S : key[x] \in Nat /\ coarse[x] \in Nat /\ coarse[x] = P!Micro(key[x])
  BY MicroNat DEF TimesCut
<1>2. HasKeys(S, key) /\ HasKeys(S, coarse)
  <2>1. \A x \in S : key[x] \in Int /\ coarse[x] \in Int
    BY <1>1, SMTT(20)
  <2> QED
    BY <2>1 DEF HasKeys
<1>3. Coarser(coarse, key, S)
  BY <1>1, MicroMonotone DEF Coarser
<1> QED
  BY <1>2, <1>3, CoarserOrder

LEMMA DescendingCut ==
    ASSUME NEW S, IsFiniteSet(S), NEW key, NEW coarse, TimesCut(S, key, coarse)
    PROVE  Descending(S, key) \subseteq Descending(S, coarse)
<1> DEFINE a == [x \in S |-> -key[x]]
           b == [x \in S |-> -coarse[x]]
<1>1. \A x \in S : key[x] \in Nat /\ coarse[x] \in Nat /\ coarse[x] = P!Micro(key[x])
  BY MicroNat DEF TimesCut
<1>2. \A x \in S : a[x] = -key[x] /\ b[x] = -coarse[x]
  OBVIOUS
<1> HIDE DEF a, b
<1>3. \A x \in S : a[x] \in Int /\ b[x] \in Int
  BY <1>1, <1>2, SMTT(20)
<1>4. HasKeys(S, a) /\ HasKeys(S, b)
  BY <1>3 DEF HasKeys
<1>5. ASSUME NEW x \in S, NEW y \in S, a[x] <= a[y] PROVE b[x] <= b[y]
  <2>1. key[y] <= key[x]
    BY <1>1, <1>2, <1>5, SMTT(20)
  <2>2. coarse[y] <= coarse[x]
    BY <2>1, <1>1, MicroMonotone
  <2> QED
    BY <2>2, <1>1, <1>2, SMTT(20)
<1>6. Coarser(b, a, S)
  BY <1>5 DEF Coarser
<1> QED
  BY <1>4, <1>6, CoarserOrder DEF Descending, a, b

LEMMA DescendingKeys ==
    ASSUME NEW S, IsFiniteSet(S), NEW key, \A x \in S : key[x] \in Nat
    PROVE  HasKeys(S, [x \in S |-> -key[x]])
<1> DEFINE a == [x \in S |-> -key[x]]
<1>1. \A x \in S : a[x] \in Int
  BY SMTT(20)
<1> QED
  BY <1>1 DEF HasKeys

(* An unlimited answer lists exactly what was selected. *)
LEMMA MembersAre ==
    ASSUME NEW S, NEW key, HasKeys(S, key)
    PROVE  Members(Takes(Ascending(S, key), 0)) = S
<1> DEFINE Q == Ascending(S, key)
<1>1. \A q : Take(q, 0) = q
  BY SMTT(20) DEF Take
<1>2. Takes(Q, 0) = Q
  <2> HIDE DEF Q
  <2>1. \A q : q \in Takes(Q, 0) <=> \E r \in Q : q = Take(r, 0)
    BY DEF Takes
  <2>2. \A q : q \in Takes(Q, 0) <=> q \in Q
    BY <1>1, <2>1, SMTT(20)
  <2> QED
    BY <2>2
<1>3. ASSUME NEW q \in Q PROVE Range(q) = S
  <2>1. Enumerates(q, S, key)
    BY AnEnumeration
  <2>2. q \in [1 .. Cardinality(S) -> S] /\ \A x \in S : \E i \in 1 .. Cardinality(S) : q[i] = x
    BY <2>1 DEF Enumerates
  <2> QED
    BY <2>2 DEF Range
<1>4. Q # {}
  BY AscendingExists
<1> HIDE DEF Q
<1>5. { Range(q) : q \in Q } = {S}
  BY <1>3, <1>4
<1>6. UNION {S} = S
  OBVIOUS
<1> QED
  BY <1>2, <1>5, <1>6 DEF Members, Q

LEMMA MicroBelow ==
    ASSUME NEW t \in Nat, NEW u \in Nat
    PROVE  /\ P!Micro(t) < P!Micro(u) => t < u
           /\ t < u /\ ~ (P!Micro(t) < P!Micro(u)) => P!Micro(t) = P!Micro(u)
           /\ u % Grain = 0 /\ t < u => P!Micro(t) < P!Micro(u)
<1>1. P!Micro(t) \in Nat /\ P!Micro(u) \in Nat /\ P!Micro(t) <= t
  BY MicroNat
<1>2. (u <= t => P!Micro(u) <= P!Micro(t)) /\ (t <= u => P!Micro(t) <= P!Micro(u))
  BY MicroMonotone
<1>3. u % Grain = 0 => P!Micro(u) = u
  BY MicroWhole
<1> QED
  BY <1>1, <1>2, <1>3, SMTT(20)

LEMMA SameNone ==
    /\ M!NoTime = NoTime /\ P!NoTime = NoTime /\ M!Unset = Unset /\ P!Unset = Unset
    /\ \A t \in Nat : t # NoTime
<1>1. M!NoTime = NoTime /\ P!NoTime = NoTime /\ M!Unset = Unset /\ P!Unset = Unset
  BY DEF M!NoTime, P!NoTime, NoTime, M!Unset, P!Unset, Unset
<1>2. \A t \in Nat : t # NoTime
  BY SMTT(20) DEF NoTime
<1> QED
  BY <1>1, <1>2

(* The time bounds of a filter, on the times of either store. *)
InTime(at, f) == (f.from # NoTime => at >= f.from) /\ (f.to # NoTime => at <= f.to)

InTimeCut(at, f) ==
    (f.from # NoTime => P!Micro(at) >= P!Micro(f.from)) /\ (f.to # NoTime => P!Micro(at) <= P!Micro(f.to))

(* The other conditions of a filter. *)
Chosen(id, f) ==
    /\ f.states # {} => mem.incidents[id].state \in f.states
    /\ M!matchesEcosystemFilter(mem, mem.incidents[id], f)
    /\ M!matchesSearchFilter(mem.incidents[id], f)
    /\ M!matchesOwnerFilter(mem, mem.incidents[id], f)

ChosenAnomaly(id, f) ==
    (f.ref # Unset => mem.anomalies[id].ref = f.ref) /\ (f.kind # Unset => mem.anomalies[id].kind = f.kind)

MemIncidents(f) == { id \in DOMAIN mem.incidents : Chosen(id, f) /\ InTime(mem.incidents[id].opened, f) }
PgIncidents(f) == { id \in DOMAIN mem.incidents : Chosen(id, f) /\ InTimeCut(mem.incidents[id].opened, f) }

MemAnomalies(f) == { id \in DOMAIN mem.anomalies : ChosenAnomaly(id, f) /\ InTime(mem.anomalies[id].at, f) }
PgAnomalies(f) == { id \in DOMAIN mem.anomalies : ChosenAnomaly(id, f) /\ InTimeCut(mem.anomalies[id].at, f) }

LEMMA IncidentsSelected ==
    ASSUME IInv, NEW f
    PROVE  /\ M!ListIncidentsFiltered(mem, f) =
                Takes(Descending(MemIncidents(f), Column(mem.incidents, "opened")), f.limit)
           /\ P!ListIncidentsFiltered(pg, f) =
                Takes(Descending(PgIncidents(f), Column(pg.incidents, "opened")), f.limit)
<1>1. /\ pg.components = mem.components /\ IoCsAgree(mem.iocs, pg.iocs)
      /\ IncidentsAgree(mem.incidents, pg.incidents, now)
  BY DEF IInv, StoresAgree
<1>2. /\ DOMAIN pg.incidents = DOMAIN mem.incidents
      /\ \A j \in DOMAIN mem.incidents : pg.incidents[j] = P!IncidentRow(mem.incidents[j])
  BY <1>1 DEF IncidentsAgree
<1>3. \A x : /\ P!IncidentRow(x).ioc = x.ioc /\ P!IncidentRow(x).refs = x.refs
             /\ P!IncidentRow(x).state = x.state /\ P!IncidentRow(x).opened = P!Micro(x.opened)
  BY DEF P!IncidentRow
<1>4. DOMAIN pg.iocs = DOMAIN mem.iocs /\ \A i \in DOMAIN mem.iocs : pg.iocs[i].eco = mem.iocs[i].eco
  <2>1. \A x \in IoCRecords : [x EXCEPT !.at = P!Micro(@)].eco = x.eco
    BY DEF IoCRecords
  <2> QED
    BY <2>1, <1>1 DEF IoCsAgree
<1>5. ASSUME NEW id \in DOMAIN mem.incidents
      PROVE  /\ M!matchesIndexedFilter(mem.incidents[id], f) <=>
                  /\ f.states # {} => mem.incidents[id].state \in f.states
                  /\ InTime(mem.incidents[id].opened, f)
             /\ P!matchesWhere(pg.incidents[id], f) <=>
                  /\ f.states # {} => mem.incidents[id].state \in f.states
                  /\ InTimeCut(mem.incidents[id].opened, f)
             /\ P!matchesEcosystemFilter(pg, pg.incidents[id], f) <=>
                  M!matchesEcosystemFilter(mem, mem.incidents[id], f)
             /\ P!matchesSearchFilterPg(pg.incidents[id], f) <=>
                  M!matchesSearchFilter(mem.incidents[id], f)
             /\ P!matchesOwnerFilter(pg, pg.incidents[id], f) <=>
                  M!matchesOwnerFilter(mem, mem.incidents[id], f)
  <2> DEFINE inc == mem.incidents[id]
             row == pg.incidents[id]
  <2>1. row.ioc = inc.ioc /\ row.refs = inc.refs /\ row.state = inc.state /\ row.opened = P!Micro(inc.opened)
    BY <1>2, <1>3
  <2> HIDE DEF inc, row
  <2>2. M!matchesIndexedFilter(inc, f) <=> (f.states # {} => inc.state \in f.states) /\ InTime(inc.opened, f)
    BY SameNone DEF M!matchesIndexedFilter, InTime
  <2>3. P!matchesWhere(row, f) <=> (f.states # {} => inc.state \in f.states) /\ InTimeCut(inc.opened, f)
    BY <2>1, SameNone DEF P!matchesWhere, InTimeCut
  <2>4. P!matchesEcosystemFilter(pg, row, f) <=> M!matchesEcosystemFilter(mem, inc, f)
    BY <2>1, <1>4 DEF P!matchesEcosystemFilter, M!matchesEcosystemFilter
  <2>5. P!matchesSearchFilterPg(row, f) <=> M!matchesSearchFilter(inc, f)
    BY <2>1, SameNone DEF P!matchesSearchFilterPg, M!matchesSearchFilter
  <2>6. P!matchesOwnerFilter(pg, row, f) <=> M!matchesOwnerFilter(mem, inc, f)
    BY <2>1, <1>1, SameNone DEF P!matchesOwnerFilter, M!matchesOwnerFilter
  <2> QED
    BY <2>2, <2>3, <2>4, <2>5, <2>6 DEF inc, row
<1> DEFINE A == { id \in DOMAIN mem.incidents :
                    /\ M!matchesIndexedFilter(mem.incidents[id], f)
                    /\ M!matchesEcosystemFilter(mem, mem.incidents[id], f)
                    /\ M!matchesSearchFilter(mem.incidents[id], f)
                    /\ M!matchesOwnerFilter(mem, mem.incidents[id], f) }
           B == { id \in { i \in DOMAIN pg.incidents : P!matchesWhere(pg.incidents[i], f) } :
                    /\ P!matchesEcosystemFilter(pg, pg.incidents[id], f)
                    /\ P!matchesSearchFilterPg(pg.incidents[id], f)
                    /\ P!matchesOwnerFilter(pg, pg.incidents[id], f) }
<1>6. /\ M!ListIncidentsFiltered(mem, f) = Takes(Descending(A, Column(mem.incidents, "opened")), f.limit)
      /\ P!ListIncidentsFiltered(pg, f) = Takes(Descending(B, Column(pg.incidents, "opened")), f.limit)
  <2>1. M!ListIncidentsFiltered(mem, f) = M!Takes(M!Descending(A, M!Column(mem.incidents, "opened")), f.limit)
    BY DEF M!ListIncidentsFiltered
  <2>2. P!ListIncidentsFiltered(pg, f) = P!Takes(P!Descending(B, P!Column(pg.incidents, "opened")), f.limit)
    BY DEF P!ListIncidentsFiltered
  <2> HIDE DEF A, B
  <2> QED
    BY <2>1, <2>2, SameSorts, SameTables
<1>7. A = MemIncidents(f)
  BY <1>5 DEF MemIncidents, Chosen
<1>8. B = PgIncidents(f)
  BY <1>2, <1>5 DEF PgIncidents, Chosen
<1> QED
  BY <1>6, <1>7, <1>8

LEMMA AnomaliesSelected ==
    ASSUME IInv, NEW f
    PROVE  /\ M!ListAnomalies(mem, f) =
                Takes(Descending(MemAnomalies(f), Column(mem.anomalies, "at")), f.limit)
           /\ P!ListAnomalies(pg, f) =
                Takes(Descending(PgAnomalies(f), Column(pg.anomalies, "at")), f.limit)
<1>1. AnomaliesAgree(mem.anomalies, pg.anomalies, pg.anomaly_seq)
  BY DEF IInv, StoresAgree
<1>2. \A x \in Anomalies : /\ [x EXCEPT !.at = P!Micro(@)].kind = x.kind
                           /\ [x EXCEPT !.at = P!Micro(@)].ref = x.ref
                           /\ [x EXCEPT !.at = P!Micro(@)].at = P!Micro(x.at)
  BY DEF Anomalies
<1>3. /\ DOMAIN pg.anomalies = DOMAIN mem.anomalies
      /\ \A j \in DOMAIN mem.anomalies : /\ pg.anomalies[j].kind = mem.anomalies[j].kind
                                         /\ pg.anomalies[j].ref = mem.anomalies[j].ref
                                         /\ pg.anomalies[j].at = P!Micro(mem.anomalies[j].at)
  BY <1>1, <1>2 DEF AnomaliesAgree
<1> DEFINE A == { id \in DOMAIN mem.anomalies :
                    /\ f.ref # Unset => mem.anomalies[id].ref = f.ref
                    /\ f.kind # Unset => mem.anomalies[id].kind = f.kind
                    /\ f.from # NoTime => mem.anomalies[id].at >= f.from
                    /\ f.to # NoTime => mem.anomalies[id].at <= f.to }
           B == { id \in DOMAIN pg.anomalies :
                    /\ f.ref # Unset => pg.anomalies[id].ref = f.ref
                    /\ f.kind # Unset => pg.anomalies[id].kind = f.kind
                    /\ f.from # NoTime => pg.anomalies[id].at >= P!Micro(f.from)
                    /\ f.to # NoTime => pg.anomalies[id].at <= P!Micro(f.to) }
<1>4. /\ M!ListAnomalies(mem, f) = Takes(Descending(A, Column(mem.anomalies, "at")), f.limit)
      /\ P!ListAnomalies(pg, f) = Takes(Descending(B, Column(pg.anomalies, "at")), f.limit)
  <2>1. M!ListAnomalies(mem, f) = M!Takes(M!Descending(A, M!Column(mem.anomalies, "at")), f.limit)
    BY SameNone DEF M!ListAnomalies
  <2>2. P!ListAnomalies(pg, f) = P!Takes(P!Descending(B, P!Column(pg.anomalies, "at")), f.limit)
    BY SameNone DEF P!ListAnomalies
  <2> HIDE DEF A, B
  <2> QED
    BY <2>1, <2>2, SameSorts, SameTables
<1>5. A = MemAnomalies(f)
  BY DEF MemAnomalies, ChosenAnomaly, InTime
<1>6. B = PgAnomalies(f)
  BY <1>3 DEF PgAnomalies, ChosenAnomaly, InTimeCut
<1> QED
  BY <1>4, <1>5, <1>6

LEMMA MaxOf ==
    ASSUME NEW S, S \subseteq Nat, NEW top \in S, \A u \in S : u <= top
    PROVE  (CHOOSE t \in S : \A u \in S : u <= t) = top
<1> DEFINE c == CHOOSE t \in S : \A u \in S : u <= t
<1>1. c \in S /\ \A u \in S : u <= c
  OBVIOUS
<1> HIDE DEF c
<1>2. c <= top /\ top <= c /\ c \in Nat /\ top \in Nat
  BY <1>1
<1>3. c = top
  BY <1>2, SMTT(20)
<1> QED
  BY <1>3 DEF c

LEMMA LatestIs ==
    ASSUME IInv, NEW ref \in DOMAIN mem.history
    PROVE  /\ M!Latest(mem.history[ref]) \in Nat
           /\ P!MaxSnapshotAt(pg, ref) = P!Micro(M!Latest(mem.history[ref]))
<1> DEFINE h == mem.history[ref]
           n == Len(h)
           top == h[n].at
<1>1. HistoryAgrees(mem.history, pg.publisher_history, now)
  BY DEF IInv, StoresAgree
<1>2. Ascends(h, now) /\ P!SnapshotsOf(pg, ref) = CutLog(h)
  BY <1>1, HistoryIs DEF HistoryAgrees
<1> HIDE DEF h
<1>3. h \in Seq(Snapshots) /\ h # <<>> /\ \A i, j \in 1 .. n : i <= j => h[i].at <= h[j].at
  BY <1>2 DEF Ascends
<1>4. n \in Nat /\ n \in 1 .. n /\ DOMAIN h = 1 .. n /\ \A i \in 1 .. n : h[i] \in Snapshots
  <2> HIDE DEF Snapshots
  <2> QED
    BY <1>3, SMTT(20)
<1>5. \A i \in 1 .. n : h[i].at \in Nat
  BY <1>4 DEF Snapshots
<1>6. \A i \in 1 .. n : h[i].at <= top
  <2>1. \A i \in 1 .. n : i <= n
    BY SMTT(20)
  <2> QED
    BY <2>1, <1>3, <1>4
<1> HIDE DEF n
<1> DEFINE T == { h[i].at : i \in DOMAIN h }
           U == { r.at : r \in Range(CutLog(h)) }
<1>7. M!Latest(h) = CHOOSE t \in T : \A u \in T : u <= t
  BY DEF M!Latest
<1>8. P!MaxSnapshotAt(pg, ref) = CHOOSE t \in U : \A u \in U : u <= t
  BY <1>2, SameRange DEF P!MaxSnapshotAt
<1>9. T \subseteq Nat /\ top \in T /\ \A u \in T : u <= top
  BY <1>4, <1>5, <1>6
<1>10. \A i \in DOMAIN h : CutLog(h)[i].at = P!Micro(h[i].at)
  <2>1. \A x \in Snapshots : [x EXCEPT !.at = P!Micro(@)].at = P!Micro(x.at)
    BY DEF Snapshots
  <2> QED
    BY <2>1, <1>4 DEF CutLog
<1>11. DOMAIN CutLog(h) = DOMAIN h
  BY DEF CutLog
<1>12. U \subseteq Nat /\ P!Micro(top) \in U /\ \A u \in U : u <= P!Micro(top)
  <2>1. ASSUME NEW u \in U PROVE u \in Nat /\ u <= P!Micro(top)
    <3>1. PICK i \in DOMAIN h : u = CutLog(h)[i].at
      BY <1>11 DEF Range
    <3>2. u = P!Micro(h[i].at) /\ h[i].at \in Nat /\ top \in Nat /\ h[i].at <= top
      BY <3>1, <1>4, <1>5, <1>6, <1>10
    <3> QED
      BY <3>2, MicroNat, MicroMonotone
  <2>2. P!Micro(top) \in U
    BY <1>4, <1>10, <1>11 DEF Range
  <2> QED
    BY <2>1, <2>2
<1> HIDE DEF T, U
<1>13. M!Latest(h) = top
  BY <1>7, <1>9, MaxOf
<1>14. P!MaxSnapshotAt(pg, ref) = P!Micro(top)
  BY <1>8, <1>12, MaxOf
<1> QED
  BY <1>4, <1>5, <1>13, <1>14 DEF h

LEMMA NoHistory ==
    ASSUME IInv, NEW ref, ref \notin DOMAIN mem.history
    PROVE  P!SnapshotsOf(pg, ref) = <<>>
<1> DEFINE rows == pg.publisher_history
           R == HistoryRows(mem.history)
<1>1. rows \in Seq(R)
  BY DEF IInv, StoresAgree, HistoryAgrees, HistoryRows
<1>2. \A r \in R : r.ref \in DOMAIN mem.history
  BY DEF HistoryRows
<1> HIDE DEF rows, R
<1>3. \A k \in DOMAIN rows : rows[k] \in R
  BY <1>1, SMTT(30)
<1>4. IdsIn(rows, ref) = {}
  BY <1>2, <1>3 DEF IdsIn
<1>5. HistoryIn(rows, ref) = <<>>
  BY <1>4, NoneInOrder, SMTT(20) DEF HistoryIn, Listed
<1> QED
  BY <1>5, HistoryIs DEF rows

LEMMA SeenPackages ==
    ASSUME IInv
    PROVE  { r.ref : r \in P!Range(pg.publisher_history) } = DOMAIN mem.history
<1> DEFINE rows == pg.publisher_history
           R == HistoryRows(mem.history)
           S == { r.ref : r \in Range(rows) }
<1>1. HistoryAgrees(mem.history, rows, now) /\ rows \in Seq(R)
  BY DEF IInv, StoresAgree, HistoryAgrees, HistoryRows
<1>2. \A r \in R : r.ref \in DOMAIN mem.history
  BY DEF HistoryRows
<1> HIDE DEF rows, R
<1>3. \A k \in DOMAIN rows : rows[k] \in R
  BY <1>1, SMTT(20)
<1>4. S \subseteq DOMAIN mem.history
  BY <1>2, <1>3 DEF Range
<1>5. ASSUME NEW ref \in DOMAIN mem.history PROVE ref \in S
  <2>1. HistoryIn(rows, ref) = CutLog(mem.history[ref]) /\ mem.history[ref] # <<>>
        /\ mem.history[ref] \in Seq(Snapshots)
    BY <1>1 DEF HistoryAgrees, Ascends
  <2>2. DOMAIN mem.history[ref] # {}
    <3> DEFINE h == mem.history[ref]
    <3>1. h \in Seq(Snapshots) /\ h # <<>>
      BY <2>1
    <3> HIDE DEF Snapshots, h
    <3>2. 1 \in DOMAIN h
      BY <3>1, SMTT(20)
    <3> QED
      BY <3>2 DEF h
  <2>3. DOMAIN HistoryIn(rows, ref) # {}
    BY <2>1, <2>2 DEF CutLog
  <2>4. IdsIn(rows, ref) # {}
    <3>1. Listed(rows, {}) = <<>>
      BY NoneInOrder, SMTT(20) DEF Listed
    <3>2. DOMAIN <<>> = {}
      BY SMTT(20)
    <3> QED
      BY <2>3, <3>1, <3>2 DEF HistoryIn
  <2> QED
    BY <2>4 DEF IdsIn, Range
<1>6. S = DOMAIN mem.history
  BY <1>4, <1>5
<1> QED
  BY <1>6, SameRange DEF rows

(* The stale packages of either store, and the key they are sorted by. *)
MemStale(cutoff) == { ref \in DOMAIN mem.history : M!Latest(mem.history[ref]) < cutoff }
PgStale(cutoff) == { ref \in DOMAIN mem.history : P!Micro(M!Latest(mem.history[ref])) < P!Micro(cutoff) }
LatestOf(S) == [ref \in S |-> M!Latest(mem.history[ref])]
LatestCut(S) == [ref \in S |-> P!Micro(M!Latest(mem.history[ref]))]

LEMMA StaleSelected ==
    ASSUME IInv, NEW cutoff, NEW limit
    PROVE  /\ M!ListPackagesNeedingRefresh(mem, cutoff, limit) =
                Takes(Ascending(MemStale(cutoff), LatestOf(MemStale(cutoff))), limit)
           /\ P!ListPackagesNeedingRefresh(pg, cutoff, limit) =
                Takes(Ascending(PgStale(cutoff), LatestCut(PgStale(cutoff))), limit)
<1>1. M!ListPackagesNeedingRefresh(mem, cutoff, limit) =
        Takes(Ascending(MemStale(cutoff), LatestOf(MemStale(cutoff))), limit)
  <2>1. M!ListPackagesNeedingRefresh(mem, cutoff, limit) =
          M!Takes(M!Ascending(MemStale(cutoff), LatestOf(MemStale(cutoff))), limit)
    BY DEF M!ListPackagesNeedingRefresh, MemStale, LatestOf
  <2> QED
    BY <2>1, SameSorts
<1> DEFINE S == { ref \in DOMAIN mem.history : P!MaxSnapshotAt(pg, ref) < P!Micro(cutoff) }
           T == PgStale(cutoff)
<1>2. P!ListPackagesNeedingRefresh(pg, cutoff, limit) =
        P!Takes(P!Ascending(S, [ref \in S |-> P!MaxSnapshotAt(pg, ref)]), limit)
  BY SeenPackages DEF P!ListPackagesNeedingRefresh
<1>3. \A ref \in DOMAIN mem.history : P!MaxSnapshotAt(pg, ref) = P!Micro(M!Latest(mem.history[ref]))
  BY LatestIs
<1>4. S = T
  BY <1>3 DEF PgStale
<1>5. \A ref \in T : P!MaxSnapshotAt(pg, ref) = P!Micro(M!Latest(mem.history[ref]))
  BY <1>3 DEF PgStale
<1> HIDE DEF S, T
<1>6. [ref \in S |-> P!MaxSnapshotAt(pg, ref)] = LatestCut(T)
  BY <1>4, <1>5 DEF LatestCut
<1>7. P!ListPackagesNeedingRefresh(pg, cutoff, limit) = Takes(Ascending(T, LatestCut(T)), limit)
  BY <1>2, <1>4, <1>6, SameSorts
<1> QED
  BY <1>1, <1>7 DEF T

(* Two tables with the same keys whose times in a column differ by the cut. *)
ColumnCut(t, rows, field) ==
    /\ DOMAIN rows = DOMAIN t
    /\ \A k \in DOMAIN t : t[k][field] \in Nat /\ rows[k][field] = P!Micro(t[k][field])

LEMMA ColumnTimes ==
    ASSUME NEW t, NEW rows, NEW field, ColumnCut(t, rows, field), NEW S, S \subseteq DOMAIN t
    PROVE  TimesCut(S, Column(t, field), Column(rows, field))
<1>1. \A k \in S : Column(t, field)[k] = t[k][field] /\ Column(rows, field)[k] = rows[k][field]
  BY DEF Column, ColumnCut
<1>2. \A k \in S : t[k][field] \in Nat /\ rows[k][field] = P!Micro(t[k][field])
  BY DEF ColumnCut
<1> QED
  BY <1>1, <1>2 DEF TimesCut

LEMMA IncidentColumns ==
    ASSUME IInv
    PROVE  IsFiniteSet(DOMAIN mem.incidents) /\ ColumnCut(mem.incidents, pg.incidents, "opened")
<1>1. IncidentsAgree(mem.incidents, pg.incidents, now)
  BY DEF IInv, StoresAgree
<1>2. \A x \in IncidentRecords : x["opened"] \in Nat /\ P!IncidentRow(x)["opened"] = P!Micro(x["opened"])
  BY DEF IncidentRecords, P!IncidentRow
<1> QED
  BY <1>1, <1>2 DEF IncidentsAgree, ColumnCut

LEMMA AnomalyColumns ==
    ASSUME IInv
    PROVE  IsFiniteSet(DOMAIN mem.anomalies) /\ ColumnCut(mem.anomalies, pg.anomalies, "at")
<1>1. AnomaliesAgree(mem.anomalies, pg.anomalies, pg.anomaly_seq)
  BY DEF IInv, StoresAgree
<1>2. \A x \in Anomalies : x["at"] \in Nat /\ [x EXCEPT !.at = P!Micro(@)]["at"] = P!Micro(x["at"])
  BY DEF Anomalies
<1>3. pg.anomaly_seq \in Nat /\ DOMAIN mem.anomalies = 1 .. pg.anomaly_seq
  BY <1>1 DEF AnomaliesAgree
<1>4. IsFiniteSet(DOMAIN mem.anomalies)
  BY <1>3, FS_Interval, SMTT(20)
<1> QED
  BY <1>1, <1>2, <1>4 DEF AnomaliesAgree, ColumnCut

LEMMA IoCColumns ==
    ASSUME IInv
    PROVE  IsFiniteSet(DOMAIN mem.iocs) /\ ColumnCut(mem.iocs, pg.iocs, "at")
<1>1. IoCsAgree(mem.iocs, pg.iocs)
  BY DEF IInv, StoresAgree
<1>2. \A x \in IoCRecords : x["at"] \in Nat /\ [x EXCEPT !.at = P!Micro(@)]["at"] = P!Micro(x["at"])
  BY DEF IoCRecords
<1> QED
  BY <1>1, <1>2 DEF IoCsAgree, ColumnCut

LEMMA SBOMColumns ==
    ASSUME IInv
    PROVE  /\ IsFiniteSet(DOMAIN mem.sboms) /\ ColumnCut(mem.sboms, pg.sboms, "at")
           /\ \A id \in DOMAIN mem.sboms : pg.sboms[id].ref = mem.sboms[id].ref
<1>1. SBOMsAgree(mem.sboms, pg.sboms, pg.sbom_packages)
  BY DEF IInv, StoresAgree
<1>2. \A x \in SBOMs : x["at"] \in Nat /\ SBOMRow(x)["at"] = P!Micro(x["at"]) /\ SBOMRow(x).ref = x.ref
  BY DEF SBOMs, SBOMRow
<1> QED
  BY <1>1, <1>2 DEF SBOMsAgree, ColumnCut

LEMMA HistoryColumns ==
    ASSUME IInv, NEW ref \in DOMAIN mem.history
    PROVE  /\ IsFiniteSet(DOMAIN mem.history[ref])
           /\ ColumnCut(mem.history[ref], P!SnapshotsOf(pg, ref), "at")
<1> DEFINE h == mem.history[ref]
<1>1. HistoryAgrees(mem.history, pg.publisher_history, now)
  BY DEF IInv, StoresAgree
<1>2. h \in Seq(Snapshots) /\ P!SnapshotsOf(pg, ref) = CutLog(h)
  BY <1>1, HistoryIs DEF HistoryAgrees, Ascends
<1> HIDE DEF h
<1>3. Len(h) \in Nat /\ DOMAIN h = 1 .. Len(h) /\ \A i \in DOMAIN h : h[i] \in Snapshots
  <2> HIDE DEF Snapshots
  <2> QED
    BY <1>2, SMTT(20)
<1>4. \A x \in Snapshots : x["at"] \in Nat /\ [x EXCEPT !.at = P!Micro(@)]["at"] = P!Micro(x["at"])
  BY DEF Snapshots
<1>5. IsFiniteSet(DOMAIN h)
  BY <1>3, FS_Interval, SMTT(20)
<1>6. ColumnCut(h, CutLog(h), "at")
  BY <1>3, <1>4 DEF CutLog, ColumnCut
<1> QED
  BY <1>2, <1>5, <1>6 DEF h

-----------------------------------------------------------------------------
(* A sorted, limited answer of the memory store is one of Postgres's too. *)
LEMMA NewestFirst ==
    ASSUME NEW t, NEW rows, NEW field, ColumnCut(t, rows, field), IsFiniteSet(DOMAIN t),
           NEW S, S \subseteq DOMAIN t, NEW limit
    PROVE  Takes(Descending(S, Column(t, field)), limit) \subseteq
                Takes(Descending(S, Column(rows, field)), limit)
<1>1. TimesCut(S, Column(t, field), Column(rows, field)) /\ IsFiniteSet(S)
  BY ColumnTimes, FS_Subset
<1>2. Descending(S, Column(t, field)) \subseteq Descending(S, Column(rows, field))
  BY <1>1, DescendingCut
<1> QED
  BY <1>2, TakesMonotone

LEMMA OldestFirst ==
    ASSUME NEW t, NEW rows, NEW field, ColumnCut(t, rows, field), IsFiniteSet(DOMAIN t),
           NEW S, S \subseteq DOMAIN t
    PROVE  Ascending(S, Column(t, field)) \subseteq Ascending(S, Column(rows, field))
<1>1. TimesCut(S, Column(t, field), Column(rows, field)) /\ IsFiniteSet(S)
  BY ColumnTimes, FS_Subset
<1> QED
  BY <1>1, AscendingCut

LEMMA ListsInStep == IInv => ListsAgree
<1> SUFFICES ASSUME IInv PROVE ListsAgree
  OBVIOUS
<1>1. ASSUME NEW f \in Unbounded
      PROVE  M!ListIncidentsFiltered(mem, f) \subseteq P!ListIncidentsFiltered(pg, f)
  <2>1. f.from = NoTime /\ f.to = NoTime
    BY DEF Unbounded
  <2>2. PgIncidents(f) = MemIncidents(f)
    BY <2>1 DEF PgIncidents, MemIncidents, InTime, InTimeCut
  <2>3. MemIncidents(f) \subseteq DOMAIN mem.incidents
    BY DEF MemIncidents
  <2>4. Takes(Descending(MemIncidents(f), Column(mem.incidents, "opened")), f.limit) \subseteq
        Takes(Descending(MemIncidents(f), Column(pg.incidents, "opened")), f.limit)
    BY <2>3, IncidentColumns, NewestFirst
  <2> QED
    BY <2>2, <2>4, IncidentsSelected
<1>2. ASSUME NEW f \in UnboundedAnomalies
      PROVE  M!ListAnomalies(mem, f) \subseteq P!ListAnomalies(pg, f)
  <2>1. f.from = NoTime /\ f.to = NoTime
    BY DEF UnboundedAnomalies
  <2>2. PgAnomalies(f) = MemAnomalies(f)
    BY <2>1 DEF PgAnomalies, MemAnomalies, InTime, InTimeCut
  <2>3. MemAnomalies(f) \subseteq DOMAIN mem.anomalies
    BY DEF MemAnomalies
  <2>4. Takes(Descending(MemAnomalies(f), Column(mem.anomalies, "at")), f.limit) \subseteq
        Takes(Descending(MemAnomalies(f), Column(pg.anomalies, "at")), f.limit)
    BY <2>3, AnomalyColumns, NewestFirst
  <2> QED
    BY <2>2, <2>4, AnomaliesSelected
<1>3. M!ListIncidents(mem) \subseteq P!ListIncidents(pg)
  <2>1. DOMAIN pg.incidents = DOMAIN mem.incidents
    BY IncidentColumns DEF ColumnCut
  <2>2. Ascending(DOMAIN mem.incidents, Column(mem.incidents, "opened")) \subseteq
        Ascending(DOMAIN mem.incidents, Column(pg.incidents, "opened"))
    BY IncidentColumns, OldestFirst
  <2> QED
    BY <2>1, <2>2, SameSorts, SameTables DEF M!ListIncidents, P!ListIncidents
<1>4. M!ListIoCs(mem) \subseteq P!ListIoCs(pg)
  <2>1. DOMAIN pg.iocs = DOMAIN mem.iocs
    BY IoCColumns DEF ColumnCut
  <2>2. Ascending(DOMAIN mem.iocs, Column(mem.iocs, "at")) \subseteq
        Ascending(DOMAIN mem.iocs, Column(pg.iocs, "at"))
    BY IoCColumns, OldestFirst
  <2> QED
    BY <2>1, <2>2, SameSorts, SameTables DEF M!ListIoCs, P!ListIoCs
<1>5. ASSUME NEW ref \in Refs
      PROVE  M!ListSBOMsByComponent(mem, ref) \subseteq P!ListSBOMsByComponent(pg, ref)
  <2> DEFINE S == { id \in DOMAIN mem.sboms : mem.sboms[id].ref = ref }
  <2>1. S = { id \in DOMAIN pg.sboms : pg.sboms[id].ref = ref } /\ S \subseteq DOMAIN mem.sboms
    BY SBOMColumns DEF ColumnCut
  <2>2. /\ M!ListSBOMsByComponent(mem, ref) = M!Ascending(S, M!Column(mem.sboms, "at"))
        /\ P!ListSBOMsByComponent(pg, ref) = P!Ascending(S, P!Column(pg.sboms, "at"))
    BY <2>1 DEF M!ListSBOMsByComponent, P!ListSBOMsByComponent
  <2> HIDE DEF S
  <2>3. Ascending(S, Column(mem.sboms, "at")) \subseteq Ascending(S, Column(pg.sboms, "at"))
    BY <2>1, SBOMColumns, OldestFirst
  <2> QED
    BY <2>2, <2>3, SameSorts, SameTables
<1>6. ASSUME NEW ref \in Tracked, NEW limit \in 0 .. 2
      PROVE  M!GetPublisherHistory(mem, ref, limit) \subseteq P!GetPublisherHistory(pg, ref, limit)
  <2> DEFINE rows == P!SnapshotsOf(pg, ref)
  <2>1. P!GetPublisherHistory(pg, ref, limit) = Takes(Descending(DOMAIN rows, Column(rows, "at")), limit)
    BY SameSorts, SameTables DEF P!GetPublisherHistory
  <2>2. CASE ref \in DOMAIN mem.history
    <3> DEFINE h == mem.history[ref]
    <3>1. M!GetPublisherHistory(mem, ref, limit) = Takes(Descending(DOMAIN h, Column(h, "at")), limit)
      BY <2>2, SameSorts, SameTables DEF M!GetPublisherHistory
    <3>2. IsFiniteSet(DOMAIN h) /\ ColumnCut(h, rows, "at")
      BY <2>2, HistoryColumns
    <3> HIDE DEF h, rows
    <3>3. DOMAIN rows = DOMAIN h
      BY <3>2 DEF ColumnCut
    <3>4. Takes(Descending(DOMAIN h, Column(h, "at")), limit) \subseteq
          Takes(Descending(DOMAIN h, Column(rows, "at")), limit)
      BY <3>2, NewestFirst
    <3> QED
      BY <2>1, <3>1, <3>3, <3>4
  <2>3. CASE ref \notin DOMAIN mem.history
    <3>1. M!GetPublisherHistory(mem, ref, limit) = {<<>>}
      BY <2>3 DEF M!GetPublisherHistory
    <3>2. DOMAIN rows = {}
      <4>1. rows = <<>>
        BY <2>3, NoHistory
      <4> QED
        BY <4>1, SMTT(20)
    <3> DEFINE key == [x \in {} |-> -Column(rows, "at")[x]]
    <3>3. Descending({}, Column(rows, "at")) = Ascending({}, key)
      BY DEF Descending
    <3>4. HasKeys({}, key)
      BY FS_EmptySet DEF HasKeys
    <3> HIDE DEF key
    <3>5. PICK q \in Ascending({}, key) : Enumerates(q, {}, key)
      BY <3>4, AscendingExists, AnEnumeration
    <3>6. q = <<>>
      <4>1. q \in [1 .. Cardinality({}) -> {}]
        BY <3>5 DEF Enumerates
      <4>2. Cardinality({}) = 0
        BY FS_EmptySet
      <4> QED
        BY <4>1, <4>2, SMTT(20)
    <3>7. Take(<<>>, limit) = <<>>
      BY SMTT(20) DEF Take
    <3>8. <<>> \in Takes(Ascending({}, key), limit)
      BY <3>6, <3>7 DEF Takes
    <3> QED
      BY <2>1, <3>1, <3>2, <3>3, <3>8
  <2> QED
    BY <2>2, <2>3
<1>7. ASSUME NEW cutoff \in 0 .. now, cutoff % Grain = 0, NEW limit \in 0 .. 2
      PROVE  M!ListPackagesNeedingRefresh(mem, cutoff, limit)
                \subseteq P!ListPackagesNeedingRefresh(pg, cutoff, limit)
  <2> DEFINE S == MemStale(cutoff)
  <2>1. cutoff \in Nat
    BY SMTT(20)
  <2>2. \A ref \in DOMAIN mem.history : M!Latest(mem.history[ref]) \in Nat
    BY LatestIs
  <2>3. \A t \in Nat : t < cutoff <=> P!Micro(t) < P!Micro(cutoff)
    BY <2>1, <1>7, MicroBelow
  <2>4. PgStale(cutoff) = S
    BY <2>2, <2>3 DEF PgStale, MemStale
  <2>5. S \subseteq DOMAIN mem.history /\ IsFiniteSet(S)
    <3>1. S \subseteq DOMAIN mem.history /\ IsFiniteSet(DOMAIN mem.history)
      BY DEF MemStale, IInv, StoresAgree, HistoryAgrees
    <3> QED
      BY <3>1, FS_Subset
  <2> HIDE DEF S
  <2>6. TimesCut(S, LatestOf(S), LatestCut(S))
    BY <2>2, <2>5 DEF TimesCut, LatestOf, LatestCut
  <2>7. Takes(Ascending(S, LatestOf(S)), limit) \subseteq Takes(Ascending(S, LatestCut(S)), limit)
    BY <2>5, <2>6, AscendingCut, TakesMonotone
  <2> QED
    BY <2>4, <2>7, StaleSelected DEF S
<1> QED
  BY <1>1, <1>2, <1>3, <1>4, <1>5, <1>6, <1>7 DEF ListsAgree

(* Every list the memory store returns - incidents and anomalies under a   *)
(* filter without time bounds, IoCs, SBOMs of a component, a package's     *)
(* history and the packages to refresh - Postgres may return as well: the  *)
(* same rows, the same limit, in an order its coarser clock allows.        *)
THEOREM ListsStayInStep == Spec => []ListsAgree
  BY Inductive, ListsInStep, PTL

-----------------------------------------------------------------------------
(* What the reads return: bounds in time.                                   *)

(* The bounds of a filter: a moment below, above, or both. *)
BoundedAt(f, t) == f.from \in {NoTime, t} /\ f.to \in {NoTime, t}

LEMMA BoundsCut ==
    ASSUME NEW f, NEW t \in Nat, BoundedAt(f, t), NEW at \in Nat
    PROVE  /\ InTime(at, f) => InTimeCut(at, f)
           /\ InTimeCut(at, f) /\ ~ InTime(at, f) => P!Micro(at) = P!Micro(t)
<1>1. P!Micro(at) \in Nat /\ P!Micro(t) \in Nat
  BY MicroNat
<1>2. (at <= t => P!Micro(at) <= P!Micro(t)) /\ (t <= at => P!Micro(t) <= P!Micro(at))
  BY MicroMonotone
<1> DEFINE a == P!Micro(at)
           b == P!Micro(t)
<1>3. a \in Nat /\ b \in Nat /\ (at <= t => a <= b) /\ (t <= at => b <= a)
  BY <1>1, <1>2
<1>4. /\ InTime(at, f) <=> (f.from # NoTime => at >= t) /\ (f.to # NoTime => at <= t)
      /\ InTimeCut(at, f) <=> (f.from # NoTime => a >= b) /\ (f.to # NoTime => a <= b)
  BY DEF InTime, InTimeCut, BoundedAt
<1> HIDE DEF a, b
<1>5. /\ InTime(at, f) => InTimeCut(at, f)
      /\ InTimeCut(at, f) /\ ~ InTime(at, f) => a = b
  BY <1>3, <1>4, SMTT(20)
<1> QED
  BY <1>5 DEF a, b

LEMMA MembersNewest ==
    ASSUME NEW t, NEW rows, NEW field, ColumnCut(t, rows, field), IsFiniteSet(DOMAIN t),
           NEW S, S \subseteq DOMAIN t
    PROVE  /\ Members(Takes(Descending(S, Column(t, field)), 0)) = S
           /\ Members(Takes(Descending(S, Column(rows, field)), 0)) = S
<1>1. TimesCut(S, Column(t, field), Column(rows, field)) /\ IsFiniteSet(S)
  BY ColumnTimes, FS_Subset
<1>2. \A x \in S : Column(t, field)[x] \in Nat /\ Column(rows, field)[x] \in Nat
  BY <1>1, MicroNat DEF TimesCut
<1>3. /\ HasKeys(S, [x \in S |-> -Column(t, field)[x]])
      /\ HasKeys(S, [x \in S |-> -Column(rows, field)[x]])
  BY <1>1, <1>2, DescendingKeys
<1> QED
  BY <1>3, MembersAre DEF Descending

LEMMA BoundsInStep == IInv => BoundsDifferByAMicrosecond
<1> SUFFICES ASSUME IInv PROVE BoundsDifferByAMicrosecond
  OBVIOUS
<1>1. now \in Nat
  BY DEF IInv
<1>2. ASSUME NEW t \in 0 .. now, NEW b \in {<<t, NoTime>>, <<NoTime, t>>, <<t, t>>}
      PROVE  /\ WithinAMicrosecond(Members(M!ListIncidentsFiltered(mem, AllIncidents(b[1], b[2]))),
                                   Members(P!ListIncidentsFiltered(pg, AllIncidents(b[1], b[2]))),
                                   Column(mem.incidents, "opened"), t)
             /\ WithinAMicrosecond(Members(M!ListAnomalies(mem, AllAnomalies(b[1], b[2]))),
                                   Members(P!ListAnomalies(pg, AllAnomalies(b[1], b[2]))),
                                   Column(mem.anomalies, "at"), t)
  <2> DEFINE f == AllIncidents(b[1], b[2])
             g == AllAnomalies(b[1], b[2])
  <2>1. t \in Nat
    BY <1>1, SMTT(20)
  <2>2. b[1] \in {NoTime, t} /\ b[2] \in {NoTime, t}
    BY SMTT(20)
  <2>3. /\ f.from = b[1] /\ f.to = b[2] /\ f.limit = 0
        /\ g.from = b[1] /\ g.to = b[2] /\ g.limit = 0
    BY DEF AllIncidents, AllAnomalies
  <2>4. BoundedAt(f, t) /\ BoundedAt(g, t)
    BY <2>2, <2>3 DEF BoundedAt
  <2> HIDE DEF f, g
  <2>5. WithinAMicrosecond(Members(M!ListIncidentsFiltered(mem, f)),
                           Members(P!ListIncidentsFiltered(pg, f)), Column(mem.incidents, "opened"), t)
    <3>1. \A id \in DOMAIN mem.incidents :
            mem.incidents[id]["opened"] \in Nat /\ Column(mem.incidents, "opened")[id] = mem.incidents[id]["opened"]
      BY IncidentColumns DEF ColumnCut, Column
    <3>2. /\ Members(M!ListIncidentsFiltered(mem, f)) = MemIncidents(f)
          /\ Members(P!ListIncidentsFiltered(pg, f)) = PgIncidents(f)
      <4>1. MemIncidents(f) \subseteq DOMAIN mem.incidents /\ PgIncidents(f) \subseteq DOMAIN mem.incidents
        BY DEF MemIncidents, PgIncidents
      <4>2. /\ M!ListIncidentsFiltered(mem, f) = Takes(Descending(MemIncidents(f), Column(mem.incidents, "opened")), 0)
            /\ P!ListIncidentsFiltered(pg, f) = Takes(Descending(PgIncidents(f), Column(pg.incidents, "opened")), 0)
        BY <2>3, IncidentsSelected
      <4>3. ColumnCut(mem.incidents, pg.incidents, "opened") /\ IsFiniteSet(DOMAIN mem.incidents)
        BY IncidentColumns
      <4>4. Members(Takes(Descending(MemIncidents(f), Column(mem.incidents, "opened")), 0)) = MemIncidents(f)
        BY <4>1, <4>3, MembersNewest
      <4>5. Members(Takes(Descending(PgIncidents(f), Column(pg.incidents, "opened")), 0)) = PgIncidents(f)
        BY <4>1, <4>3, MembersNewest
      <4> QED
        BY <4>2, <4>4, <4>5
    <3>3. MemIncidents(f) \subseteq PgIncidents(f)
      BY <2>1, <2>4, <3>1, BoundsCut DEF MemIncidents, PgIncidents
    <3>4. ASSUME NEW id \in PgIncidents(f) \ MemIncidents(f)
          PROVE  P!Micro(Column(mem.incidents, "opened")[id]) = P!Micro(t)
      BY <2>1, <2>4, <3>1, BoundsCut DEF MemIncidents, PgIncidents
    <3> QED
      BY <3>2, <3>3, <3>4 DEF WithinAMicrosecond
  <2>6. WithinAMicrosecond(Members(M!ListAnomalies(mem, g)),
                           Members(P!ListAnomalies(pg, g)), Column(mem.anomalies, "at"), t)
    <3>1. \A id \in DOMAIN mem.anomalies :
            mem.anomalies[id]["at"] \in Nat /\ Column(mem.anomalies, "at")[id] = mem.anomalies[id]["at"]
      BY AnomalyColumns DEF ColumnCut, Column
    <3>2. /\ Members(M!ListAnomalies(mem, g)) = MemAnomalies(g)
          /\ Members(P!ListAnomalies(pg, g)) = PgAnomalies(g)
      <4>1. MemAnomalies(g) \subseteq DOMAIN mem.anomalies /\ PgAnomalies(g) \subseteq DOMAIN mem.anomalies
        BY DEF MemAnomalies, PgAnomalies
      <4>2. /\ M!ListAnomalies(mem, g) = Takes(Descending(MemAnomalies(g), Column(mem.anomalies, "at")), 0)
            /\ P!ListAnomalies(pg, g) = Takes(Descending(PgAnomalies(g), Column(pg.anomalies, "at")), 0)
        BY <2>3, AnomaliesSelected
      <4>3. ColumnCut(mem.anomalies, pg.anomalies, "at") /\ IsFiniteSet(DOMAIN mem.anomalies)
        BY AnomalyColumns
      <4>4. Members(Takes(Descending(MemAnomalies(g), Column(mem.anomalies, "at")), 0)) = MemAnomalies(g)
        BY <4>1, <4>3, MembersNewest
      <4>5. Members(Takes(Descending(PgAnomalies(g), Column(pg.anomalies, "at")), 0)) = PgAnomalies(g)
        BY <4>1, <4>3, MembersNewest
      <4> QED
        BY <4>2, <4>4, <4>5
    <3>3. MemAnomalies(g) \subseteq PgAnomalies(g)
      BY <2>1, <2>4, <3>1, BoundsCut DEF MemAnomalies, PgAnomalies
    <3>4. ASSUME NEW id \in PgAnomalies(g) \ MemAnomalies(g)
          PROVE  P!Micro(Column(mem.anomalies, "at")[id]) = P!Micro(t)
      BY <2>1, <2>4, <3>1, BoundsCut DEF MemAnomalies, PgAnomalies
    <3> QED
      BY <3>2, <3>3, <3>4 DEF WithinAMicrosecond
  <2> QED
    BY <2>5, <2>6 DEF f, g
<1>3. ASSUME NEW cutoff \in 0 .. now
      PROVE  WithinAMicrosecond(Members(P!ListPackagesNeedingRefresh(pg, cutoff, 0)),
                 Members(M!ListPackagesNeedingRefresh(mem, cutoff, 0)),
                 [ref \in DOMAIN mem.history |-> M!Latest(mem.history[ref])], cutoff)
  <2>1. cutoff \in Nat
    BY <1>1, SMTT(20)
  <2>2. \A ref \in DOMAIN mem.history : M!Latest(mem.history[ref]) \in Nat
    BY LatestIs
  <2>3. IsFiniteSet(DOMAIN mem.history)
    BY DEF IInv, StoresAgree, HistoryAgrees
  <2>4. ASSUME NEW S, S \subseteq DOMAIN mem.history
        PROVE  /\ Members(Takes(Ascending(S, LatestOf(S)), 0)) = S
               /\ Members(Takes(Ascending(S, LatestCut(S)), 0)) = S
    <3>1. TimesCut(S, LatestOf(S), LatestCut(S)) /\ IsFiniteSet(S)
      BY <2>2, <2>3, <2>4, FS_Subset DEF TimesCut, LatestOf, LatestCut
    <3>2. HasKeys(S, LatestOf(S)) /\ HasKeys(S, LatestCut(S))
      BY <3>1, AscendingCut
    <3> QED
      BY <3>2, MembersAre
  <2>5. MemStale(cutoff) \subseteq DOMAIN mem.history /\ PgStale(cutoff) \subseteq DOMAIN mem.history
    BY DEF MemStale, PgStale
  <2>6. /\ Members(M!ListPackagesNeedingRefresh(mem, cutoff, 0)) = MemStale(cutoff)
        /\ Members(P!ListPackagesNeedingRefresh(pg, cutoff, 0)) = PgStale(cutoff)
    BY <2>4, <2>5, StaleSelected
  <2>7. PgStale(cutoff) \subseteq MemStale(cutoff)
    BY <2>1, <2>2, MicroBelow DEF PgStale, MemStale
  <2>8. ASSUME NEW ref \in MemStale(cutoff) \ PgStale(cutoff)
        PROVE  P!Micro([r \in DOMAIN mem.history |-> M!Latest(mem.history[r])][ref]) = P!Micro(cutoff)
    BY <2>1, <2>2, MicroBelow DEF PgStale, MemStale
  <2> QED
    BY <2>6, <2>7, <2>8 DEF WithinAMicrosecond
<1> QED
  BY <1>2, <1>3 DEF BoundsDifferByAMicrosecond

(* Under a time bound the two backends list the same incidents, anomalies  *)
(* and packages to refresh, except for those of the bound's own            *)
(* microsecond, which Postgres lists (or, to refresh, leaves out).         *)
THEOREM BoundsDifferOnlyByTheCut == Spec => []BoundsDifferByAMicrosecond
  BY Inductive, BoundsInStep, PTL
=============================================================================
