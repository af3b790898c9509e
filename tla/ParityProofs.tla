---------------------------- MODULE ParityProofs ----------------------------
(***************************************************************************)
(* The two storage backends stay in step after any number of requests, for *)
(* every set of components, lockfiles, IoCs, packages and publishers and   *)
(* every grain of the Postgres clock.                                      *)
(*                                                                         *)
(* The invariant, StoresAgree, relates the tables row by row: a table of   *)
(* Postgres is the memory store's with its times cut to the microsecond,   *)
(* an append-only table read back in the order of its serials is the log   *)
(* the memory store keeps, and the parent row of a publisher is its newest *)
(* copy.                                                                   *)
(***************************************************************************)
EXTENDS TableProofs

(* The steps are about sets, functions and records; the few that need      *)
(* arithmetic say SMT.                                                     *)
USE ZenonT(30)

-----------------------------------------------------------------------------
(* The inductive invariant, and the steps of Next one at a time.            *)

MemTables ==
    {"components", "sboms", "iocs", "incidents", "history", "anomalies", "publishers", "profiles"}

PgTables ==
    {"components", "sboms", "sbom_packages", "iocs", "incidents", "remediations",
     "publisher_history", "anomalies", "anomaly_seq", "publishers", "publisher_profiles"}

(* A store is the record of its tables, and an operation writes some. *)
IsStore(m, T) == m = [f \in T |-> m[f]]

Only(F, T, m, n) == IsStore(n, T) /\ \A f \in T \ F : n[f] = m[f]

Wrote(f, x, T, m, n) == n[f] = x /\ Only({f}, T, m, n)

LEMMA Writes ==
    ASSUME NEW T, NEW m, IsStore(m, T), NEW f \in T, NEW x, NEW n, n = [m EXCEPT ![f] = x]
    PROVE  Wrote(f, x, T, m, n)
<1>1. n = [g \in T |-> IF g = f THEN x ELSE m[g]]
  BY DEF IsStore
<1>2. n[f] = x /\ \A g \in T \ {f} : n[g] = m[g]
  BY <1>1
<1>3. n = [g \in T |-> n[g]]
  BY <1>1
<1> QED
  BY <1>2, <1>3 DEF Only, IsStore, Wrote

WroteTwo(f, x, g, y, T, m, n) == n[f] = x /\ n[g] = y /\ Only({f, g}, T, m, n)

LEMMA WritesTwo ==
    ASSUME NEW T, NEW m, IsStore(m, T), NEW f \in T, NEW g \in T, f # g, NEW x, NEW y,
           NEW n, n = [m EXCEPT ![f] = x, ![g] = y]
    PROVE  WroteTwo(f, x, g, y, T, m, n)
<1>1. n = [h \in T |-> IF h = g THEN y ELSE IF h = f THEN x ELSE m[h]]
  BY DEF IsStore
<1>2. n[f] = x /\ n[g] = y /\ \A h \in T \ {f, g} : n[h] = m[h]
  BY <1>1
<1>3. n = [h \in T |-> n[h]]
  BY <1>1
<1> QED
  BY <1>2, <1>3 DEF Only, IsStore, WroteTwo

IInv ==
    /\ now \in Nat
    /\ IsStore(mem, MemTables) /\ IsStore(pg, PgTables)
    /\ StoresAgree(mem, pg, now)

LEMMA AgreeLater ==
    ASSUME NEW m, NEW p, NEW time \in Nat, StoresAgree(m, p, time), NEW later \in Nat, time <= later
    PROVE  StoresAgree(m, p, later)
<1>1. /\ IncidentsAgree(m.incidents, p.incidents, later)
      /\ HistoryAgrees(m.history, p.publisher_history, later)
      /\ PublishersAgree(m.publishers, m.profiles, p.publishers, p.publisher_profiles, later)
  BY IncidentsLater, HistoryLater, PublishersLater DEF StoresAgree
<1> QED
  BY <1>1 DEF StoresAgree

LEMMA InitAgrees == ASSUME Init PROVE IInv
<1>1. mem = [ components |-> Registered, sboms |-> <<>>, iocs |-> <<>>, incidents |-> <<>>,
              history |-> <<>>, anomalies |-> <<>>, publishers |-> <<>>, profiles |-> <<>> ]
  BY DEF Init, M!New
<1>2. pg = [ components |-> Registered, sboms |-> <<>>, sbom_packages |-> {}, iocs |-> <<>>,
             incidents |-> <<>>, remediations |-> <<>>, publisher_history |-> <<>>,
             anomalies |-> <<>>, anomaly_seq |-> 0, publishers |-> <<>>,
             publisher_profiles |-> <<>> ]
  BY DEF Init, P!Open
<1>3. IsStore(mem, MemTables)
  BY <1>1 DEF IsStore, MemTables
<1>4. IsStore(pg, PgTables)
  BY <1>2 DEF IsStore, PgTables
<1>5. /\ mem.components = Registered /\ mem.sboms = <<>> /\ mem.iocs = <<>> /\ mem.incidents = <<>>
      /\ mem.history = <<>> /\ mem.anomalies = <<>> /\ mem.publishers = <<>> /\ mem.profiles = <<>>
  BY <1>1
<1>6. /\ pg.components = Registered /\ pg.sboms = <<>> /\ pg.sbom_packages = {} /\ pg.iocs = <<>>
      /\ pg.incidents = <<>> /\ pg.remediations = <<>> /\ pg.publisher_history = <<>>
      /\ pg.anomalies = <<>> /\ pg.anomaly_seq = 0 /\ pg.publishers = <<>>
      /\ pg.publisher_profiles = <<>>
  BY <1>2
<1>7. now \in Nat
  BY DEF Init
<1>8. DOMAIN <<>> = {} /\ IsFiniteSet({})
  BY FS_EmptySet, SMTT(20)
<1>9. SBOMsAgree(<<>>, <<>>, {})
  BY <1>8, SMTT(20) DEF SBOMsAgree
<1>10. IoCsAgree(<<>>, <<>>)
  BY <1>8, SMTT(20) DEF IoCsAgree
<1>11. IncidentsAgree(<<>>, <<>>, now)
  BY <1>8, SMTT(20) DEF IncidentsAgree
<1>12. LogsAgree(<<>>, <<>>)
  <2>1. <<>> \in Seq(LogRows(<<>>))
    <3> HIDE DEF LogRows
    <3> QED
      BY SMTT(20)
  <2> QED
    BY <2>1, <1>8 DEF LogsAgree
<1>13. HistoryAgrees(<<>>, <<>>, now)
  <2> DEFINE R == HistoryRows(<<>>)
  <2>1. <<>> \in Seq(R)
    <3> HIDE DEF R
    <3> QED
      BY SMTT(20)
  <2> QED
    BY <2>1, <1>8 DEF HistoryAgrees, HistoryRows
<1>14. AnomaliesAgree(<<>>, <<>>, 0)
  BY SMTT(20) DEF AnomaliesAgree
<1>15. PublishersAgree(<<>>, <<>>, <<>>, <<>>, now)
  <2>1. <<>> = [name \in {} |-> P!ProfileRow(<<>>[name])]
    BY SMTT(20)
  <2> QED
    BY <2>1, <1>8 DEF PublishersAgree
<1>16. Covered(<<>>, <<>>, <<>>)
  BY <1>8 DEF Covered
<1> QED
  BY <1>3, <1>4, <1>5, <1>6, <1>7, <1>9, <1>10, <1>11, <1>12, <1>13, <1>14, <1>15, <1>16
     DEF IInv, StoresAgree

LEMMA Clock ==
    ASSUME IInv, NEW kind, NEW ticks \in {0, 1}, Request(kind, ticks)
    PROVE  now' = now + ticks /\ now' \in Nat /\ StoresAgree(mem, pg, now')
<1>1. now \in Nat /\ now' = now + ticks
  BY DEF IInv, Request
<1>2. now' \in Nat /\ now <= now'
  BY <1>1, SMTT(20)
<1> QED
  BY <1>1, <1>2, AgreeLater DEF IInv

LEMMA ComponentStep ==
    ASSUME IInv, NEW ref, NEW owner, UpsertComponent(ref, owner)
    PROVE  IInv'
<1>1. now' \in Nat /\ StoresAgree(mem, pg, now')
  BY Clock DEF UpsertComponent
<1>2. /\ "components" \in MemTables /\ "components" \in PgTables
      /\ mem' = [mem EXCEPT !["components"] = Put(mem.components, ref, owner)]
      /\ pg' = [pg EXCEPT !["components"] = Put(pg.components, ref, owner)]
  BY SameTables DEF UpsertComponent, M!UpsertComponent, P!UpsertComponent, MemTables, PgTables
<1>3. IsStore(mem, MemTables) /\ IsStore(pg, PgTables)
  BY DEF IInv
<1>4. Wrote("components", Put(mem.components, ref, owner), MemTables, mem, mem')
  BY <1>2, <1>3, Writes
<1>5. Wrote("components", Put(pg.components, ref, owner), PgTables, pg, pg')
  BY <1>2, <1>3, Writes
<1>6. mem'.components = pg'.components
  BY <1>1, <1>4, <1>5 DEF StoresAgree, Wrote
<1>7. StoresAgree(mem', pg', now')
  BY <1>1, <1>4, <1>5, <1>6 DEF StoresAgree, Only, MemTables, PgTables, Wrote
<1> QED
  BY <1>1, <1>4, <1>5, <1>7 DEF IInv, Only, Wrote

LEMMA SnapshotStep ==
    ASSUME IInv, NEW ref \in Tracked, SaveSnapshot(ref)
    PROVE  IInv'
<1> DEFINE snap == [ref |-> ref, at |-> now]
           row == [ref |-> ref, at |-> P!Micro(now)]
           log == IF ref \in DOMAIN mem.history THEN Append(mem.history[ref], snap) ELSE <<snap>>
<1>1. now' = now + 1 /\ now' \in Nat /\ StoresAgree(mem, pg, now') /\ now \in Nat
  BY Clock DEF SaveSnapshot, IInv
<1>2. /\ "history" \in MemTables /\ "publisher_history" \in PgTables
      /\ mem' = [mem EXCEPT !["history"] = Put(mem.history, ref, log)]
      /\ pg' = [pg EXCEPT !["publisher_history"] = Append(pg.publisher_history, row)]
  BY SameTables DEF SaveSnapshot, M!SavePublisherSnapshot, P!SavePublisherSnapshot, MemTables, PgTables
<1>3. IsStore(mem, MemTables) /\ IsStore(pg, PgTables) /\ HistoryAgrees(mem.history, pg.publisher_history, now)
  BY DEF IInv, StoresAgree
<1>4. HistoryAgrees(Put(mem.history, ref, log), Append(pg.publisher_history, row), now + 1)
  BY <1>1, <1>3, SaveKeepsHistory
<1> HIDE DEF snap, row, log
<1>5. Wrote("history", Put(mem.history, ref, log), MemTables, mem, mem')
  BY <1>2, <1>3, Writes
<1>6. Wrote("publisher_history", Append(pg.publisher_history, row), PgTables, pg, pg')
  BY <1>2, <1>3, Writes
<1>7. HistoryAgrees(mem'.history, pg'.publisher_history, now')
  BY <1>1, <1>4, <1>5, <1>6 DEF Wrote
<1>8. StoresAgree(mem', pg', now')
  BY <1>1, <1>5, <1>6, <1>7 DEF StoresAgree, Only, MemTables, PgTables, Wrote
<1> QED
  BY <1>1, <1>5, <1>6, <1>8 DEF IInv, Only, Wrote

LEMMA SameCardinality ==
    \A S : M!Cardinality(S) = Cardinality(S) /\ P!Cardinality(S) = Cardinality(S)
  BY DEF M!Cardinality, P!Cardinality, Cardinality

LEMMA AnomalyStep ==
    ASSUME IInv, NEW kind \in Kinds, NEW ref \in Tracked, NEW ticks \in {0, 1},
           SaveAnomaly(kind, ref, ticks)
    PROVE  IInv'
<1> DEFINE a == [kind |-> kind, ref |-> ref, at |-> now]
           row == [a EXCEPT !.at = P!Micro(@)]
           n == pg.anomaly_seq
<1>1. now' \in Nat /\ StoresAgree(mem, pg, now') /\ now \in Nat
  BY Clock DEF SaveAnomaly, IInv
<1>2. IsStore(mem, MemTables) /\ IsStore(pg, PgTables) /\ AnomaliesAgree(mem.anomalies, pg.anomalies, n)
  BY DEF IInv, StoresAgree
<1>3. a \in Anomalies /\ a.at = now /\ a.kind = kind /\ a.ref = ref
  BY <1>1 DEF Anomalies
<1>4. mem' = M!SaveAnomaly(mem, a) /\ pg' = P!SaveAnomaly(pg, a)
  BY DEF SaveAnomaly
<1> HIDE DEF a
<1>5. \A id \in DOMAIN mem.anomalies :
        mem.anomalies[id].kind = a.kind /\ mem.anomalies[id].ref = a.ref => mem.anomalies[id].at + Grain <= now
  BY <1>3 DEF SaveAnomaly
<1>6. /\ a \notin { mem.anomalies[id] : id \in DOMAIN mem.anomalies }
      /\ row \notin { pg.anomalies[id] : id \in DOMAIN pg.anomalies }
      /\ Cardinality(DOMAIN mem.anomalies) = n
      /\ AnomaliesAgree(Put(mem.anomalies, n + 1, a), Put(pg.anomalies, n + 1, row), n + 1)
  BY <1>1, <1>2, <1>3, <1>5, AddAnomaly
<1>7. /\ "anomalies" \in MemTables /\ "anomalies" \in PgTables /\ "anomaly_seq" \in PgTables
      /\ "anomaly_seq" # "anomalies"
  BY DEF MemTables, PgTables
<1>8. mem' = [mem EXCEPT !["anomalies"] = Put(mem.anomalies, n + 1, a)]
  <2>1. mem' = [mem EXCEPT !.anomalies = M!Put(mem.anomalies, Cardinality(DOMAIN mem.anomalies) + 1, a)]
    BY <1>4, <1>6, SameCardinality DEF M!SaveAnomaly
  <2>2. M!Put(mem.anomalies, Cardinality(DOMAIN mem.anomalies) + 1, a) = Put(mem.anomalies, n + 1, a)
    BY <1>6, SameTables
  <2> QED
    BY <2>1, <2>2
<1> HIDE DEF row
<1>9. pg' = [pg EXCEPT !["anomaly_seq"] = n + 1, !["anomalies"] = Put(pg.anomalies, n + 1, row)]
  BY <1>4, <1>6, SameTables DEF P!SaveAnomaly, row
<1> HIDE DEF n
<1>10. Wrote("anomalies", Put(mem.anomalies, n + 1, a), MemTables, mem, mem')
  BY <1>2, <1>7, <1>8, Writes
<1>11. WroteTwo("anomaly_seq", n + 1, "anomalies", Put(pg.anomalies, n + 1, row), PgTables, pg, pg')
  BY <1>2, <1>7, <1>9, WritesTwo
<1>12. AnomaliesAgree(mem'.anomalies, pg'.anomalies, pg'.anomaly_seq)
  BY <1>6, <1>10, <1>11 DEF Wrote, WroteTwo
<1>13. StoresAgree(mem', pg', now')
  BY <1>1, <1>10, <1>11, <1>12 DEF StoresAgree, Only, MemTables, PgTables, Wrote, WroteTwo
<1> QED
  BY <1>1, <1>10, <1>11, <1>13 DEF IInv, Only, Wrote, WroteTwo

LEMMA PublisherStep ==
    ASSUME IInv, NEW name, UpsertPublisher(name)
    PROVE  IInv'
<1> DEFINE x == Put(mem.publishers, name, [seen |-> now])
           y == Put(pg.publishers, name, [seen |-> P!Micro(now)])
<1>1. now' = now + 1 /\ now' \in Nat /\ StoresAgree(mem, pg, now') /\ now \in Nat
  BY Clock DEF UpsertPublisher, IInv
<1>2. /\ "publishers" \in MemTables /\ "publishers" \in PgTables
      /\ mem' = [mem EXCEPT !["publishers"] = x]
      /\ pg' = [pg EXCEPT !["publishers"] = y]
  BY SameTables DEF UpsertPublisher, M!UpsertPublisher, P!UpsertPublisher, MemTables, PgTables
<1>3. /\ IsStore(mem, MemTables) /\ IsStore(pg, PgTables)
      /\ PublishersAgree(mem.publishers, mem.profiles, pg.publishers, pg.publisher_profiles, now)
  BY DEF IInv, StoresAgree
<1>4. PublishersAgree(x, mem.profiles, y, pg.publisher_profiles, now + 1)
  BY <1>1, <1>3, PutPublisher
<1> HIDE DEF x, y
<1>5. Wrote("publishers", x, MemTables, mem, mem') /\ Wrote("publishers", y, PgTables, pg, pg')
  BY <1>2, <1>3, Writes
<1>6. PublishersAgree(mem'.publishers, mem'.profiles, pg'.publishers, pg'.publisher_profiles, now')
  BY <1>1, <1>4, <1>5 DEF Wrote, Only, MemTables, PgTables
<1>7. StoresAgree(mem', pg', now')
  BY <1>1, <1>5, <1>6 DEF StoresAgree, Only, MemTables, PgTables, Wrote
<1> QED
  BY <1>1, <1>5, <1>7 DEF IInv, Only, Wrote

LEMMA ProfileStep ==
    ASSUME IInv, NEW name, NEW changed \in {NoTime, now}, UpsertPublisherProfile(name, changed)
    PROVE  IInv'
<1> DEFINE profile == [seen |-> now, count |-> now, changed |-> changed]
           q == P!UpsertPublisher(pg, name, profile.seen)
           x == Put(mem.profiles, name, profile)
           y == Put(pg.publishers, name, [seen |-> P!Micro(now)])
           z == Put(pg.publisher_profiles, name, P!ProfileRow(profile))
<1>1. now' = now + 1 /\ now' \in Nat /\ StoresAgree(mem, pg, now') /\ now \in Nat
  BY Clock DEF UpsertPublisherProfile, IInv
<1>2. /\ "profiles" \in MemTables /\ "publishers" \in PgTables /\ "publisher_profiles" \in PgTables
      /\ mem' = [mem EXCEPT !["profiles"] = x]
      /\ q = [pg EXCEPT !["publishers"] = y]
      /\ pg' = [q EXCEPT !["publisher_profiles"] = Put(q.publisher_profiles, name, P!ProfileRow(profile))]
  BY SameTables DEF UpsertPublisherProfile, M!UpsertPublisherProfile, P!UpsertPublisherProfile,
     P!UpsertPublisher, MemTables, PgTables
<1>3. /\ IsStore(mem, MemTables) /\ IsStore(pg, PgTables)
      /\ PublishersAgree(mem.publishers, mem.profiles, pg.publishers, pg.publisher_profiles, now)
  BY DEF IInv, StoresAgree
<1>4. profile \in Profiles /\ profile.seen = now
  BY <1>1 DEF Profiles
<1> HIDE DEF profile
<1>5. PublishersAgree(mem.publishers, x, y, z, now + 1)
  BY <1>1, <1>3, <1>4, PutProfile
<1> HIDE DEF x, y, q
<1>6. Wrote("profiles", x, MemTables, mem, mem') /\ Wrote("publishers", y, PgTables, pg, q)
  BY <1>2, <1>3, Writes
<1>7. IsStore(q, PgTables) /\ q.publisher_profiles = pg.publisher_profiles
  BY <1>6 DEF Wrote, Only, PgTables
<1> HIDE DEF z
<1>8. Wrote("publisher_profiles", z, PgTables, q, pg')
  BY <1>2, <1>7, Writes DEF z
<1>9. PublishersAgree(mem'.publishers, mem'.profiles, pg'.publishers, pg'.publisher_profiles, now')
  BY <1>1, <1>5, <1>6, <1>8 DEF Wrote, Only, MemTables, PgTables
<1>10. StoresAgree(mem', pg', now')
  BY <1>1, <1>6, <1>8, <1>9 DEF StoresAgree, Only, MemTables, PgTables, Wrote
<1> QED
  BY <1>1, <1>6, <1>8, <1>10 DEF IInv, Only, Wrote

LEMMA RowTwice ==
    ASSUME NEW x \in IncidentRecords
    PROVE  /\ P!Micro(P!Micro(x.opened)) = P!Micro(x.opened)
           /\ P!Micro(P!Micro(x.moved)) = P!Micro(x.moved)
<1>1. x.opened \in Nat /\ x.moved \in Nat
  BY DEF IncidentRecords
<1> QED
  BY <1>1, MicroTwice

LEMMA TransitionStep ==
    ASSUME IInv, NEW id \in DOMAIN mem.incidents, NEW to \in {"triaged", "dismissed"},
           TransitionIncident(id, to)
    PROVE  IInv'
<1> DEFINE inc == mem.incidents[id]
           row == pg.incidents[id]
           got == P!GetIncident(pg, id)
           x == Moved(inc, to)
<1>1. now' = now + 1 /\ now' \in Nat /\ StoresAgree(mem, pg, now') /\ now \in Nat
  BY Clock DEF TransitionIncident, IInv
<1>2. /\ "incidents" \in MemTables /\ "incidents" \in PgTables
      /\ mem' = [mem EXCEPT !["incidents"] = Put(mem.incidents, id, x)]
      /\ pg' = [pg EXCEPT !["incidents"] = Put(pg.incidents, id, P!IncidentRow(Moved(got, to)))]
  <2> HIDE DEF got
  <2> QED
    BY SameTables DEF TransitionIncident, M!UpsertIncident, P!UpsertIncident, M!GetIncident, MemTables, PgTables, got
<1>3. /\ IsStore(mem, MemTables) /\ IsStore(pg, PgTables)
      /\ IncidentsAgree(mem.incidents, pg.incidents, now') /\ LogsAgree(mem.incidents, pg.remediations)
      /\ Covered(mem.iocs, mem.sboms, mem.incidents)
  BY <1>1 DEF IInv, StoresAgree
<1>4. inc \in IncidentRecords /\ row = P!IncidentRow(inc)
  BY <1>3 DEF IncidentsAgree
<1> HIDE DEF inc, row
<1>5. /\ x \in IncidentRecords /\ x.remediations = inc.remediations /\ x.ioc = inc.ioc /\ x.refs = inc.refs
      /\ x = [inc EXCEPT !.state = x.state, !.moved = x.moved]
  <2> DEFINE L == Seq(Remediations)
  <2> HIDE DEF L
  <2>1. inc \in [ioc : IoCs, state : States, opened : Nat, moved : Nat, refs : SUBSET Refs, remediations : L]
    BY <1>4 DEF IncidentRecords, L
  <2>2. /\ x \in [ioc : IoCs, state : States, opened : Nat, moved : Nat, refs : SUBSET Refs, remediations : L]
        /\ x.remediations = inc.remediations /\ x.ioc = inc.ioc /\ x.refs = inc.refs
        /\ x = [inc EXCEPT !.state = x.state, !.moved = x.moved]
    BY <2>1, <1>1 DEF Moved, States
  <2> QED
    BY <2>2 DEF IncidentRecords, L
<1>6. P!IncidentRow(Moved(got, to)) = P!IncidentRow(x)
  <2>1. /\ row.ioc = inc.ioc /\ row.state = inc.state /\ row.refs = inc.refs
        /\ row.opened = P!Micro(inc.opened) /\ row.moved = P!Micro(inc.moved)
    BY <1>4 DEF P!IncidentRow
  <2> DEFINE log == P!listRemediationsTx(pg, id)
  <2>2. got = [ioc |-> inc.ioc, state |-> inc.state, opened |-> P!Micro(inc.opened),
               moved |-> P!Micro(inc.moved), refs |-> inc.refs, remediations |-> log]
    BY <2>1 DEF P!GetIncident, row
  <2> HIDE DEF got, log
  <2>3. /\ Moved(got, to).ioc = x.ioc /\ Moved(got, to).state = x.state /\ Moved(got, to).refs = x.refs
        /\ Moved(got, to).opened = P!Micro(x.opened)
        /\ Moved(got, to).moved \in {P!Micro(x.moved), x.moved}
    <3>1. inc = [ioc |-> inc.ioc, state |-> inc.state, opened |-> inc.opened,
                 moved |-> inc.moved, refs |-> inc.refs, remediations |-> inc.remediations]
      BY <1>4 DEF IncidentRecords
    <3> QED
      BY <2>2, <3>1 DEF Moved
  <2>4. /\ P!Micro(Moved(got, to).opened) = P!Micro(x.opened)
        /\ P!Micro(Moved(got, to).moved) = P!Micro(x.moved)
    BY <2>3, <1>5, RowTwice
  <2> QED
    BY <2>3, <2>4 DEF P!IncidentRow
<1> HIDE DEF x, got
<1>7. /\ IncidentsAgree(Put(mem.incidents, id, x), Put(pg.incidents, id, P!IncidentRow(x)), now')
      /\ LogsAgree(Put(mem.incidents, id, x), pg.remediations)
      /\ Covered(mem.iocs, mem.sboms, Put(mem.incidents, id, x))
  BY <1>3, <1>5, PutIncident, PutKeepsLogs, CoveredMoved, CoveredMore DEF inc
<1>8. /\ Wrote("incidents", Put(mem.incidents, id, x), MemTables, mem, mem')
      /\ Wrote("incidents", Put(pg.incidents, id, P!IncidentRow(x)), PgTables, pg, pg')
  BY <1>2, <1>3, <1>6, Writes
<1>9. /\ IncidentsAgree(mem'.incidents, pg'.incidents, now') /\ LogsAgree(mem'.incidents, pg'.remediations)
      /\ Covered(mem'.iocs, mem'.sboms, mem'.incidents)
  BY <1>7, <1>8 DEF Wrote, Only, MemTables, PgTables
<1>10. StoresAgree(mem', pg', now')
  BY <1>1, <1>8, <1>9 DEF StoresAgree, Only, MemTables, PgTables, Wrote
<1> QED
  BY <1>1, <1>8, <1>10 DEF IInv, Only, Wrote

LEMMA RemediationStep ==
    ASSUME IInv, NEW id \in DOMAIN mem.incidents, NEW at \in {0, now}, AddRemediation(id, at)
    PROVE  IInv'
<1> DEFINE inc == mem.incidents[id]
           rem == [id |-> now, at |-> at]
           x == [inc EXCEPT !.remediations = Append(@, rem)]
           row == [id |-> rem.id, incident |-> id, at |-> P!Micro(rem.at)]
           t == Put(mem.incidents, id, x)
<1>1. now' = now + 1 /\ now' \in Nat /\ StoresAgree(mem, pg, now') /\ now \in Nat
  BY Clock DEF AddRemediation, IInv
<1>2. /\ IsStore(mem, MemTables) /\ IsStore(pg, PgTables)
      /\ IncidentsAgree(mem.incidents, pg.incidents, now') /\ LogsAgree(mem.incidents, pg.remediations)
      /\ Covered(mem.iocs, mem.sboms, mem.incidents)
  BY <1>1 DEF IInv, StoresAgree
<1>3. inc \in IncidentRecords /\ pg.incidents = [j \in DOMAIN mem.incidents |-> P!IncidentRow(mem.incidents[j])]
  BY <1>2 DEF IncidentsAgree
<1>4. rem \in Remediations
  BY <1>1, SMTT(20) DEF Remediations
<1> HIDE DEF rem
<1>5. /\ "incidents" \in MemTables /\ "remediations" \in PgTables
      /\ pg' = [pg EXCEPT !["remediations"] = Append(pg.remediations, row)]
  BY DEF AddRemediation, P!AppendRemediation, MemTables, PgTables, rem
<1>6. mem' = [mem EXCEPT !["incidents"] = t]
  <2>1. mem' = [mem EXCEPT !.incidents[id].remediations = Append(@, rem)]
    BY DEF AddRemediation, M!AppendRemediation, rem
  <2>2. mem' = [mem EXCEPT !["incidents"] = [mem.incidents EXCEPT ![id] = x]]
    BY <2>1
  <2>3. [mem.incidents EXCEPT ![id] = x] = t
    <3> HIDE DEF x
    <3> QED
      BY DEF Put
  <2> QED
    BY <2>2, <2>3
<1> HIDE DEF inc
<1>7. /\ x \in IncidentRecords /\ x.remediations = Append(inc.remediations, rem)
      /\ x.ioc = inc.ioc /\ x.refs = inc.refs /\ P!IncidentRow(x) = P!IncidentRow(inc)
  <2> DEFINE L == Seq(Remediations)
             log == Append(inc.remediations, rem)
  <2>1. inc.remediations \in L
    BY <1>3 DEF IncidentRecords
  <2>2. log \in L
    <3> HIDE DEF Remediations
    <3> QED
      BY <2>1, <1>4, SMTT(20)
  <2> HIDE DEF L, log
  <2>3. inc \in [ioc : IoCs, state : States, opened : Nat, moved : Nat, refs : SUBSET Refs, remediations : L]
    BY <1>3 DEF IncidentRecords, L
  <2>4. /\ x = [inc EXCEPT !.remediations = log]
        /\ x \in [ioc : IoCs, state : States, opened : Nat, moved : Nat, refs : SUBSET Refs, remediations : L]
        /\ x.remediations = log /\ x.ioc = inc.ioc /\ x.refs = inc.refs /\ P!IncidentRow(x) = P!IncidentRow(inc)
    BY <2>2, <2>3 DEF log, P!IncidentRow
  <2> QED
    BY <2>4 DEF IncidentRecords, L, log
<1> HIDE DEF x, row
<1>8. IncidentsAgree(t, Put(pg.incidents, id, P!IncidentRow(x)), now')
  BY <1>2, <1>7, PutIncident
<1>9. Put(pg.incidents, id, P!IncidentRow(x)) = pg.incidents
  BY <1>3, <1>7 DEF Put, inc
<1>10. LogsAgree(t, Append(pg.remediations, row)) /\ Covered(mem.iocs, mem.sboms, t)
  BY <1>2, <1>3, <1>4, <1>7, AppendKeepsLogs, CoveredMoved, CoveredMore DEF inc, row
<1> HIDE DEF t
<1>11. /\ Wrote("incidents", t, MemTables, mem, mem')
       /\ Wrote("remediations", Append(pg.remediations, row), PgTables, pg, pg')
  BY <1>2, <1>5, <1>6, Writes
<1>12. /\ IncidentsAgree(mem'.incidents, pg'.incidents, now') /\ LogsAgree(mem'.incidents, pg'.remediations)
       /\ Covered(mem'.iocs, mem'.sboms, mem'.incidents)
  BY <1>8, <1>9, <1>10, <1>11 DEF Wrote, Only, MemTables, PgTables
<1>13. StoresAgree(mem', pg', now')
  BY <1>1, <1>11, <1>12 DEF StoresAgree, Only, MemTables, PgTables, Wrote
<1> QED
  BY <1>1, <1>11, <1>13 DEF IInv, Only, Wrote

-----------------------------------------------------------------------------
(* Matching reads the same packages on both backends.                       *)

LEMMA SameRange == \A f : M!Range(f) = Range(f) /\ P!Range(f) = Range(f)
  BY DEF M!Range, P!Range, Range

Carries(s, eco, name) == s.eco = eco /\ name \in Range(s.packages)

RefsWith(sboms, eco, name) ==
    { sboms[id].ref : id \in { i \in DOMAIN sboms : Carries(sboms[i], eco, name) } }

LEMMA FiresCarries == \A ioc, s : Fires(ioc, s) <=> Carries(s, ioc.eco, ioc.name)
  BY DEF Fires, Carries

LEMMA RefsFinite ==
    ASSUME NEW sboms, IsFiniteSet(DOMAIN sboms), NEW eco, NEW name
    PROVE  IsFiniteSet(RefsWith(sboms, eco, name))
<1> DEFINE S == { i \in DOMAIN sboms : Carries(sboms[i], eco, name) }
           f == [i \in S |-> sboms[i].ref]
<1>1. IsFiniteSet(S)
  <2>1. S \subseteq DOMAIN sboms
    OBVIOUS
  <2> QED
    BY <2>1, FS_Subset
<1>2. RefsWith(sboms, eco, name) = { f[i] : i \in S }
  <2> HIDE DEF S
  <2>1. { f[i] : i \in S } = { sboms[i].ref : i \in S }
    OBVIOUS
  <2> QED
    BY <2>1 DEF RefsWith, S
<1> HIDE DEF S, f
<1>3. IsFiniteSet({ f[i] : i \in S })
  BY <1>1, FiniteImage
<1> QED
  BY <1>2, <1>3

LEMMA PackagesOf ==
    ASSUME NEW m, NEW p, SBOMsAgree(m.sboms, p.sboms, p.sbom_packages), NEW eco, NEW name
    PROVE  /\ M!ListSBOMPackages(m, eco, name) = RefsWith(m.sboms, eco, name)
           /\ P!ListSBOMPackages(p, eco, name) = RefsWith(m.sboms, eco, name)
<1> DEFINE sboms == m.sboms
           rows == p.sboms
           packages == p.sbom_packages
<1>1. M!ListSBOMPackages(m, eco, name) = RefsWith(sboms, eco, name)
  BY SameRange DEF M!ListSBOMPackages, RefsWith, Carries
<1>2. P!ListSBOMPackages(p, eco, name) =
        { rows[q.sbom].ref : q \in { r \in packages : r.eco = eco /\ r.name = name } }
  BY DEF P!ListSBOMPackages
<1>3. /\ packages = UNION { PackageRows(id, sboms[id]) : id \in DOMAIN sboms }
      /\ \A id \in DOMAIN sboms : rows[id] = SBOMRow(sboms[id])
  BY DEF SBOMsAgree
<1> HIDE DEF sboms, rows, packages
<1>4. \A q : q \in packages <=> \E id \in DOMAIN sboms : q \in PackageRows(id, sboms[id])
  BY <1>3
<1>5. \A id \in DOMAIN sboms : rows[id].ref = sboms[id].ref
  <2>1. \A s : SBOMRow(s).ref = s.ref
    BY DEF SBOMRow
  <2> QED
    BY <2>1, <1>3
<1> DEFINE Q == { rows[q.sbom].ref : q \in { r \in packages : r.eco = eco /\ r.name = name } }
<1>6. ASSUME NEW r \in RefsWith(sboms, eco, name) PROVE r \in Q
  <2>1. PICK id \in DOMAIN sboms : Carries(sboms[id], eco, name) /\ r = sboms[id].ref
    BY DEF RefsWith
  <2>2. PICK i \in DOMAIN sboms[id].packages : name = sboms[id].packages[i]
    BY <2>1 DEF Carries, Range
  <2> DEFINE q == [sbom |-> id, position |-> i, eco |-> sboms[id].eco, name |-> sboms[id].packages[i]]
  <2>3. q \in PackageRows(id, sboms[id])
    BY DEF PackageRows
  <2>4. q.sbom = id /\ q.eco = sboms[id].eco /\ q.name = sboms[id].packages[i]
    OBVIOUS
  <2> HIDE DEF q
  <2>5. q \in packages /\ q.eco = eco /\ q.name = name /\ r = rows[q.sbom].ref
    BY <2>1, <2>2, <2>3, <2>4, <1>4, <1>5 DEF Carries
  <2> QED
    BY <2>5
<1>7. ASSUME NEW r \in Q PROVE r \in RefsWith(sboms, eco, name)
  <2>1. PICK q \in packages : q.eco = eco /\ q.name = name /\ r = rows[q.sbom].ref
    BY <1>7
  <2>2. PICK id \in DOMAIN sboms : q \in PackageRows(id, sboms[id])
    BY <1>4
  <2> DEFINE s == sboms[id]
  <2> HIDE DEF s
  <2>3. q.sbom = id /\ q.eco = s.eco /\ \E i \in DOMAIN s.packages : q.name = s.packages[i]
    <3>1. q \in PackageRows(id, s)
      BY <2>2 DEF s
    <3> QED
      BY <3>1, SMTT(20) DEF PackageRows
  <2>4. Carries(s, eco, name)
    BY <2>1, <2>3 DEF Carries, Range
  <2>5. r = s.ref
    BY <2>1, <2>3, <1>5 DEF s
  <2> QED
    BY <2>4, <2>5 DEF RefsWith, s
<1>8. Q = RefsWith(sboms, eco, name)
  <2> HIDE DEF Q
  <2> QED
    BY <1>6, <1>7
<1> QED
  BY <1>1, <1>2, <1>8 DEF sboms

LEMMA SameRetroactive ==
    ASSUME NEW iocs, NEW rows, IoCsAgree(iocs, rows), NEW s \in SBOMs
    PROVE  /\ RetroactivePairs(rows, s) = RetroactivePairs(iocs, s)
           /\ ArePairs(RetroactivePairs(iocs, s))
<1>1. \A x \in IoCRecords : [x EXCEPT !.at = P!Micro(@)].eco = x.eco /\ [x EXCEPT !.at = P!Micro(@)].name = x.name
  BY DEF IoCRecords
<1>2. DOMAIN rows = DOMAIN iocs /\ \A i \in DOMAIN iocs : rows[i].eco = iocs[i].eco /\ rows[i].name = iocs[i].name
  BY <1>1 DEF IoCsAgree
<1>3. RetroactivePairs(rows, s) = RetroactivePairs(iocs, s)
  BY <1>2 DEF RetroactivePairs, Fires
<1> DEFINE S == { i \in DOMAIN iocs : Fires(iocs[i], s) }
           f == [i \in S |-> [ioc |-> i, ref |-> s.ref]]
<1>4. IsFiniteSet(S)
  <2>1. S \subseteq DOMAIN iocs
    OBVIOUS
  <2> QED
    BY <2>1, FS_Subset DEF IoCsAgree
<1>5. RetroactivePairs(iocs, s) = { f[i] : i \in S }
  <2> HIDE DEF S
  <2>1. { f[i] : i \in S } = { [ioc |-> i, ref |-> s.ref] : i \in S }
    OBVIOUS
  <2> QED
    BY <2>1 DEF RetroactivePairs, S
<1>6. IsFiniteSet(RetroactivePairs(iocs, s))
  <2> HIDE DEF S, f
  <2>1. IsFiniteSet({ f[i] : i \in S })
    BY <1>4, FiniteImage
  <2> QED
    BY <2>1, <1>5
<1>7. s.ref \in Refs
  BY Fields
<1>8. \A p \in RetroactivePairs(iocs, s) : p.ioc \in DOMAIN iocs /\ p.ref = s.ref
  BY SMTT(20) DEF RetroactivePairs
<1>9. ArePairs(RetroactivePairs(iocs, s))
  BY <1>6, <1>7, <1>8 DEF ArePairs, IoCsAgree
<1> QED
  BY <1>3, <1>9

(* The incidents of the pairs that have none, opened on both backends. *)
LEMMA OpenBoth ==
    ASSUME now \in Nat, NEW m, NEW p, IsStore(m, MemTables), IsStore(p, PgTables),
           IncidentsAgree(m.incidents, p.incidents, now), LogsAgree(m.incidents, p.remediations),
           NEW pairs, ArePairs(pairs),
           NEW n, n = OpenInMemory(m, pairs), NEW q, q = OpenInPostgres(p, pairs)
    PROVE  /\ Only({"incidents"}, MemTables, m, n) /\ Only({"incidents"}, PgTables, p, q)
           /\ IncidentsAgree(n.incidents, q.incidents, now + 1)
           /\ LogsAgree(n.incidents, q.remediations)
           /\ HoldsAll(n.incidents, pairs) /\ HoldsMore(m.incidents, n.incidents)
<1> DEFINE new == NewIncidents(Unopened(m.incidents, pairs))
           x == Merge(m.incidents, new)
           y == Merge(p.incidents, [id \in DOMAIN new |-> P!IncidentRow(new[id])])
<1>1. /\ Unopened(p.incidents, pairs) = Unopened(m.incidents, pairs)
      /\ IncidentsAgree(x, y, now + 1) /\ LogsAgree(x, p.remediations)
      /\ HoldsAll(x, pairs) /\ HoldsMore(m.incidents, x)
  <2>1. new = NewIncidents(Unopened(m.incidents, pairs))
    OBVIOUS
  <2> HIDE DEF new
  <2>2. Opens(m.incidents, p.incidents, p.remediations, pairs, new)
    BY <2>1, OpenPairs
  <2> QED
    BY <2>2 DEF Opens
<1> HIDE DEF new
<1>2. NewIncidents(Unopened(p.incidents, pairs)) = new
  BY <1>1 DEF new
<1>3. n = M!UpsertIncidents(m, new) /\ q = P!UpsertIncidents(p, new)
  BY <1>2 DEF OpenInMemory, OpenInPostgres, new
<1>4. /\ "incidents" \in MemTables /\ "incidents" \in PgTables
      /\ n = [m EXCEPT !["incidents"] = x]
      /\ q = [p EXCEPT !["incidents"] = y]
  BY <1>3, SameTables DEF M!UpsertIncidents, P!UpsertIncidents, MemTables, PgTables
<1> HIDE DEF x, y
<1>5. Wrote("incidents", x, MemTables, m, n) /\ Wrote("incidents", y, PgTables, p, q)
  BY <1>4, Writes
<1>6. n.incidents = x /\ q.incidents = y /\ q.remediations = p.remediations
  BY <1>5 DEF Wrote, Only, PgTables
<1> QED
  BY <1>1, <1>5, <1>6 DEF Wrote

LEMMA SBOMStep ==
    ASSUME IInv, NEW ref \in Refs, NEW packages \in Lockfiles, SubmitSBOM(ref, packages)
    PROVE  IInv'
<1> DEFINE sbom == [ref |-> ref, eco |-> "npm", at |-> now, packages |-> packages]
           m == M!UpsertSBOM(mem, now, sbom)
           p == P!UpsertSBOM(pg, now, sbom)
           x == Put(mem.sboms, now, sbom)
           y == Put(pg.sboms, now, SBOMRow(sbom))
           z == { q \in pg.sbom_packages : q.sbom # now } \cup PackageRows(now, sbom)
           pairs == RetroactivePairs(mem.iocs, sbom)
<1>1. now' = now + 1 /\ now' \in Nat /\ StoresAgree(mem, pg, now') /\ now \in Nat
  BY Clock DEF SubmitSBOM, IInv
<1>2. /\ IsStore(mem, MemTables) /\ IsStore(pg, PgTables) /\ SBOMsAgree(mem.sboms, pg.sboms, pg.sbom_packages)
      /\ IoCsAgree(mem.iocs, pg.iocs) /\ IncidentsAgree(mem.incidents, pg.incidents, now)
      /\ LogsAgree(mem.incidents, pg.remediations) /\ Covered(mem.iocs, mem.sboms, mem.incidents)
  BY DEF IInv, StoresAgree
<1>3. mem' = OpenInMemory(m, RetroactivePairs(m.iocs, sbom)) /\ pg' = OpenInPostgres(p, RetroactivePairs(p.iocs, sbom))
  BY DEF SubmitSBOM
<1>4. sbom \in SBOMs
  BY <1>1 DEF SBOMs
<1> HIDE DEF sbom
<1>5. /\ "sboms" \in MemTables /\ "sboms" \in PgTables /\ "sbom_packages" \in PgTables /\ "sboms" # "sbom_packages"
      /\ m = [mem EXCEPT !["sboms"] = x]
      /\ p = [pg EXCEPT !["sboms"] = y, !["sbom_packages"] = z]
  BY SameTables DEF M!UpsertSBOM, P!UpsertSBOM, MemTables, PgTables, SBOMRow, PackageRows
<1>6. SBOMsAgree(x, y, z)
  BY <1>2, <1>4, PutSBOM
<1> HIDE DEF m, p, y, z
<1>7. WroteTwo("sboms", y, "sbom_packages", z, PgTables, pg, p)
  BY <1>2, <1>5, WritesTwo
<1>8. Wrote("sboms", x, MemTables, mem, m)
  <2> HIDE DEF x
  <2> QED
    BY <1>2, <1>5, Writes
<1>9. /\ IsStore(m, MemTables) /\ m.iocs = mem.iocs /\ m.incidents = mem.incidents
      /\ IsStore(p, PgTables) /\ p.iocs = pg.iocs /\ p.incidents = pg.incidents /\ p.remediations = pg.remediations
  BY <1>7, <1>8 DEF Wrote, WroteTwo, Only, MemTables, PgTables
<1>10. RetroactivePairs(m.iocs, sbom) = pairs /\ RetroactivePairs(p.iocs, sbom) = pairs /\ ArePairs(pairs)
  BY <1>2, <1>4, <1>9, SameRetroactive
<1> HIDE DEF pairs
<1>11. /\ Only({"incidents"}, MemTables, m, mem') /\ Only({"incidents"}, PgTables, p, pg')
       /\ IncidentsAgree(mem'.incidents, pg'.incidents, now + 1)
       /\ LogsAgree(mem'.incidents, pg'.remediations)
       /\ HoldsAll(mem'.incidents, pairs) /\ HoldsMore(m.incidents, mem'.incidents)
  <2>1. mem' = OpenInMemory(m, pairs) /\ pg' = OpenInPostgres(p, pairs)
    BY <1>3, <1>10
  <2>2. IncidentsAgree(m.incidents, p.incidents, now) /\ LogsAgree(m.incidents, p.remediations)
    BY <1>2, <1>9
  <2> QED
    BY <2>1, <2>2, <1>1, <1>9, <1>10, OpenBoth
<1>12. Covered(mem.iocs, x, mem'.incidents)
  <2>1. Covered(mem.iocs, mem.sboms, mem'.incidents)
    BY <1>2, <1>9, <1>11, CoveredMore
  <2> QED
    BY <2>1, <1>11, CoveredBySBOM DEF pairs
<1> HIDE DEF x
<1>13. /\ mem'.sboms = x /\ mem'.iocs = mem.iocs /\ mem'.components = mem.components
       /\ mem'.history = mem.history /\ mem'.anomalies = mem.anomalies
       /\ mem'.publishers = mem.publishers /\ mem'.profiles = mem.profiles /\ IsStore(mem', MemTables)
  BY <1>8, <1>11 DEF Wrote, Only, MemTables
<1>14. /\ pg'.sboms = y /\ pg'.sbom_packages = z /\ pg'.iocs = pg.iocs /\ pg'.components = pg.components
       /\ pg'.publisher_history = pg.publisher_history /\ pg'.anomalies = pg.anomalies
       /\ pg'.anomaly_seq = pg.anomaly_seq /\ pg'.publishers = pg.publishers
       /\ pg'.publisher_profiles = pg.publisher_profiles /\ IsStore(pg', PgTables)
  BY <1>7, <1>11 DEF WroteTwo, Only, PgTables
<1>15. StoresAgree(mem', pg', now')
  BY <1>1, <1>6, <1>11, <1>12, <1>13, <1>14 DEF StoresAgree
<1> QED
  BY <1>1, <1>13, <1>14, <1>15 DEF IInv

LEMMA IoCStep ==
    ASSUME IInv, NEW id \in IoCs, NEW ioc \in IoCRecords, SubmitIoC(id, ioc)
    PROVE  IInv'
<1> DEFINE m == M!UpsertIoC(mem, id, ioc)
           p == P!UpsertIoC(pg, id, ioc)
           x == Put(mem.iocs, id, ioc)
           y == Put(pg.iocs, id, [ioc EXCEPT !.at = P!Micro(@)])
           refs == RefsWith(mem.sboms, ioc.eco, ioc.name)
           Pairs(rs) == { [ioc |-> id, ref |-> r] : r \in rs }
           pairs == Pairs(refs)
<1>1. now' = now + 1 /\ now' \in Nat /\ StoresAgree(mem, pg, now') /\ now \in Nat
  BY Clock DEF SubmitIoC, IInv
<1>2. /\ IsStore(mem, MemTables) /\ IsStore(pg, PgTables) /\ SBOMsAgree(mem.sboms, pg.sboms, pg.sbom_packages)
      /\ IoCsAgree(mem.iocs, pg.iocs) /\ IncidentsAgree(mem.incidents, pg.incidents, now)
      /\ LogsAgree(mem.incidents, pg.remediations) /\ Covered(mem.iocs, mem.sboms, mem.incidents)
  BY DEF IInv, StoresAgree
<1>3. /\ mem' = OpenInMemory(m, Pairs(M!ListSBOMPackages(m, ioc.eco, ioc.name)))
      /\ pg' = OpenInPostgres(p, Pairs(P!ListSBOMPackages(p, ioc.eco, ioc.name)))
  BY DEF SubmitIoC
<1>4. /\ "iocs" \in MemTables /\ "iocs" \in PgTables
      /\ m = [mem EXCEPT !["iocs"] = x]
      /\ p = [pg EXCEPT !["iocs"] = y]
  BY SameTables DEF M!UpsertIoC, P!UpsertIoC, MemTables, PgTables
<1>5. IoCsAgree(x, y)
  BY <1>2, PutIoC
<1> HIDE DEF m, p, y, Pairs
<1>6. Wrote("iocs", x, MemTables, mem, m) /\ Wrote("iocs", y, PgTables, pg, p)
  <2> HIDE DEF x
  <2> QED
    BY <1>2, <1>4, Writes
<1>7. /\ IsStore(m, MemTables) /\ m.sboms = mem.sboms /\ m.incidents = mem.incidents
      /\ IsStore(p, PgTables) /\ p.sboms = pg.sboms /\ p.sbom_packages = pg.sbom_packages
      /\ p.incidents = pg.incidents /\ p.remediations = pg.remediations
  BY <1>6 DEF Wrote, Only, MemTables, PgTables
<1>8. M!ListSBOMPackages(m, ioc.eco, ioc.name) = refs /\ P!ListSBOMPackages(p, ioc.eco, ioc.name) = refs
  <2>1. SBOMsAgree(m.sboms, p.sboms, p.sbom_packages)
    BY <1>2, <1>7
  <2>2. /\ M!ListSBOMPackages(m, ioc.eco, ioc.name) = RefsWith(m.sboms, ioc.eco, ioc.name)
        /\ P!ListSBOMPackages(p, ioc.eco, ioc.name) = RefsWith(m.sboms, ioc.eco, ioc.name)
    BY <2>1, PackagesOf
  <2> QED
    BY <2>2, <1>7
<1> HIDE DEF refs
<1>9. ArePairs(pairs)
  <2> DEFINE f == [r \in refs |-> [ioc |-> id, ref |-> r]]
  <2>1. IsFiniteSet(refs)
    BY <1>2, RefsFinite DEF SBOMsAgree, refs
  <2>2. pairs = { f[r] : r \in refs }
    BY DEF Pairs
  <2> HIDE DEF f, pairs
  <2>3. IsFiniteSet({ f[r] : r \in refs })
    BY <2>1, FiniteImage
  <2>4. refs \subseteq Refs
    <3>1. \A j \in DOMAIN mem.sboms : mem.sboms[j].ref \in Refs
      BY <1>2, Fields DEF SBOMsAgree
    <3> QED
      BY <3>1 DEF refs, RefsWith
  <2>5. \A q \in pairs : q.ioc = id /\ q.ref \in refs
    BY SMTT(20) DEF pairs, Pairs
  <2> QED
    BY <2>2, <2>3, <2>4, <2>5 DEF ArePairs
<1>10. \A r \in refs : \E q \in pairs : q.ioc = id /\ q.ref = r
  <2>1. ASSUME NEW r \in refs PROVE \E q \in pairs : q.ioc = id /\ q.ref = r
    <3> DEFINE q == [ioc |-> id, ref |-> r]
    <3>1. q \in pairs
      BY DEF Pairs
    <3>2. q.ioc = id /\ q.ref = r
      OBVIOUS
    <3> HIDE DEF q
    <3> QED
      BY <3>1, <3>2
  <2> QED
    BY <2>1
<1> HIDE DEF pairs
<1>11. /\ Only({"incidents"}, MemTables, m, mem') /\ Only({"incidents"}, PgTables, p, pg')
       /\ IncidentsAgree(mem'.incidents, pg'.incidents, now + 1)
       /\ LogsAgree(mem'.incidents, pg'.remediations)
       /\ HoldsAll(mem'.incidents, pairs) /\ HoldsMore(m.incidents, mem'.incidents)
  <2>1. mem' = OpenInMemory(m, pairs) /\ pg' = OpenInPostgres(p, pairs)
    BY <1>3, <1>8 DEF pairs
  <2>2. IncidentsAgree(m.incidents, p.incidents, now) /\ LogsAgree(m.incidents, p.remediations)
    BY <1>2, <1>7
  <2> QED
    BY <2>1, <2>2, <1>1, <1>7, <1>9, OpenBoth
<1>12. Covered(x, mem.sboms, mem'.incidents)
  <2>1. Covered(mem.iocs, mem.sboms, mem'.incidents)
    BY <1>2, <1>7, <1>11, CoveredMore
  <2>2. ASSUME NEW s \in DOMAIN mem.sboms, Fires(ioc, mem.sboms[s])
        PROVE  Held(mem'.incidents, id, mem.sboms[s].ref)
    <3>1. mem.sboms[s].ref \in refs
      BY <2>2, FiresCarries DEF refs, RefsWith
    <3> QED
      BY <3>1, <1>10, <1>11 DEF HoldsAll
  <2> QED
    BY <2>1, <2>2, CoveredByIoC
<1> HIDE DEF x
<1>13. /\ mem'.iocs = x /\ mem'.sboms = mem.sboms /\ mem'.components = mem.components
       /\ mem'.history = mem.history /\ mem'.anomalies = mem.anomalies
       /\ mem'.publishers = mem.publishers /\ mem'.profiles = mem.profiles /\ IsStore(mem', MemTables)
  BY <1>6, <1>11 DEF Wrote, Only, MemTables
<1>14. /\ pg'.iocs = y /\ pg'.sboms = pg.sboms /\ pg'.sbom_packages = pg.sbom_packages
       /\ pg'.components = pg.components
       /\ pg'.publisher_history = pg.publisher_history /\ pg'.anomalies = pg.anomalies
       /\ pg'.anomaly_seq = pg.anomaly_seq /\ pg'.publishers = pg.publishers
       /\ pg'.publisher_profiles = pg.publisher_profiles /\ IsStore(pg', PgTables)
  BY <1>6, <1>11 DEF Wrote, Only, PgTables
<1>15. StoresAgree(mem', pg', now')
  BY <1>1, <1>5, <1>11, <1>12, <1>13, <1>14 DEF StoresAgree
<1> QED
  BY <1>1, <1>13, <1>14, <1>15 DEF IInv

(* Every request keeps the two stores in step. *)
LEMMA Inductive == Spec => []IInv
<1>1. Init => IInv
  BY InitAgrees
<1>2. IInv /\ [Next]_<<mem, pg, now, load>> => IInv'
  <2> SUFFICES ASSUME IInv, [Next]_<<mem, pg, now, load>> PROVE IInv'
    OBVIOUS
  <2>1. CASE \E ref \in Refs, owner \in Owners : UpsertComponent(ref, owner)
    BY <2>1, ComponentStep
  <2>2. CASE \E ref \in Refs, packages \in Lockfiles : SubmitSBOM(ref, packages)
    BY <2>2, SBOMStep
  <2>3. CASE \E id \in IoCs, eco \in {"npm", "pypi"}, name \in Names :
               SubmitIoC(id, [eco |-> eco, name |-> name, at |-> 0])
    <3>1. PICK id \in IoCs, eco \in {"npm", "pypi"}, name \in Names :
               SubmitIoC(id, [eco |-> eco, name |-> name, at |-> 0])
      BY <2>3
    <3>2. [eco |-> eco, name |-> name, at |-> 0] \in IoCRecords
      BY DEF IoCRecords
    <3> QED
      BY <3>1, <3>2, IoCStep
  <2>4. CASE \E id \in DOMAIN mem.incidents : \E to \in {"triaged", "dismissed"} : TransitionIncident(id, to)
    BY <2>4, TransitionStep
  <2>5. CASE \E id \in DOMAIN mem.incidents : \E at \in {0, now} : AddRemediation(id, at)
    BY <2>5, RemediationStep
  <2>6. CASE \E ref \in Tracked : SaveSnapshot(ref)
    BY <2>6, SnapshotStep
  <2>7. CASE \E kind \in Kinds, ref \in Tracked, ticks \in {0, 1} : SaveAnomaly(kind, ref, ticks)
    BY <2>7, AnomalyStep
  <2>8. CASE \E name \in Publishers : UpsertPublisher(name)
    BY <2>8, PublisherStep
  <2>9. CASE \E name \in Publishers : \E changed \in {NoTime, now} : UpsertPublisherProfile(name, changed)
    BY <2>9, ProfileStep
  <2>10. CASE UNCHANGED <<mem, pg, now, load>>
    BY <2>10 DEF IInv
  <2> QED
    BY <2>1, <2>2, <2>3, <2>4, <2>5, <2>6, <2>7, <2>8, <2>9, <2>10 DEF Next
<1> QED
  BY <1>1, <1>2, PTL DEF Spec
=============================================================================
