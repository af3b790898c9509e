--------------------------- MODULE PipelineProofs ---------------------------
(***************************************************************************)
(* For every set of packages, batch size, history depth and number of      *)
(* retries: the two goroutines of the publisher pipeline keep their tables *)
(* consistent, and the scheduler never buries a snapshot whose anomalies   *)
(* the orchestrator has yet to submit.                                     *)
(***************************************************************************)
EXTENDS Pipeline, FiniteSetTheorems, TLAPS

(* A leaf that names no prover may take its time with either. *)
USE SMTT(20), ZenonT(30)

Anomalies == [kind : {"drift", "oidc", "jump"}, confidence : {"low", "medium", "high"}]

SchedStates ==
    [pc : {"idle", "fetch", "save"}, todo : Seq(Tracked), attempt : 0 .. MaxRetries,
     snap : Snapshots \cup {<<>>}]
OrchStates == [pc : {"idle", "read", "save", "emit"}, todo : Seq(Tracked), found : Seq(Anomalies)]

Shapes ==
    /\ upstream \in [Tracked -> Documents]
    /\ hist \in [Tracked -> Seq(Snapshots)]
    /\ \A r \in Tracked : hist[r] \in Seq(SnapshotsOf(r)) /\ Len(hist[r]) <= HistoryDepth
    /\ order \in Seq(Tracked) /\ age \in [Tracked -> {"now", "last", "old"}]
    /\ sched \in SchedStates /\ orch \in OrchStates
    /\ sTicked \in BOOLEAN /\ oTicked \in BOOLEAN
    /\ examined \in SUBSET Tracked /\ spoiled \in SUBSET Tracked
    /\ alerted \in [Tracked -> SUBSET {"drift", "oidc", "jump"}]
    /\ faults \in 0 .. MaxFaults

Lists(q, r) == \E i \in DOMAIN q : q[i] = r
OnceEach(q) == \A i, j \in DOMAIN q : q[i] = q[j] => i = j

(* A list of packages by the time they were saved, the latest last. *)
Sorted(q, a) ==
    \A i, j \in DOMAIN q : i < j =>
      (a[q[i]] = "now" => a[q[j]] = "now") /\ (a[q[j]] = "old" => a[q[i]] = "old")

(* The order holds every package with snapshots, once, by age. *)
OrderOK ==
    /\ Sorted(order, age)
    /\ OnceEach(order) /\ \A r \in Tracked : hist[r] # <<>> <=> Lists(order, r)
    /\ \A r \in Tracked : age[r] # "old" => hist[r] # <<>>

(* The scheduler works on packages that were stale when its tick began, and *)
(* holds a snapshot of the one it is about to save.                         *)
SchedOK ==
    /\ sched.pc = "idle" <=> sched.todo = <<>>
    /\ \A i \in DOMAIN sched.todo : hist[sched.todo[i]] # <<>> /\ age[sched.todo[i]] # "last"
    /\ sched.pc = "save" => sched.snap \in SnapshotsOf(sched.todo[1])

Kinds(found) == { found[i].kind : i \in DOMAIN found }

(* What the orchestrator has in hand is about the newest snapshot, unless   *)
(* the scheduler has saved another since.                                   *)
OrchOK ==
    /\ orch.pc = "idle" <=> orch.todo = <<>>
    /\ orch.found # <<>> <=> orch.pc \in {"save", "emit"}
    /\ \A i \in DOMAIN orch.todo : hist[orch.todo[i]] # <<>>
    /\ orch.pc \in {"save", "emit"} /\ orch.todo[1] \in examined
         => Kinds(orch.found) \subseteq Raised(hist[orch.todo[1]])
    /\ \A r \in Tracked : alerted[r] \subseteq Raised(hist[r])

Handled(r) == r \in examined /\ Raised(hist[r]) \subseteq alerted[r]

(* The orchestrator is about to read the history of r, the package in hand, *)
(* or is raising what r shows.                                              *)
InProgress(r) ==
    \/ orch.pc = "read"
    \/ r \in examined /\ Raised(hist[r]) \subseteq alerted[r] \cup Kinds(orch.found)

(* The orchestrator still comes to r, or is at work on it. *)
Coming(r) == \E i \in DOMAIN orch.todo : orch.todo[i] = r /\ (i > 1 \/ InProgress(r))

(* Every package is handled, or was saved in this hour, or in the last one  *)
(* with this hour's orchestrator tick yet to see it, or failed.             *)
DueOK ==
    \A r \in Tracked :
        \/ r \in spoiled \/ age[r] = "now" \/ Handled(r)
        \/ age[r] = "last" /\ (~oTicked \/ Coming(r))

PInv == Shapes /\ OrderOK /\ SchedOK /\ OrchOK /\ DueOK

-----------------------------------------------------------------------------
(* What the detectors return, whatever the history. *)
LEMMA DetectorTypes ==
    ASSUME NEW h
    PROVE  /\ maintainerdrift(h) \in Seq(Anomalies) /\ oidcregression(h) \in Seq(Anomalies)
           /\ versionjump(h) \in Seq(Anomalies)
<1>1. maintainerdrift(h) \in Seq(Anomalies)
  <2>1. \A a, b : Anomaly("drift", classifyDrift(a, b)) \in Anomalies
    BY Zenon DEF classifyDrift, Anomaly, Anomalies
  <2> QED
    BY <2>1 DEF maintainerdrift
<1>2. oidcregression(h) \in Seq(Anomalies)
  <2>1. Anomaly("oidc", "high") \in Anomalies /\ Anomaly("oidc", "medium") \in Anomalies
    BY Zenon DEF Anomaly, Anomalies
  <2> QED
    BY <2>1 DEF oidcregression
<1>3. versionjump(h) \in Seq(Anomalies)
  <2>1. \A a, b : classify(a, b) \in {"low", "medium", "high"}
    BY Zenon DEF classify
  <2>2. \A a, b : Anomaly("jump", classify(a, b)) \in Anomalies
    BY <2>1, Zenon DEF Anomaly, Anomalies
  <2> QED
    BY <2>2 DEF versionjump
<1> QED
  BY <1>1, <1>2, <1>3, Zenon

LEMMA DetectType == ASSUME NEW h PROVE Detect(h) \in Seq(Anomalies)
  BY DetectorTypes DEF Detect

LEMMA RaisedKinds ==
    ASSUME NEW h
    PROVE  Raised(h) = Kinds(Detect(h)) /\ Raised(h) \in SUBSET {"drift", "oidc", "jump"}
<1>1. Raised(h) = Kinds(Detect(h))
  BY Zenon DEF Raised, Range, Kinds
<1>2. \A i \in DOMAIN Detect(h) : Detect(h)[i] \in Anomalies
  BY DetectType
<1> QED
  BY <1>1, <1>2, Zenon DEF Kinds, Anomalies

-----------------------------------------------------------------------------
(* A history whose newest snapshot repeats the one before. *)
Repeats(g, h) ==
    /\ Len(h) \in Nat /\ DOMAIN h = 1 .. Len(h) /\ 1 \in DOMAIN h
    /\ Len(g) = Len(h) + 1 /\ DOMAIN g = 1 .. Len(h) + 1
    /\ g[1] = h[1] /\ \A i \in DOMAIN h : g[i + 1] = h[i]
    /\ Range(Tail(g)) = Range(h)
    /\ \A x \in Range(h) : x = h[1] \/ x \in Range(Tail(h))

LEMMA Repeated ==
    ASSUME NEW S, NEW h \in Seq(S), h # <<>>
    PROVE  Repeats(<<h[1]>> \o h, h)
<1> DEFINE g == <<h[1]>> \o h
<1>1. Len(h) \in Nat /\ DOMAIN h = 1 .. Len(h) /\ 1 \in DOMAIN h
  OBVIOUS
<1>2. Len(g) = Len(h) + 1 /\ DOMAIN g = 1 .. Len(h) + 1
  OBVIOUS
<1>3. g[1] = h[1] /\ \A i \in DOMAIN h : g[i + 1] = h[i]
  OBVIOUS
<1>4. Tail(g) = h
  OBVIOUS
<1>5. \A i \in DOMAIN h : i # 1 => i - 1 \in DOMAIN Tail(h) /\ Tail(h)[i - 1] = h[i]
  OBVIOUS
<1>6. \A x \in Range(h) : x = h[1] \/ x \in Range(Tail(h))
  BY <1>5, Zenon DEF Range
<1> QED
  BY <1>1, <1>2, <1>3, <1>4, <1>6, Zenon DEF Repeats

(* The steps of the two histories are the same, one place further back. *)
LEMMA StepBack ==
    ASSUME NEW g, NEW h, Repeats(g, h), NEW s \in extractVersionsOldestFirst(g)
    PROVE  /\ <<s[1] - 1, s[2] - 1>> \in extractVersionsOldestFirst(h)
           /\ s = <<(s[1] - 1) + 1, (s[2] - 1) + 1>>
<1> DEFINE G == { i \in DOMAIN g : g[i].version # <<>> }
           H == { i \in DOMAIN h : h[i].version # <<>> }
           t == <<s[1] - 1, s[2] - 1>>
<1>1. /\ s \in G \X G /\ s[1] < s[2] /\ \A k \in G : ~ (s[1] < k /\ k < s[2])
      /\ g[s[1]].version # g[s[2]].version
  BY Zenon DEF extractVersionsOldestFirst
<1>2. s[1] \in G /\ s[2] \in G /\ s = <<s[1], s[2]>>
  BY <1>1
<1>3. /\ Len(h) \in Nat /\ DOMAIN h = 1 .. Len(h) /\ 1 \in DOMAIN h
      /\ DOMAIN g = 1 .. Len(h) + 1 /\ g[1] = h[1] /\ \A i \in DOMAIN h : g[i + 1] = h[i]
  BY Zenon DEF Repeats
<1>4. \A i \in G : i # 1 => i - 1 \in H /\ g[i] = h[i - 1] /\ (i - 1) + 1 = i
  <2> SUFFICES ASSUME NEW i \in G, i # 1 PROVE i - 1 \in H /\ g[i] = h[i - 1] /\ (i - 1) + 1 = i
    OBVIOUS
  <2>1. i - 1 \in DOMAIN h /\ (i - 1) + 1 = i
    BY <1>3
  <2>2. g[i] = h[i - 1]
    BY <1>3, <2>1, Zenon
  <2> QED
    BY <2>1, <2>2, Zenon
<1>5. \A i \in H : i + 1 \in G
  <2>1. \A i \in DOMAIN h : i + 1 \in DOMAIN g
    BY <1>3
  <2> QED
    BY <1>3, <2>1, Zenon
<1>6. s[1] # 1
  <2> SUFFICES ASSUME s[1] = 1 PROVE FALSE
    OBVIOUS
  <2>1. g[2] = g[1] /\ 2 \in DOMAIN g
    BY <1>3
  <2>2. 2 \in G
    BY <2>1, <1>2, Zenon
  <2>3. s[2] = 2
    <3>1. s[2] \in 1 .. Len(h) + 1 /\ ~ (1 < 2 /\ 2 < s[2]) /\ 1 < s[2]
      BY <1>1, <1>2, <1>3, <2>2, Zenon
    <3> QED
      BY <3>1, <1>3
  <2> QED
    BY <1>1, <2>1, <2>3, Zenon
<1>7. s[1] \in 1 .. Len(h) + 1 /\ s[2] \in 1 .. Len(h) + 1
  BY <1>2, <1>3, Zenon
<1>8. s[2] # 1
  BY <1>1, <1>3, <1>7
<1>9. s[1] - 1 \in H /\ s[2] - 1 \in H /\ g[s[1]] = h[s[1] - 1] /\ g[s[2]] = h[s[2] - 1]
  BY <1>2, <1>4, <1>6, <1>8, Zenon
<1>10. s[1] - 1 < s[2] - 1 /\ \A k \in H : ~ (s[1] - 1 < k /\ k < s[2] - 1)
  <2>1. \A k \in H : ~ (s[1] < k + 1 /\ k + 1 < s[2]) /\ k \in 1 .. Len(h)
    BY <1>1, <1>3, <1>5, Zenon
  <2> HIDE DEF H
  <2> QED
    BY <1>1, <1>3, <1>7, <2>1
<1>11. t[1] = s[1] - 1 /\ t[2] = s[2] - 1
  OBVIOUS
<1> HIDE DEF t
<1>12. t \in H \X H
  BY <1>9 DEF t
<1>13. t \in extractVersionsOldestFirst(h)
  BY <1>1, <1>9, <1>10, <1>11, <1>12, Zenon DEF extractVersionsOldestFirst
<1> QED
  BY <1>2, <1>4, <1>6, <1>8, <1>13, Zenon DEF t

LEMMA StepOn ==
    ASSUME NEW g, NEW h, Repeats(g, h), NEW s \in extractVersionsOldestFirst(h)
    PROVE  /\ <<s[1] + 1, s[2] + 1>> \in extractVersionsOldestFirst(g)
           /\ s \in (1 .. Len(h)) \X (1 .. Len(h)) /\ s = <<s[1], s[2]>>
           /\ g[s[1] + 1] = h[s[1]] /\ g[s[2] + 1] = h[s[2]]
<1> DEFINE G == { i \in DOMAIN g : g[i].version # <<>> }
           H == { i \in DOMAIN h : h[i].version # <<>> }
           t == <<s[1] + 1, s[2] + 1>>
<1>1. /\ s \in H \X H /\ s[1] < s[2] /\ \A k \in H : ~ (s[1] < k /\ k < s[2])
      /\ h[s[1]].version # h[s[2]].version
  BY Zenon DEF extractVersionsOldestFirst
<1>2. s[1] \in H /\ s[2] \in H /\ s = <<s[1], s[2]>>
  BY <1>1
<1>3. /\ Len(h) \in Nat /\ DOMAIN h = 1 .. Len(h)
      /\ DOMAIN g = 1 .. Len(h) + 1 /\ \A i \in DOMAIN h : g[i + 1] = h[i]
  BY Zenon DEF Repeats
<1>4. \A i \in H : i \in DOMAIN h /\ i + 1 \in G
  <2>1. \A i \in DOMAIN h : i + 1 \in DOMAIN g
    BY <1>3
  <2> QED
    BY <1>3, <2>1, Zenon
<1>5. s[1] \in 1 .. Len(h) /\ s[2] \in 1 .. Len(h)
  BY <1>2, <1>3, <1>4, Zenon
<1>6. \A k \in G : k # 1 => k - 1 \in H
  <2> SUFFICES ASSUME NEW k \in G, k # 1 PROVE k - 1 \in H
    OBVIOUS
  <2>1. k - 1 \in DOMAIN h /\ (k - 1) + 1 = k
    BY <1>3
  <2> QED
    BY <1>3, <2>1, Zenon
<1>7. s[1] + 1 < s[2] + 1 /\ \A k \in G : ~ (s[1] + 1 < k /\ k < s[2] + 1)
  <2>1. \A k \in G : k \in 1 .. Len(h) + 1 /\ (k # 1 => ~ (s[1] < k - 1 /\ k - 1 < s[2]))
    BY <1>1, <1>3, <1>6, Zenon
  <2>2. s[1] + 1 < s[2] + 1
    BY <1>1, <1>5
  <2>3. ASSUME NEW k \in G, s[1] + 1 < k, k < s[2] + 1 PROVE FALSE
    <3>1. k \in 1 .. Len(h) + 1 /\ k # 1
      BY <1>3, <1>5, <2>1, <2>3
    <3>2. ~ (s[1] < k - 1 /\ k - 1 < s[2])
      BY <2>1, <3>1, Zenon
    <3> QED
      BY <1>3, <1>5, <2>3, <3>1, <3>2
  <2> QED
    BY <2>2, <2>3, Zenon
<1>8. g[s[1] + 1] = h[s[1]] /\ g[s[2] + 1] = h[s[2]] /\ s[1] + 1 \in G /\ s[2] + 1 \in G
  BY <1>2, <1>3, <1>4, Zenon
<1>9. t[1] = s[1] + 1 /\ t[2] = s[2] + 1
  OBVIOUS
<1> HIDE DEF t
<1>10. t \in G \X G
  BY <1>8 DEF t
<1>11. t \in extractVersionsOldestFirst(g)
  BY <1>1, <1>7, <1>8, <1>9, <1>10, Zenon DEF extractVersionsOldestFirst
<1>12. s \in (1 .. Len(h)) \X (1 .. Len(h))
  BY <1>2, <1>5
<1> QED
  BY <1>2, <1>8, <1>11, <1>12, Zenon DEF t

(* An unusual jump of the longer history is one of the shorter. *)
LEMMA JumpBack ==
    ASSUME NEW g, NEW h, Repeats(g, h), unusual(g) # {}
    PROVE  unusual(h) # {}
<1> DEFINE G == extractVersionsOldestFirst(g)
           H == extractVersionsOldestFirst(h)
           On(s) == <<s[1] + 1, s[2] + 1>>
<1>1. PICK s \in G : /\ \A u \in G : s[1] <= u[1]
                     /\ jump(g, s) > 0 /\ isUnusualVsHistory(jump(g, s), historical(g, s))
  BY Zenon DEF unusual
<1> DEFINE t == <<s[1] - 1, s[2] - 1>>
<1>2. \A u \in G : <<u[1] - 1, u[2] - 1>> \in H /\ u = <<(u[1] - 1) + 1, (u[2] - 1) + 1>>
  BY StepBack, Zenon
<1>3. \A u \in H : /\ On(u) \in G /\ u \in (1 .. Len(h)) \X (1 .. Len(h)) /\ u = <<u[1], u[2]>>
                   /\ g[u[1] + 1] = h[u[1]] /\ g[u[2] + 1] = h[u[2]]
  <2> SUFFICES ASSUME NEW u \in H
               PROVE  /\ On(u) \in G /\ u \in (1 .. Len(h)) \X (1 .. Len(h)) /\ u = <<u[1], u[2]>>
                      /\ g[u[1] + 1] = h[u[1]] /\ g[u[2] + 1] = h[u[2]]
    BY Zenon
  <2> QED
    BY StepOn
<1>4. \A u : On(u)[1] = u[1] + 1 /\ On(u)[2] = u[2] + 1
  OBVIOUS
<1>5. \A u \in H : jump(g, On(u)) = jump(h, u)
  <2> HIDE DEF On
  <2> QED
    BY <1>3, <1>4, Zenon DEF jump
<1>6. \A u \in G : \E v \in H : u = On(v)
  <2> SUFFICES ASSUME NEW u \in G PROVE \E v \in H : u = On(v)
    OBVIOUS
  <2> DEFINE v == <<u[1] - 1, u[2] - 1>>
  <2>1. v \in H
    BY <1>2, Zenon
  <2>2. v[1] = u[1] - 1 /\ v[2] = u[2] - 1
    OBVIOUS
  <2> HIDE DEF v
  <2>3. u = On(v)
    BY <1>2, <2>2, Zenon
  <2> QED
    BY <2>1, <2>3, Zenon
<1>7. \A u, v \in H : On(u) = On(v) => u = v
  <2> SUFFICES ASSUME NEW u \in H, NEW v \in H, On(u) = On(v) PROVE u = v
    OBVIOUS
  <2>1. u[1] + 1 = v[1] + 1 /\ u[2] + 1 = v[2] + 1
    BY <1>4
  <2>2. u[1] \in 1 .. Len(h) /\ u[2] \in 1 .. Len(h) /\ v[1] \in 1 .. Len(h) /\ v[2] \in 1 .. Len(h)
    BY <1>3, Zenon
  <2>3. u[1] = v[1] /\ u[2] = v[2]
    BY <2>1, <2>2
  <2> QED
    BY <1>3, <2>3, Zenon
<1> HIDE DEF On, G, H
<1>8. PICK v \in H : s = On(v)
  BY <1>6, Zenon
<1>9. \A u \in H : v[1] <= u[1]
  <2> SUFFICES ASSUME NEW u \in H PROVE v[1] <= u[1]
    OBVIOUS
  <2>1. v[1] + 1 <= u[1] + 1
    BY <1>1, <1>3, <1>4, <1>8, Zenon
  <2>2. u[1] \in 1 .. Len(h) /\ v[1] \in 1 .. Len(h)
    BY <1>3
  <2> QED
    BY <2>1, <2>2
<1>10. Range(historical(g, s)) = Range(historical(h, v))
  <2>1. /\ Range(historical(g, s)) = { jump(g, u) : u \in G \ {s} }
        /\ Range(historical(h, v)) = { jump(h, u) : u \in H \ {v} }
    BY Zenon DEF Range, historical, G, H
  <2>2. \A u \in H \ {v} : On(u) \in G \ {s} /\ jump(g, On(u)) = jump(h, u)
    BY <1>3, <1>5, <1>7, <1>8, Zenon
  <2>3. \A u \in G \ {s} : \E w \in H \ {v} : jump(g, u) = jump(h, w)
    BY <1>5, <1>6, <1>8, Zenon
  <2>4. { jump(g, u) : u \in G \ {s} } = { jump(h, u) : u \in H \ {v} }
    <3>1. \A x : x \in { jump(g, u) : u \in G \ {s} } => x \in { jump(h, u) : u \in H \ {v} }
      BY <2>3, Zenon
    <3>2. \A x : x \in { jump(h, u) : u \in H \ {v} } => x \in { jump(g, u) : u \in G \ {s} }
      BY <2>2, Zenon
    <3> QED
      BY <3>1, <3>2, Zenon
  <2> QED
    BY <2>1, <2>4, Zenon
<1>11. jump(h, v) = jump(g, s)
  BY <1>5, <1>8, Zenon
<1>12. isUnusualVsHistory(jump(h, v), historical(h, v))
  <2>1. maxOrZero(historical(g, s)) = maxOrZero(historical(h, v))
    BY <1>10, Zenon DEF maxOrZero
  <2> QED
    BY <1>1, <1>11, <2>1, Zenon DEF isUnusualVsHistory
<1> QED
  BY <1>1, <1>9, <1>11, <1>12, Zenon DEF unusual, H

LEMMA KindsJoined ==
    ASSUME NEW a \in Seq(Anomalies), NEW b \in Seq(Anomalies)
    PROVE  Kinds(a \o b) = Kinds(a) \cup Kinds(b)
<1> DEFINE c == a \o b
<1> HIDE DEF Anomalies
<1>1. \A i \in DOMAIN a : i \in DOMAIN c /\ c[i] = a[i]
  OBVIOUS
<1>2. \A i \in DOMAIN b : Len(a) + i \in DOMAIN c /\ c[Len(a) + i] = b[i]
  OBVIOUS
<1>3. ASSUME NEW i \in DOMAIN c, i \notin DOMAIN a
      PROVE  i - Len(a) \in DOMAIN b /\ c[i] = b[i - Len(a)]
  <2>1. Len(a) \in Nat /\ Len(b) \in Nat /\ i \in 1 .. Len(a) + Len(b) /\ i > Len(a)
    BY <1>3
  <2>2. i - Len(a) \in DOMAIN b /\ Len(a) + (i - Len(a)) = i
    BY <2>1
  <2> QED
    BY <1>2, <2>2, Zenon
<1> HIDE DEF c
<1>4. Kinds(c) \subseteq Kinds(a) \cup Kinds(b)
  BY <1>1, <1>3, Zenon DEF Kinds
<1>5. Kinds(a) \cup Kinds(b) \subseteq Kinds(c)
  BY <1>1, <1>2, Zenon DEF Kinds
<1> QED
  BY <1>4, <1>5, Zenon DEF c

LEMMA OneKind ==
    ASSUME NEW kind, NEW confidence
    PROVE  Kinds(<<Anomaly(kind, confidence)>>) = {kind}
  BY DEF Kinds, Anomaly

LEMMA NoKind == Kinds(<<>>) = {}
  BY DEF Kinds

LEMMA DetectKinds ==
    ASSUME NEW h, ~ (Len(h) < 2)
    PROVE  Kinds(Detect(h)) = Kinds(maintainerdrift(h)) \cup Kinds(oidcregression(h)) \cup Kinds(versionjump(h))
<1> DEFINE a == maintainerdrift(h)
           b == oidcregression(h)
           c == versionjump(h)
<1>1. a \in Seq(Anomalies) /\ b \in Seq(Anomalies) /\ c \in Seq(Anomalies)
  BY DetectorTypes, Zenon
<1>2. Detect(h) = a \o b \o c
  BY Zenon DEF Detect
<1> HIDE DEF a, b, c
<1>3. a \o b \in Seq(Anomalies)
  <2> HIDE DEF Anomalies
  <2> QED
    BY <1>1
<1>4. Kinds(a \o b) = Kinds(a) \cup Kinds(b) /\ Kinds((a \o b) \o c) = Kinds(a \o b) \cup Kinds(c)
  BY <1>1, <1>3, KindsJoined, Zenon
<1> QED
  BY <1>2, <1>4, Zenon DEF a, b, c

LEMMA RepeatRaisesNothing ==
    ASSUME NEW g, NEW h, Repeats(g, h), ~ (Len(h) < 2)
    PROVE  Raised(g) \subseteq Raised(h)
<1>1. Kinds(maintainerdrift(g)) = {}
  <2>1. previous(g) = h[1] /\ g[1] = h[1]
    <3>1. g[1 + 1] = h[1] /\ g[1] = h[1]
      BY Zenon DEF Repeats
    <3> QED
      BY <3>1 DEF previous
  <2>2. maintainerdrift(g) = <<>>
    BY <2>1, Zenon DEF maintainerdrift
  <2> QED
    BY <2>2, NoKind, Zenon
<1>2. Kinds(oidcregression(g)) \subseteq Kinds(oidcregression(h))
  <2>1. CASE oidcregression(g) = <<>>
    BY <2>1, NoKind, Zenon
  <2>2. CASE oidcregression(g) # <<>>
    <3>1. g[1].method = "token" /\ "oidc" \in { s.method : s \in Range(Tail(g)) }
      BY <2>2, Zenon DEF oidcregression
    <3>2. h[1].method = "token" /\ "oidc" \in { s.method : s \in Range(h) }
      BY <3>1, Zenon DEF Repeats
    <3>3. "oidc" # "token"
      OBVIOUS
    <3>4. "oidc" \in { s.method : s \in Range(Tail(h)) }
      BY <3>2, <3>3, Zenon DEF Repeats
    <3>5. Kinds(oidcregression(h)) = {"oidc"} /\ Kinds(oidcregression(g)) = {"oidc"}
      BY <3>1, <3>2, <3>4, OneKind, Zenon DEF oidcregression
    <3> QED
      BY <3>5, Zenon
  <2> QED
    BY <2>1, <2>2, Zenon
<1>3. Kinds(versionjump(g)) \subseteq Kinds(versionjump(h))
  <2>1. CASE unusual(g) = {}
    BY <2>1, NoKind, Zenon DEF versionjump
  <2>2. CASE unusual(g) # {}
    <3>1. unusual(h) # {}
      BY <2>2, JumpBack, Zenon
    <3>2. Kinds(versionjump(h)) = {"jump"} /\ Kinds(versionjump(g)) = {"jump"}
      BY <2>2, <3>1, OneKind, Zenon DEF versionjump
    <3> QED
      BY <3>2, Zenon
  <2> QED
    BY <2>1, <2>2, Zenon
<1>4. ~ (Len(g) < 2)
  BY DEF Repeats
<1>5. /\ Raised(g) = Kinds(maintainerdrift(g)) \cup Kinds(oidcregression(g)) \cup Kinds(versionjump(g))
      /\ Raised(h) = Kinds(maintainerdrift(h)) \cup Kinds(oidcregression(h)) \cup Kinds(versionjump(h))
  BY <1>4, RaisedKinds, DetectKinds, Zenon
<1> QED
  BY <1>1, <1>2, <1>3, <1>5, Zenon

-----------------------------------------------------------------------------
(* LIMIT n. *)
LEMMA BatchFacts ==
    ASSUME NEW S, NEW q \in Seq(S), NEW n \in Nat
    PROVE  /\ Batch(q, n) \in Seq(S) /\ Len(Batch(q, n)) = IF n < Len(q) THEN n ELSE Len(q)
           /\ \A i \in DOMAIN Batch(q, n) : i \in DOMAIN q /\ Batch(q, n)[i] = q[i]
  BY DEF Batch

LEMMA NoneLeft == ASSUME NEW S, NEW q \in Seq(S) PROVE q # <<>> <=> Len(q) # 0
  OBVIOUS

LEMMA OneLeft == ASSUME NEW n \in Nat, n > 0 PROVE n > 1 <=> n - 1 # 0
  OBVIOUS

(* The rest of a batch. *)
LEMMA TailFacts ==
    ASSUME NEW S, NEW q \in Seq(S), q # <<>>
    PROVE  /\ Tail(q) \in Seq(S) /\ Head(q) = q[1] /\ q[1] \in S /\ 1 \in DOMAIN q
           /\ Len(q) > 1 <=> Tail(q) # <<>>
           /\ \A i \in DOMAIN Tail(q) : i + 1 \in DOMAIN q /\ Tail(q)[i] = q[i + 1]
           /\ \A i \in DOMAIN q : i > 1 => i - 1 \in DOMAIN Tail(q) /\ Tail(q)[i - 1] = q[i]
<1>1. Len(q) \in Nat /\ Len(q) > 0 /\ DOMAIN q = 1 .. Len(q)
  OBVIOUS
<1>2. /\ Tail(q) \in Seq(S) /\ Len(Tail(q)) = Len(q) - 1 /\ DOMAIN Tail(q) = 1 .. Len(q) - 1
      /\ \A i \in 1 .. Len(q) - 1 : Tail(q)[i] = q[i + 1]
  BY <1>1
<1>3. Head(q) = q[1] /\ q[1] \in S /\ 1 \in DOMAIN q
  BY <1>1
<1>4. Len(q) > 1 <=> Tail(q) # <<>>
  <2>1. Tail(q) # <<>> <=> Len(Tail(q)) # 0
    BY <1>2, NoneLeft, Zenon
  <2>2. Len(q) > 1 <=> Len(q) - 1 # 0
    BY <1>1, OneLeft, Zenon
  <2> QED
    BY <1>2, <2>1, <2>2, Zenon
<1>5. ASSUME NEW i \in DOMAIN Tail(q)
      PROVE  i + 1 \in DOMAIN q /\ Tail(q)[i] = q[i + 1]
  BY <1>1, <1>2
<1>6. ASSUME NEW i \in DOMAIN q, i > 1
      PROVE  i - 1 \in DOMAIN Tail(q) /\ Tail(q)[i - 1] = q[i]
  <2>1. i - 1 \in 1 .. Len(q) - 1 /\ (i - 1) + 1 = i
    BY <1>1, <1>6
  <2> QED
    BY <1>2, <2>1, Zenon
<1> QED
  BY <1>2, <1>3, <1>4, <1>5, <1>6

LEMMA Places ==
    ASSUME NEW n \in Nat, NEW i \in 1 .. n, NEW k \in 1 .. n
    PROVE  (k = n \/ k < n) /\ (k < i \/ k >= i)
  OBVIOUS

(* In p, r is at the end and the others are as they are in q. *)
LastOf(p, q, r) ==
    \A j, k \in DOMAIN p : j < k =>
      /\ p[j] # r
      /\ p[k] = r \/ \E a, b \in DOMAIN q : a < b /\ p[j] = q[a] /\ p[k] = q[b]

LEMMA PlaceBefore ==
    ASSUME NEW n \in Nat, NEW j \in 1 .. n, NEW k \in 1 .. n, j < k
    PROVE  j # n /\ j < n /\ n \in 1 .. n /\ j + 1 \in 1 .. n
  OBVIOUS

(* Saving a package puts it at the end of the order and moves nothing else. *)
LEMMA MoveToEndFacts ==
    ASSUME NEW S, NEW q \in Seq(S), NEW r \in S, Lists(q, r), OnceEach(q), NEW p, p = MoveToEnd(q, r)
    PROVE  p \in Seq(S) /\ OnceEach(p) /\ LastOf(p, q, r) /\ \A s : Lists(q, s) <=> Lists(p, s)
<1> DEFINE i == CHOOSE j \in 1 .. Len(q) : q[j] = r
           f == [j \in 1 .. Len(q) |-> IF j < i THEN q[j] ELSE IF j < Len(q) THEN q[j + 1] ELSE r]
<1>1. i \in 1 .. Len(q) /\ q[i] = r
  BY DEF Lists
<1>2. p = f
  BY Zenon DEF MoveToEnd
<1> HIDE DEF i
<1>n. Len(q) \in Nat /\ DOMAIN q = 1 .. Len(q)
  OBVIOUS
<1>3. f \in Seq(S) /\ Len(f) = Len(q) /\ DOMAIN f = 1 .. Len(q)
  <2>1. ASSUME NEW j \in 1 .. Len(q)
        PROVE  f[j] \in S
    BY <1>1, <1>n
  <2> QED
    BY <1>n, <2>1
<1>4. /\ \A j \in 1 .. Len(q) : j < i => f[j] = q[j]
      /\ \A j \in 1 .. Len(q) : j >= i /\ j < Len(q) => f[j] = q[j + 1]
      /\ f[Len(q)] = r
  BY <1>1, <1>n
<1> HIDE DEF f
<1>i. \A a, b \in 1 .. Len(q) : q[a] = q[b] => a = b
  BY <1>n, Zenon DEF OnceEach
<1>5. ASSUME NEW j \in 1 .. Len(q), NEW k \in 1 .. Len(q), f[j] = f[k]
      PROVE  j = k
  <2>1. CASE j < i /\ k < i
    <3>1. f[j] = q[j] /\ f[k] = q[k]
      BY <1>4, <2>1, Zenon
    <3> QED
      BY <1>5, <1>i, <3>1, Zenon
  <2>2. CASE j < i /\ k >= i
    <3>1. f[j] = q[j] /\ (k < Len(q) => f[k] = q[k + 1]) /\ (k = Len(q) => f[k] = q[i])
      BY <1>1, <1>4, <2>2, Zenon
    <3>2. j \in 1 .. Len(q) /\ j # i /\ j # k + 1
      BY <1>1, <1>n, <2>2
    <3>3. CASE k = Len(q)
      BY <1>1, <1>5, <1>i, <3>1, <3>2, <3>3, Zenon
    <3>4. CASE k < Len(q)
      <4>1. k + 1 \in 1 .. Len(q)
        BY <1>n, <3>4
      <4> QED
        BY <1>5, <1>i, <3>1, <3>2, <3>4, <4>1, Zenon
    <3> QED
      BY <1>n, <3>3, <3>4, Places, Zenon
  <2>3. CASE j >= i /\ k < i
    <3>1. f[k] = q[k] /\ (j < Len(q) => f[j] = q[j + 1]) /\ (j = Len(q) => f[j] = q[i])
      BY <1>1, <1>4, <2>3, Zenon
    <3>2. k \in 1 .. Len(q) /\ k # i /\ k # j + 1
      BY <1>1, <1>n, <2>3
    <3>3. CASE j = Len(q)
      BY <1>1, <1>5, <1>i, <3>1, <3>2, <3>3, Zenon
    <3>4. CASE j < Len(q)
      <4>1. j + 1 \in 1 .. Len(q)
        BY <1>n, <3>4
      <4> QED
        BY <1>5, <1>i, <3>1, <3>2, <3>4, <4>1, Zenon
    <3> QED
      BY <1>n, <3>3, <3>4, Places, Zenon
  <2>4. CASE j >= i /\ k >= i
    <3>1. /\ (j < Len(q) => f[j] = q[j + 1]) /\ (j = Len(q) => f[j] = q[i])
          /\ (k < Len(q) => f[k] = q[k + 1]) /\ (k = Len(q) => f[k] = q[i])
      BY <1>1, <1>4, <2>4, Zenon
    <3>2. i # j + 1 /\ i # k + 1 /\ (j + 1 = k + 1 => j = k)
      BY <1>1, <1>n, <2>4
    <3>3. (j < Len(q) => j + 1 \in 1 .. Len(q)) /\ (k < Len(q) => k + 1 \in 1 .. Len(q))
      BY <1>n
    <3>4. (j = Len(q) \/ j < Len(q)) /\ (k = Len(q) \/ k < Len(q))
      BY <1>1, <1>n, Places, Zenon
    <3>5. CASE j < Len(q) /\ k < Len(q)
      BY <1>5, <1>i, <3>1, <3>2, <3>3, <3>5, Zenon
    <3>6. CASE j < Len(q) /\ k = Len(q)
      BY <1>1, <1>5, <1>i, <3>1, <3>2, <3>3, <3>6, Zenon
    <3>7. CASE j = Len(q) /\ k < Len(q)
      BY <1>1, <1>5, <1>i, <3>1, <3>2, <3>3, <3>7, Zenon
    <3> QED
      BY <3>4, <3>5, <3>6, <3>7, Zenon
  <2> QED
    BY <1>1, <2>1, <2>2, <2>3, <2>4
<1>6. ASSUME NEW j \in 1 .. Len(q)
      PROVE  \E k \in 1 .. Len(q) : f[k] = q[j]
  <2>1. CASE j < i
    BY <1>4, <2>1, Zenon
  <2>2. CASE j = i
    BY <1>1, <1>4, <1>n, <2>2
  <2>3. CASE j > i
    <3>1. j - 1 \in 1 .. Len(q) /\ j - 1 >= i /\ j - 1 < Len(q) /\ (j - 1) + 1 = j
      BY <1>1, <1>n, <2>3
    <3> QED
      BY <1>4, <3>1, Zenon
  <2> QED
    BY <1>1, <2>1, <2>2, <2>3
<1>7. ASSUME NEW k \in 1 .. Len(q)
      PROVE  \E j \in 1 .. Len(q) : q[j] = f[k]
  <2>1. CASE k < i
    BY <1>4, <2>1, Zenon
  <2>2. CASE k = Len(q)
    BY <1>1, <1>4, <2>2, Zenon
  <2>3. CASE k >= i /\ k < Len(q)
    <3>1. k + 1 \in 1 .. Len(q)
      BY <1>n, <2>3
    <3> QED
      BY <1>4, <2>3, <3>1, Zenon
  <2>4. k < i \/ k = Len(q) \/ (k >= i /\ k < Len(q))
    BY <1>1, <1>n, Places, Zenon
  <2> QED
    BY <2>1, <2>2, <2>3, <2>4
<1>8. OnceEach(f)
  BY <1>3, <1>5, Zenon DEF OnceEach
<1>9. \A s : Lists(q, s) <=> Lists(f, s)
  BY <1>3, <1>6, <1>7, <1>n, Zenon DEF Lists
<1>10. ASSUME NEW j \in 1 .. Len(q), NEW k \in 1 .. Len(q), j < k
       PROVE  /\ f[j] # r
              /\ f[k] = r \/ \E a, b \in 1 .. Len(q) : a < b /\ f[j] = q[a] /\ f[k] = q[b]
  <2>1. j # Len(q) /\ j < Len(q) /\ Len(q) \in 1 .. Len(q) /\ j + 1 \in 1 .. Len(q)
    BY <1>n, <1>10, PlaceBefore, Zenon
  <2>2. f[j] # r
    BY <1>4, <1>5, <2>1, Zenon
  <2>3. CASE k = Len(q)
    BY <1>4, <2>2, <2>3, Zenon
  <2>4. CASE k < i
    <3>1. j < i
      BY <1>1, <1>n, <1>10, <2>4
    <3>2. f[j] = q[j] /\ f[k] = q[k]
      BY <1>4, <2>4, <3>1, Zenon
    <3> QED
      BY <1>10, <2>2, <3>2, Zenon
  <2>5. CASE k >= i /\ k < Len(q)
    <3>1. k + 1 \in 1 .. Len(q) /\ j < k + 1 /\ j + 1 < k + 1 /\ (j < i \/ j >= i)
      BY <1>1, <1>n, <1>10, <2>5
    <3>2. f[k] = q[k + 1] /\ (j < i => f[j] = q[j]) /\ (j >= i => f[j] = q[j + 1])
      BY <1>4, <2>1, <2>5, Zenon
    <3> QED
      BY <2>1, <2>2, <3>1, <3>2, Zenon
  <2>6. (k = Len(q) \/ k < Len(q)) /\ (k < i \/ k >= i)
    BY <1>1, <1>n, Places, Zenon
  <2> QED
    BY <2>3, <2>4, <2>5, <2>6, Zenon
<1>11. LastOf(f, q, r)
  <2>1. DOMAIN f = 1 .. Len(q) /\ DOMAIN q = 1 .. Len(q)
    BY <1>3, <1>n, Zenon
  <2> SUFFICES ASSUME NEW j \in DOMAIN f, NEW k \in DOMAIN f, j < k
               PROVE  /\ f[j] # r
                      /\ f[k] = r \/ \E a, b \in DOMAIN q : a < b /\ f[j] = q[a] /\ f[k] = q[b]
    BY Zenon DEF LastOf
  <2>2. j \in 1 .. Len(q) /\ k \in 1 .. Len(q)
    BY <2>1, Zenon
  <2>3. f[k] = r \/ \E a, b \in 1 .. Len(q) : a < b /\ f[j] = q[a] /\ f[k] = q[b]
    BY <1>10, <2>2, Zenon
  <2> QED
    BY <1>10, <2>1, <2>2, <2>3, Zenon
<1> QED
  BY <1>2, <1>3, <1>8, <1>9, <1>11, Zenon

(* The order at the start lists each package with snapshots once. *)
LEMMA OrderFacts ==
    ASSUME NEW T, NEW S \in SUBSET T, IsFiniteSet(S), NEW f \in Bijection(1 .. Cardinality(S), S)
    PROVE  f \in Seq(T) /\ OnceEach(f) /\ \A r : r \in S <=> Lists(f, r)
<1> DEFINE n == Cardinality(S)
<1>1. n \in Nat
  BY FS_CardinalityType, Zenon
<1>2. f \in [1 .. n -> S] /\ IsInjective(f) /\ f \in Surjection(1 .. n, S)
  BY Zenon DEF Bijection, Injection
<1> HIDE DEF n
<1>3. f \in Seq(T) /\ DOMAIN f = 1 .. n
  BY <1>1, <1>2
<1>4. \A r : r \in S <=> Lists(f, r)
  BY <1>2, <1>3, Zenon DEF Surjection, Lists
<1> QED
  BY <1>2, <1>3, <1>4, Zenon DEF IsInjective, OnceEach

(* A tick of the orchestrator takes in every package with snapshots. *)
LEMMA OrderFits ==
    ASSUME order \in Seq(Tracked), OnceEach(order)
    PROVE  Len(order) <= DetectBatch
<1>1. Len(order) \in Nat /\ order \in [1 .. Len(order) -> Tracked]
  OBVIOUS
<1>2. order \in Injection(1 .. Len(order), Tracked)
  BY <1>1, Zenon DEF Injection, IsInjective, OnceEach
<1>3. Cardinality(1 .. Len(order)) = Len(order)
  BY <1>1, FS_Interval
<1>4. Len(order) <= Cardinality(Tracked)
  <2>1. Cardinality(1 .. Len(order)) <= Cardinality(Tracked)
    BY <1>2, FS_Injection, PipelineAssumption, Zenon
  <2> QED
    BY <1>3, <2>1, Zenon
<1>5. Cardinality(Tracked) \in Nat
  BY FS_CardinalityType, PipelineAssumption, Zenon
<1> QED
  BY <1>1, <1>4, <1>5, PipelineAssumption

LEMMA OneSnapshot ==
    ASSUME NEW r \in Tracked
    PROVE  SnapshotsOf(r) \subseteq Snapshots
  BY Zenon DEF Snapshots

-----------------------------------------------------------------------------
LEMMA InitPInv == Init => PInv
<1> SUFFICES ASSUME Init PROVE PInv
  BY Zenon
<1> DEFINE W == { r \in Tracked : Start[r] # <<>> }
<1>0. IsFiniteSet(W)
  BY FS_Subset, PipelineAssumption, Zenon
<1>w. order \in Bijection(1 .. Cardinality(W), W) /\ W \in SUBSET Tracked /\ \A r \in Tracked : r \in W <=> hist[r] # <<>>
  BY Zenon DEF Init
<1> HIDE DEF W
<1>1. order \in Seq(Tracked) /\ OnceEach(order) /\ \A r : r \in W <=> Lists(order, r)
  BY <1>0, <1>w, OrderFacts, Zenon
<1> USE DEF Init
<1>3. ASSUME NEW r \in Tracked
      PROVE  alerted[r] = Raised(hist[r]) /\ Raised(hist[r]) \in SUBSET {"drift", "oidc", "jump"}
  BY RaisedKinds, Zenon
<1>4. Shapes
  <2>1. alerted \in [Tracked -> SUBSET {"drift", "oidc", "jump"}]
    BY <1>3, Zenon
  <2>2. sched \in SchedStates
    BY PipelineAssumption DEF SchedStates, SchedIdle
  <2>3. orch \in OrchStates
    BY DEF OrchStates, OrchIdle
  <2>4. faults \in 0 .. MaxFaults
    BY PipelineAssumption
  <2> QED
    BY <1>1, <2>1, <2>2, <2>3, <2>4, PipelineAssumption, Zenon DEF Shapes
<1>5. OrderOK
  <2>1. Sorted(order, age)
    BY <1>1 DEF Sorted
  <2> QED
    BY <1>1, <1>w, <2>1, Zenon DEF OrderOK
<1>6. SchedOK
  BY DEF SchedOK, SchedIdle
<1>7. OrchOK
  BY <1>3 DEF OrchOK, OrchIdle
<1>8. DueOK
  BY <1>3, Zenon DEF DueOK, Handled
<1> QED
  BY <1>4, <1>5, <1>6, <1>7, <1>8 DEF PInv

LEMMA FaultsStay ==
    ASSUME faults \in 0 .. MaxFaults, Fault \/ UNCHANGED faults
    PROVE  faults' \in 0 .. MaxFaults
  BY PipelineAssumption DEF Fault

(* The scheduler goes on: the packages it has left are of the same batch. *)
LEMMA NextPackageFacts ==
    ASSUME PInv, sched.pc # "idle"
    PROVE  /\ NextPackage \in SchedStates /\ NextPackage.pc # "save"
           /\ NextPackage.pc = "idle" <=> NextPackage.todo = <<>>
           /\ \A i \in DOMAIN NextPackage.todo :
                 \E j \in DOMAIN sched.todo : NextPackage.todo[i] = sched.todo[j]
<1>1. sched.todo \in Seq(Tracked) /\ sched.todo # <<>>
  BY Zenon DEF PInv, Shapes, SchedStates, SchedOK
<1>2. /\ Tail(sched.todo) \in Seq(Tracked)
      /\ Len(sched.todo) > 1 <=> Tail(sched.todo) # <<>>
      /\ \A i \in DOMAIN Tail(sched.todo) :
            i + 1 \in DOMAIN sched.todo /\ Tail(sched.todo)[i] = sched.todo[i + 1]
  BY <1>1, TailFacts, Zenon
<1> DEFINE n == Len(sched.todo)
           rest == Tail(sched.todo)
<1>3. NextPackage = [SchedIdle EXCEPT !.pc = IF n > 1 THEN "fetch" ELSE "idle", !.todo = rest]
  BY Zenon DEF NextPackage
<1>4. rest \in Seq(Tracked) /\ (n > 1 <=> rest # <<>>)
  BY <1>2, Zenon
<1> HIDE DEF n, rest
<1>5. NextPackage \in SchedStates
  <2>1. SchedIdle \in SchedStates
    BY PipelineAssumption DEF SchedStates, SchedIdle
  <2>2. ASSUME NEW a \in {"fetch", "idle"}
        PROVE  [SchedIdle EXCEPT !.pc = a, !.todo = rest] \in SchedStates
    BY <1>4, <2>1, Zenon DEF SchedStates
  <2> QED
    BY <1>3, <2>2, Zenon
<1>6. NextPackage.todo = rest /\ NextPackage.pc = IF n > 1 THEN "fetch" ELSE "idle"
  BY <1>3, Zenon DEF SchedIdle
<1> QED
  BY <1>2, <1>4, <1>5, <1>6, Zenon DEF rest

(* A step of the scheduler that saves nothing. *)
SchedulerMoves ==
    /\ Fault \/ UNCHANGED faults
    /\ sTicked' \in BOOLEAN
    /\ UNCHANGED <<upstream, hist, order, age, orchVars, examined, alerted, spoiled>>

LEMMA SchedulerMovesPInv ==
    ASSUME PInv, SchedulerMoves, sched' \in SchedStates, SchedOK'
    PROVE  PInv'
<1> USE DEF SchedulerMoves, orchVars
<1>1. Shapes'
  BY FaultsStay, Zenon DEF PInv, Shapes
<1>2. OrderOK'
  BY Zenon DEF PInv, OrderOK
<1>3. OrchOK'
  BY Zenon DEF PInv, OrchOK
<1>4. DueOK'
  BY Zenon DEF PInv, DueOK, Handled, Coming, InProgress
<1> QED
  BY <1>1, <1>2, <1>3, <1>4 DEF PInv

LEMMA SkipPInv ==
    ASSUME PInv, SchedulerMoves, sched.pc # "idle", SkipPackage
    PROVE  PInv'
<1>1. sched' = NextPackage
  BY Zenon DEF SkipPackage
<1>2. SchedOK'
  BY <1>1, NextPackageFacts, Zenon DEF PInv, SchedOK, SchedulerMoves
<1> QED
  BY <1>1, <1>2, NextPackageFacts, SchedulerMovesPInv, Zenon

LEMMA SchedulerTickPInv == ASSUME PInv, SchedulerTick PROVE PInv'
<1>0. SchedulerMoves
  BY Zenon DEF SchedulerTick, SchedulerMoves
<1>1. CASE UNCHANGED sched
  <2>1. sched' \in SchedStates /\ SchedOK'
    BY <1>0, <1>1, Zenon DEF PInv, Shapes, SchedOK, SchedulerMoves
  <2> QED
    BY <1>0, <2>1, SchedulerMovesPInv, Zenon
<1>2. ASSUME NEW n \in 0 .. Len(order), \A i \in 1 .. Len(order) : i <= n <=> Stale(order[i]),
             sched' = LET refs == Batch(SubSeq(order, 1, n), BatchSize)
                      IN  [SchedIdle EXCEPT !.pc = IF refs = <<>> THEN "idle" ELSE "fetch",
                                            !.todo = refs]
      PROVE  PInv'
  <2> DEFINE stale == SubSeq(order, 1, n)
             refs == Batch(stale, BatchSize)
  <2>0. order \in Seq(Tracked) /\ Len(order) \in Nat /\ DOMAIN order = 1 .. Len(order)
    BY DEF PInv, Shapes
  <2>1. stale \in Seq(Tracked) /\ DOMAIN stale = 1 .. n /\ \A i \in 1 .. n : stale[i] = order[i]
    BY <2>0
  <2>2. /\ refs \in Seq(Tracked)
        /\ \A i \in DOMAIN refs : i \in DOMAIN stale /\ refs[i] = stale[i]
    <3>1. BatchSize \in Nat
      BY PipelineAssumption, Zenon
    <3> QED
      BY <2>1, <3>1, BatchFacts, Zenon
  <2> HIDE DEF refs, stale
  <2>3. sched' = [pc |-> IF refs = <<>> THEN "idle" ELSE "fetch", todo |-> refs,
                  attempt |-> 0, snap |-> <<>>]
    BY <1>2, Zenon DEF SchedIdle, refs, stale
  <2>4. ASSUME NEW i \in DOMAIN refs
        PROVE  hist[refs[i]] # <<>> /\ age[refs[i]] # "last"
    <3>1. i \in 1 .. n /\ i \in 1 .. Len(order) /\ i <= n /\ refs[i] = order[i]
      BY <2>0, <2>1, <2>2
    <3>2. age[order[i]] = "old" /\ order[i] \in Tracked
      BY <1>2, <2>0, <3>1 DEF Stale
    <3> QED
      BY <2>0, <3>1, <3>2, Zenon DEF PInv, OrderOK, Lists
  <2>5. sched' \in SchedStates
    BY <2>2, <2>3, PipelineAssumption DEF SchedStates
  <2>6. SchedOK'
    BY <1>0, <2>3, <2>4, Zenon DEF SchedOK, SchedulerMoves
  <2> QED
    BY <1>0, <2>5, <2>6, SchedulerMovesPInv
<1> QED
  BY <1>1, <1>2, Zenon DEF SchedulerTick

LEMMA IngestPInv == ASSUME PInv, Ingest PROVE PInv'
<1>0. SchedulerMoves
  BY Zenon DEF Ingest, SchedulerMoves, PInv, Shapes
<1>1. sched.todo \in Seq(Tracked) /\ sched.todo # <<>> /\ sched.pc = "fetch"
  BY Zenon DEF Ingest, PInv, Shapes, SchedStates, SchedOK
<1>2. Head(sched.todo) = sched.todo[1] /\ sched.todo[1] \in Tracked
  BY <1>1, TailFacts, Zenon
<1>3. Snapshot(sched.todo[1], upstream[sched.todo[1]]) \in SnapshotsOf(sched.todo[1])
  BY <1>2, Zenon DEF PInv, Shapes, SnapshotsOf
<1>4. Snapshot(sched.todo[1], upstream[sched.todo[1]]) \in Snapshots
  BY <1>2, <1>3, OneSnapshot, Zenon
<1>5. sched' = [sched EXCEPT !.pc = "save",
                             !.snap = Snapshot(sched.todo[1], upstream[sched.todo[1]])]
  BY <1>2, Zenon DEF Ingest
<1>6. sched' \in SchedStates
  BY <1>4, <1>5, Zenon DEF PInv, Shapes, SchedStates
<1>7. /\ sched'.pc = "save" /\ sched'.todo = sched.todo
      /\ sched'.snap = Snapshot(sched.todo[1], upstream[sched.todo[1]])
  BY <1>5, Zenon DEF PInv, Shapes, SchedStates
<1>8. SchedOK'
  BY <1>0, <1>1, <1>3, <1>7 DEF PInv, SchedOK, SchedulerMoves
<1> QED
  BY <1>0, <1>6, <1>8, SchedulerMovesPInv

LEMMA GetPInv == ASSUME PInv, Get PROVE PInv'
<1>0. SchedulerMoves /\ sched.pc = "fetch"
  BY Zenon DEF Get, RequestFails, SchedulerMoves, PInv, Shapes
<1>1. CASE MayRetry /\ sched' = [sched EXCEPT !.attempt = @ + 1]
  <2>0. sched \in SchedStates /\ sched.attempt + 1 \in 0 .. MaxRetries
    BY <1>1, PipelineAssumption DEF PInv, Shapes, SchedStates, MayRetry
  <2>1. sched' \in SchedStates
    BY <1>1, <2>0, Zenon DEF SchedStates
  <2>2. sched'.pc = sched.pc /\ sched'.todo = sched.todo /\ sched'.snap = sched.snap
    BY <1>1, Zenon DEF PInv, Shapes, SchedStates
  <2>3. SchedOK'
    BY <1>0, <2>2, Zenon DEF PInv, SchedOK, SchedulerMoves
  <2> QED
    BY <1>0, <2>1, <2>3, SchedulerMovesPInv, Zenon
<1>2. CASE SkipPackage
  BY <1>0, <1>2, SkipPInv, Zenon
<1> QED
  BY <1>1, <1>2, Zenon DEF Get

LEMMA GiveUpPInv == ASSUME PInv, GiveUp PROVE PInv'
<1>0. SchedulerMoves /\ sched.pc = "fetch" /\ SkipPackage
  BY Zenon DEF GiveUp, RequestFails, SchedulerMoves, PInv, Shapes
<1> QED
  BY <1>0, SkipPInv, Zenon

(* A package is saved: it is fresh, and nothing is known of its new snapshot. *)
SaveEffect(r) ==
    /\ hist' = [hist EXCEPT ![r] = Batch(<<sched.snap>> \o @, HistoryDepth)]
    /\ order' = MoveToEnd(order, r)
    /\ age' = [age EXCEPT ![r] = "now"]
    /\ examined' = examined \ {r}
    /\ alerted' = [alerted EXCEPT ![r] = {}]
    /\ spoiled' = spoiled \ {r}
    /\ sched' = NextPackage
    /\ UNCHANGED <<faults, upstream, releases, sTicked, orchVars>>

LEMMA SavedHistory ==
    ASSUME NEW S, NEW h \in Seq(S), NEW x \in S, NEW n \in Nat \ {0}
    PROVE  Batch(<<x>> \o h, n) \in Seq(S) /\ Len(Batch(<<x>> \o h, n)) <= n
           /\ Batch(<<x>> \o h, n) # <<>>
<1> DEFINE q == <<x>> \o h
<1>1. q \in Seq(S) /\ Len(q) \in Nat /\ Len(q) > 0
  OBVIOUS
<1> HIDE DEF q
<1>2. Batch(q, n) \in Seq(S) /\ Len(Batch(q, n)) = IF n < Len(q) THEN n ELSE Len(q)
  BY <1>1, BatchFacts, Zenon
<1>3. Len(Batch(q, n)) <= n /\ Len(Batch(q, n)) > 0
  BY <1>1, <1>2
<1>4. Batch(q, n) # <<>>
  BY <1>2, <1>3
<1> QED
  BY <1>2, <1>3, <1>4, Zenon DEF q

LEMMA SaveEffectPInv ==
    ASSUME PInv, sched.pc = "save", SaveEffect(sched.todo[1])
    PROVE  PInv'
<1> DEFINE r == sched.todo[1]
<1>0. sched.todo \in Seq(Tracked) /\ sched.todo # <<>> /\ r \in Tracked /\ 1 \in DOMAIN sched.todo
  <2>1. sched.todo \in Seq(Tracked) /\ sched.todo # <<>>
    BY Zenon DEF PInv, Shapes, SchedStates, SchedOK
  <2> QED
    BY <2>1, TailFacts, Zenon
<1>1. hist[r] # <<>> /\ age[r] # "last" /\ sched.snap \in SnapshotsOf(r)
  BY <1>0, Zenon DEF PInv, SchedOK
<1> HIDE DEF r
<1>e. SaveEffect(r)
  BY Zenon DEF r
<1>2. /\ \A s \in Tracked : s # r => /\ hist'[s] = hist[s] /\ age'[s] = age[s]
                                     /\ alerted'[s] = alerted[s]
                                     /\ s \in examined' <=> s \in examined
                                     /\ s \in spoiled' <=> s \in spoiled
      /\ hist'[r] = Batch(<<sched.snap>> \o hist[r], HistoryDepth)
      /\ age'[r] = "now" /\ alerted'[r] = {} /\ r \notin examined'
  BY <1>0, <1>e DEF PInv, Shapes, SaveEffect
<1>3. hist'[r] \in Seq(SnapshotsOf(r)) /\ Len(hist'[r]) <= HistoryDepth /\ hist'[r] # <<>>
  <2>1. hist[r] \in Seq(SnapshotsOf(r)) /\ HistoryDepth \in Nat \ {0}
    BY <1>0, PipelineAssumption, Zenon DEF PInv, Shapes
  <2>2. LET h == Batch(<<sched.snap>> \o hist[r], HistoryDepth)
        IN  h \in Seq(SnapshotsOf(r)) /\ Len(h) <= HistoryDepth /\ h # <<>>
    BY <1>1, <2>1, SavedHistory, Zenon
  <2> QED
    BY <1>2, <2>2, Zenon
<1>4. \A s \in Tracked : hist'[s] # <<>> <=> hist[s] # <<>>
  BY <1>1, <1>2, <1>3
<1>5. /\ order' \in Seq(Tracked) /\ OnceEach(order)' /\ LastOf(order', order, r)
      /\ \A s : Lists(order, s) <=> Lists(order', s)
  <2>1. order \in Seq(Tracked) /\ Lists(order, r) /\ OnceEach(order) /\ order' = MoveToEnd(order, r)
    BY <1>0, <1>1, <1>e, Zenon DEF PInv, Shapes, OrderOK, SaveEffect
  <2> QED
    BY <1>0, <2>1, MoveToEndFacts, Zenon
<1>6. Shapes'
  <2>1. hist' \in [Tracked -> Seq(Snapshots)]
    <3>1. hist'[r] \in Seq(Snapshots)
      BY <1>0, <1>3, OneSnapshot
    <3>2. hist' = [hist EXCEPT ![r] = hist'[r]] /\ hist \in [Tracked -> Seq(Snapshots)]
      BY <1>2, <1>e, Zenon DEF SaveEffect, PInv, Shapes
    <3> QED
      BY <3>1, <3>2, Zenon
  <2>2. \A s \in Tracked : hist'[s] \in Seq(SnapshotsOf(s)) /\ Len(hist'[s]) <= HistoryDepth
    BY <1>2, <1>3, Zenon DEF PInv, Shapes
  <2>3. age' \in [Tracked -> {"now", "last", "old"}]
    BY <1>e, Zenon DEF SaveEffect, PInv, Shapes
  <2>4. sched' \in SchedStates
    BY <1>e, NextPackageFacts, Zenon DEF SaveEffect
  <2>5. alerted' \in [Tracked -> SUBSET {"drift", "oidc", "jump"}]
    BY <1>e, Zenon DEF SaveEffect, PInv, Shapes
  <2>6. examined' \in SUBSET Tracked /\ spoiled' \in SUBSET Tracked
    BY <1>e, Zenon DEF SaveEffect, PInv, Shapes
  <2> QED
    <3>1. UNCHANGED <<faults, upstream, sTicked, orch, oTicked>>
      BY <1>e, Zenon DEF SaveEffect, orchVars
    <3> QED
      BY <1>5, <2>1, <2>2, <2>3, <2>4, <2>5, <2>6, <3>1 DEF PInv, Shapes
<1>7. OrderOK'
  <2>1. \A s \in Tracked : age'[s] # "old" => hist'[s] # <<>>
    BY <1>2, <1>3, <1>4, Zenon DEF PInv, OrderOK
  <2>2. ASSUME NEW i \in DOMAIN order', NEW j \in DOMAIN order', i < j
        PROVE  /\ age'[order'[i]] = "now" => age'[order'[j]] = "now"
               /\ age'[order'[j]] = "old" => age'[order'[i]] = "old"
    <3>1. order'[i] \in Tracked /\ order'[j] \in Tracked
      BY <1>5
    <3>2. /\ order'[i] # r
          /\ order'[j] = r \/ \E a, b \in DOMAIN order :
                                a < b /\ order'[i] = order[a] /\ order'[j] = order[b]
      BY <1>5, <2>2, Zenon DEF LastOf
    <3>3. CASE order'[j] = r
      BY <1>2, <3>3, Zenon
    <3>4. CASE order'[j] # r
      <4>1. PICK a, b \in DOMAIN order : a < b /\ order'[i] = order[a] /\ order'[j] = order[b]
        BY <3>2, <3>4, Zenon
      <4>2. /\ age[order[a]] = "now" => age[order[b]] = "now"
            /\ age[order[b]] = "old" => age[order[a]] = "old"
        BY <4>1, Zenon DEF PInv, OrderOK, Sorted
      <4>3. age'[order'[i]] = age[order[a]] /\ age'[order'[j]] = age[order[b]]
        BY <1>2, <3>1, <3>2, <3>4, <4>1, Zenon
      <4> QED
        BY <4>2, <4>3, Zenon
    <3> QED
      BY <3>3, <3>4, Zenon
  <2>3. Sorted(order', age')
    BY <2>2, Zenon DEF Sorted
  <2> QED
    BY <1>4, <1>5, <2>1, <2>3 DEF PInv, OrderOK
<1>8. SchedOK'
  <2>1. sched' = NextPackage
    BY <1>e, Zenon DEF SaveEffect
  <2>2. ASSUME NEW i \in DOMAIN NextPackage.todo
        PROVE  hist'[NextPackage.todo[i]] # <<>> /\ age'[NextPackage.todo[i]] # "last"
    <3>1. PICK j \in DOMAIN sched.todo : NextPackage.todo[i] = sched.todo[j]
      BY NextPackageFacts, Zenon
    <3>2. sched.todo[j] \in Tracked /\ hist[sched.todo[j]] # <<>> /\ age[sched.todo[j]] # "last"
      BY <1>0 DEF PInv, SchedOK
    <3> QED
      BY <1>2, <1>4, <3>1, <3>2
  <2> QED
    BY <2>1, <2>2, NextPackageFacts, Zenon DEF SchedOK
<1>9. OrchOK'
  <2>1. orch' = orch /\ oTicked' = oTicked
    BY <1>e, Zenon DEF SaveEffect, orchVars
  <2>2. \A i \in DOMAIN orch.todo : orch.todo[i] \in Tracked
    BY DEF PInv, Shapes, OrchStates
  <2>3. orch.pc \in {"save", "emit"} => 1 \in DOMAIN orch.todo
    <3>1. orch.todo \in Seq(Tracked) /\ (orch.pc \in {"save", "emit"} => orch.todo # <<>>)
      BY Zenon DEF PInv, Shapes, OrchStates, OrchOK
    <3> QED
      BY <3>1, TailFacts, Zenon
  <2>4. \A s \in Tracked : alerted'[s] \subseteq Raised(hist'[s])
    BY <1>2, Zenon DEF PInv, OrchOK
  <2>5. orch.pc \in {"save", "emit"} /\ orch.todo[1] \in examined'
           => Kinds(orch.found) \subseteq Raised(hist'[orch.todo[1]])
    BY <1>2, <2>2, <2>3, Zenon DEF PInv, OrchOK
  <2> QED
    BY <1>4, <2>1, <2>2, <2>4, <2>5 DEF PInv, OrchOK
<1>10. DueOK'
  <2> SUFFICES ASSUME NEW s \in Tracked, s # r
               PROVE  \/ s \in spoiled' \/ age'[s] = "now" \/ Handled(s)'
                      \/ age'[s] = "last" /\ (~oTicked' \/ Coming(s)')
    BY <1>2, Zenon DEF DueOK
  <2>1. orch' = orch /\ oTicked' = oTicked
    BY <1>e, Zenon DEF SaveEffect, orchVars
  <2>2. (Handled(s) => Handled(s)') /\ (Coming(s) => Coming(s)')
    BY <1>2, <2>1, Zenon DEF Handled, Coming, InProgress
  <2> QED
    BY <1>2, <2>1, <2>2 DEF PInv, DueOK
<1> QED
  BY <1>6, <1>7, <1>8, <1>9, <1>10 DEF PInv

LEMMA SavePublisherSnapshotPInv == ASSUME PInv, SavePublisherSnapshot PROVE PInv'
<1>0. sched.todo \in Seq(Tracked) /\ sched.todo # <<>> /\ sched.pc = "save"
  BY Zenon DEF SavePublisherSnapshot, PInv, Shapes, SchedStates, SchedOK
<1>1. Head(sched.todo) = sched.todo[1]
  BY <1>0, TailFacts, Zenon
<1>2. SaveEffect(sched.todo[1]) \/ (SchedulerMoves /\ SkipPackage)
  BY <1>1, Zenon DEF SavePublisherSnapshot, SaveEffect, SchedulerMoves, SkipPackage, PInv, Shapes
<1> QED
  BY <1>0, <1>2, SaveEffectPInv, SkipPInv

-----------------------------------------------------------------------------
(* The orchestrator goes on to the next package, if there is one. *)
LEMMA NextRefFacts ==
    ASSUME PInv, orch.pc # "idle"
    PROVE  /\ NextRef \in OrchStates /\ NextRef.found = <<>> /\ NextRef.pc \in {"idle", "read"}
           /\ NextRef.pc = "idle" <=> NextRef.todo = <<>>
           /\ \A i \in DOMAIN NextRef.todo :
                 \E j \in DOMAIN orch.todo : NextRef.todo[i] = orch.todo[j]
           /\ \A j \in DOMAIN orch.todo :
                 j > 1 => /\ NextRef.pc = "read"
                          /\ \E i \in DOMAIN NextRef.todo : NextRef.todo[i] = orch.todo[j]
<1>1. orch.todo \in Seq(Tracked) /\ orch.todo # <<>>
  BY Zenon DEF PInv, Shapes, OrchStates, OrchOK
<1> DEFINE n == Len(orch.todo)
           rest == Tail(orch.todo)
<1>2. /\ rest \in Seq(Tracked) /\ (n > 1 <=> rest # <<>>)
      /\ \A i \in DOMAIN rest : i + 1 \in DOMAIN orch.todo /\ rest[i] = orch.todo[i + 1]
      /\ \A j \in DOMAIN orch.todo : j > 1 => j - 1 \in DOMAIN rest /\ rest[j - 1] = orch.todo[j]
  BY <1>1, TailFacts, Zenon
<1>3. NextRef = [OrchIdle EXCEPT !.pc = IF n > 1 THEN "read" ELSE "idle", !.todo = rest]
  BY Zenon DEF NextRef
<1>4. \A j \in DOMAIN orch.todo : j > 1 => n > 1
  BY <1>1
<1> HIDE DEF n, rest
<1>5. NextRef \in OrchStates
  <2>1. OrchIdle \in OrchStates
    BY DEF OrchStates, OrchIdle
  <2>2. ASSUME NEW a \in {"read", "idle"}
        PROVE  [OrchIdle EXCEPT !.pc = a, !.todo = rest] \in OrchStates
    BY <1>2, <2>1, Zenon DEF OrchStates
  <2> QED
    BY <1>3, <2>2, Zenon
<1>6. /\ NextRef.todo = rest /\ NextRef.found = <<>>
      /\ NextRef.pc = IF n > 1 THEN "read" ELSE "idle"
  BY <1>3, Zenon DEF OrchIdle
<1> QED
  BY <1>2, <1>4, <1>5, <1>6

(* A step of the orchestrator leaves the scheduler and its tables alone. *)
OrchestratorMoves ==
    /\ Fault \/ UNCHANGED faults
    /\ oTicked' \in BOOLEAN
    /\ examined \subseteq examined' /\ examined' \subseteq Tracked
    /\ spoiled \subseteq spoiled' /\ spoiled' \subseteq Tracked
    /\ UNCHANGED <<upstream, hist, order, age, sched, sTicked>>

LEMMA OrchestratorMovesPInv ==
    ASSUME PInv, OrchestratorMoves, orch' \in OrchStates, OrchOK', DueOK',
           alerted' \in [Tracked -> SUBSET {"drift", "oidc", "jump"}]
    PROVE  PInv'
<1> USE DEF OrchestratorMoves
<1>1. Shapes'
  BY FaultsStay, Zenon DEF PInv, Shapes
<1>2. OrderOK'
  BY Zenon DEF PInv, OrderOK
<1>3. SchedOK'
  BY Zenon DEF PInv, SchedOK
<1> QED
  BY <1>1, <1>2, <1>3, Zenon DEF PInv

(* On to the next package: those handled stay so, those still to come are   *)
(* still to come, and the one in hand must have been handled or have failed. *)
LEMMA NextRefPInv ==
    ASSUME PInv, OrchestratorMoves, orch.pc # "idle", orch' = NextRef, UNCHANGED oTicked,
           alerted' \in [Tracked -> SUBSET {"drift", "oidc", "jump"}],
           \A r \in Tracked : alerted[r] \subseteq alerted'[r] /\ alerted'[r] \subseteq Raised(hist[r]),
           \A r \in Tracked : r = orch.todo[1] /\ InProgress(r) => r \in spoiled' \/ Handled(r)'
    PROVE  PInv'
<1>1. orch' \in OrchStates
  BY NextRefFacts, Zenon
<1>2. \A i \in DOMAIN orch.todo : hist[orch.todo[i]] # <<>>
  BY Zenon DEF PInv, OrchOK
<1>3. OrchOK'
  BY <1>2, NextRefFacts DEF OrchOK, OrchestratorMoves
<1>4. DueOK'
  <2> SUFFICES ASSUME NEW r \in Tracked
               PROVE  \/ r \in spoiled' \/ age'[r] = "now" \/ Handled(r)'
                      \/ age'[r] = "last" /\ (~oTicked' \/ Coming(r)')
    BY Zenon DEF DueOK
  <2>1. hist'[r] = hist[r] /\ age'[r] = age[r] /\ (r \in spoiled => r \in spoiled')
    BY Zenon DEF OrchestratorMoves
  <2>2. Handled(r) => Handled(r)'
    BY Zenon DEF Handled, OrchestratorMoves
  <2>3. ASSUME Coming(r)
        PROVE  Coming(r)' \/ r \in spoiled' \/ Handled(r)'
    <3>1. PICK i \in DOMAIN orch.todo : orch.todo[i] = r /\ (i > 1 \/ InProgress(r))
      BY <2>3, Zenon DEF Coming
    <3>2. CASE i > 1
      BY <3>1, <3>2, NextRefFacts, Zenon DEF Coming, InProgress
    <3>3. CASE i = 1
      BY <3>1, <3>3
    <3>4. i \in Nat /\ i >= 1
      BY DEF PInv, Shapes, OrchStates
    <3> QED
      BY <3>2, <3>3, <3>4
  <2> QED
    BY <2>1, <2>2, <2>3, Zenon DEF PInv, DueOK
<1> QED
  BY <1>1, <1>3, <1>4, OrchestratorMovesPInv

(* The package in hand. *)
LEMMA InHand ==
    ASSUME PInv, orch.pc # "idle"
    PROVE  /\ Head(orch.todo) = orch.todo[1] /\ orch.todo[1] \in Tracked /\ 1 \in DOMAIN orch.todo
           /\ orch.todo \in Seq(Tracked) /\ orch.todo # <<>>
<1>1. orch.todo \in Seq(Tracked) /\ orch.todo # <<>>
  BY Zenon DEF PInv, Shapes, OrchStates, OrchOK
<1> QED
  BY <1>1, TailFacts, Zenon

LEMMA OrchestratorTickPInv == ASSUME PInv, OrchestratorTick PROVE PInv'
<1> USE DEF OrchestratorTick
<1>0. OrchestratorMoves /\ orch.todo = <<>> /\ orch.found = <<>> /\ UNCHANGED <<examined, alerted>>
  BY Zenon DEF OrchestratorMoves, schedVars, Spoil, PInv, Shapes, OrchOK
<1>1. CASE Spoil(Tracked) /\ UNCHANGED orch
  <2>1. orch' \in OrchStates /\ OrchOK' /\ alerted' \in [Tracked -> SUBSET {"drift", "oidc", "jump"}]
    BY <1>0, <1>1, Zenon DEF PInv, Shapes, OrchOK, OrchestratorMoves
  <2>2. DueOK'
    BY <1>1, Zenon DEF Spoil, DueOK
  <2> QED
    BY <1>0, <2>1, <2>2, OrchestratorMovesPInv
<1>2. CASE /\ orch' = LET refs == Batch(order, DetectBatch)
                      IN  [OrchIdle EXCEPT !.pc = IF refs = <<>> THEN "idle" ELSE "read", !.todo = refs]
           /\ UNCHANGED <<spoiled, faults>>
  <2> DEFINE refs == Batch(order, DetectBatch)
  <2>0. order \in Seq(Tracked) /\ DetectBatch \in Nat /\ Len(order) <= DetectBatch
    BY OrderFits, PipelineAssumption, Zenon DEF PInv, Shapes, OrderOK
  <2>1. /\ refs \in Seq(Tracked)
        /\ \A i \in DOMAIN refs : i \in DOMAIN order /\ refs[i] = order[i]
        /\ \A i \in DOMAIN order : i \in DOMAIN refs
    <3>1. /\ refs \in Seq(Tracked) /\ Len(refs) = IF DetectBatch < Len(order) THEN DetectBatch ELSE Len(order)
          /\ \A i \in DOMAIN refs : i \in DOMAIN order /\ refs[i] = order[i]
      BY <2>0, BatchFacts, Zenon
    <3> HIDE DEF refs
    <3>2. Len(refs) = Len(order)
      BY <2>0, <3>1
    <3> QED
      BY <2>0, <3>1, <3>2
  <2> HIDE DEF refs
  <2>2. orch' = [OrchIdle EXCEPT !.pc = IF refs = <<>> THEN "idle" ELSE "read", !.todo = refs]
    BY <1>2, Zenon DEF refs
  <2>3. orch' \in OrchStates
    <3>1. OrchIdle \in OrchStates
      BY DEF OrchStates, OrchIdle
    <3>2. ASSUME NEW a \in {"read", "idle"}
          PROVE  [OrchIdle EXCEPT !.pc = a, !.todo = refs] \in OrchStates
      BY <2>1, <3>1, Zenon DEF OrchStates
    <3> QED
      BY <2>2, <3>2, Zenon
  <2>4. /\ orch'.todo = refs /\ orch'.found = <<>>
        /\ orch'.pc = IF refs = <<>> THEN "idle" ELSE "read"
    BY <2>2, Zenon DEF OrchIdle
  <2>5. OrchOK'
    <3>1. \A i \in DOMAIN refs : hist[refs[i]] # <<>>
      BY <2>0, <2>1 DEF PInv, OrderOK, Lists
    <3> QED
      BY <1>0, <2>4, <3>1 DEF OrchOK, OrchestratorMoves, PInv
  <2>6. DueOK'
    <3> SUFFICES ASSUME NEW r \in Tracked, age[r] = "last"
                 PROVE  Coming(r)'
      BY <1>0, <1>2, Zenon DEF DueOK, Handled, OrchestratorMoves, PInv, Coming
    <3>1. PICK i \in DOMAIN order : order[i] = r
      BY Zenon DEF PInv, OrderOK, Lists
    <3>2. i \in DOMAIN refs /\ refs[i] = r /\ refs # <<>>
      BY <2>0, <2>1, <3>1
    <3> QED
      BY <2>4, <3>2, Zenon DEF Coming, InProgress
  <2>7. alerted' \in [Tracked -> SUBSET {"drift", "oidc", "jump"}]
    BY <1>0, Zenon DEF PInv, Shapes
  <2> QED
    BY <1>0, <2>3, <2>5, <2>6, <2>7, OrchestratorMovesPInv
<1> QED
  BY <1>1, <1>2, Zenon

(* Reading a history: what it shows is now to be raised, or there is nothing *)
(* to raise, or the package failed.                                          *)
LEMMA GetPublisherHistoryPInv == ASSUME PInv, GetPublisherHistory PROVE PInv'
<1>r. PICK r \in Tracked : r = orch.todo[1]
  BY InHand, Zenon DEF GetPublisherHistory
<1> DEFINE found == Detect(hist[r])
<1>0. /\ orch.pc = "read" /\ Head(orch.todo) = r /\ 1 \in DOMAIN orch.todo
      /\ orch.todo \in Seq(Tracked) /\ orch.todo # <<>>
  BY <1>r, InHand, Zenon DEF GetPublisherHistory
<1>1. \/ /\ orch' = IF found = <<>> THEN NextRef ELSE [orch EXCEPT !.pc = "save", !.found = found]
         /\ examined' = examined \cup {r} /\ UNCHANGED <<spoiled, faults>>
      \/ Fault /\ spoiled' = spoiled \cup {r} /\ orch' = NextRef /\ UNCHANGED examined
  BY <1>0, Zenon DEF GetPublisherHistory, Spoil
<1>2. UNCHANGED <<upstream, releases, schedVars, oTicked, alerted>>
  BY Zenon DEF GetPublisherHistory
<1>3. found \in Seq(Anomalies) /\ Raised(hist[r]) = Kinds(found)
  BY DetectType, RaisedKinds, Zenon
<1> HIDE DEF found
<1>4. OrchestratorMoves
  BY <1>0, <1>1, <1>2, Zenon DEF OrchestratorMoves, schedVars, PInv, Shapes
<1>5. /\ alerted' \in [Tracked -> SUBSET {"drift", "oidc", "jump"}]
      /\ \A s \in Tracked : alerted'[s] = alerted[s] /\ alerted[s] \subseteq Raised(hist[s])
  BY <1>2, Zenon DEF PInv, Shapes, OrchOK
<1>6. CASE orch' = NextRef
  <2>1. r \in spoiled' \/ Handled(r)'
    <3>1. CASE r \in spoiled'
      BY <3>1, Zenon
    <3>2. CASE found = <<>> /\ examined' = examined \cup {r}
      <4>1. Kinds(found) = {}
        BY <3>2 DEF Kinds
      <4>2. hist' = hist
        BY <1>2, Zenon DEF schedVars
      <4> QED
        BY <1>3, <3>2, <4>1, <4>2, Zenon DEF Handled
    <3>3. CASE found # <<>> /\ orch' = [orch EXCEPT !.pc = "save", !.found = found]
      <4>1. orch'.pc = "save"
        BY <3>3, Zenon DEF PInv, Shapes, OrchStates
      <4> QED
        BY <1>0, <1>6, <4>1, NextRefFacts
    <3> QED
      BY <1>1, <3>1, <3>2, <3>3
  <2>2. \A s \in Tracked : s = orch.todo[1] /\ InProgress(s) => s \in spoiled' \/ Handled(s)'
    BY <1>r, <2>1, Zenon
  <2> QED
    BY <1>0, <1>2, <1>4, <1>5, <1>6, <2>2, NextRefPInv
<1>7. CASE /\ found # <<>> /\ orch' = [orch EXCEPT !.pc = "save", !.found = found]
           /\ examined' = examined \cup {r} /\ UNCHANGED <<spoiled, faults>>
  <2>1. /\ orch' \in OrchStates /\ orch'.pc = "save" /\ orch'.todo = orch.todo
        /\ orch'.found = found
    BY <1>3, <1>7, Zenon DEF PInv, Shapes, OrchStates
  <2>2. OrchOK'
    <3>1. \A i \in DOMAIN orch.todo : hist[orch.todo[i]] # <<>>
      BY Zenon DEF PInv, OrchOK
    <3>2. Kinds(found) \subseteq Raised(hist[orch.todo[1]])
      BY <1>3, <1>r, Zenon
    <3>3. hist' = hist
      BY <1>4, Zenon DEF OrchestratorMoves
    <3> QED
      BY <1>0, <1>5, <1>7, <2>1, <3>1, <3>2, <3>3 DEF OrchOK
  <2>3. DueOK'
    <3> SUFFICES ASSUME NEW s \in Tracked
                 PROVE  \/ s \in spoiled' \/ age'[s] = "now" \/ Handled(s)'
                        \/ age'[s] = "last" /\ (~oTicked' \/ Coming(s)')
      BY Zenon DEF DueOK
    <3>1. hist' = hist /\ age' = age /\ oTicked' = oTicked /\ spoiled' = spoiled
      BY <1>2, <1>7, Zenon DEF schedVars
    <3>2. Handled(s) => Handled(s)'
      BY <1>5, <1>7, <3>1 DEF Handled
    <3>3. ASSUME Coming(s)
          PROVE  Coming(s)'
      <4>1. PICK i \in DOMAIN orch.todo : orch.todo[i] = s /\ (i > 1 \/ InProgress(s))
        BY <3>3, Zenon DEF Coming
      <4>2. CASE i > 1
        BY <2>1, <4>1, <4>2, Zenon DEF Coming
      <4>3. CASE i = 1
        <5>1. s = r
          BY <1>r, <4>1, <4>3, Zenon
        <5>2. InProgress(s)'
          BY <1>3, <1>7, <2>1, <3>1, <5>1 DEF InProgress
        <5> QED
          BY <2>1, <4>1, <5>2, Zenon DEF Coming
      <4>4. i \in Nat /\ i >= 1
        BY <1>0
      <4> QED
        BY <4>2, <4>3, <4>4
    <3> QED
      BY <3>1, <3>2, <3>3, Zenon DEF PInv, DueOK
  <2> QED
    BY <1>4, <1>5, <2>1, <2>2, <2>3, OrchestratorMovesPInv
<1> QED
  BY <1>1, <1>6, <1>7, Zenon

(* On to the next anomaly of the package in hand, if there is one. *)
LEMMA NextAnomalyFacts ==
    ASSUME PInv, orch.pc \in {"save", "emit"}
    PROVE  /\ orch.found \in Seq(Anomalies) /\ orch.found # <<>> /\ Head(orch.found) = orch.found[1]
           /\ Kinds(orch.found) = {Head(orch.found).kind} \cup Kinds(Tail(orch.found))
           /\ Kinds(orch.found) \subseteq {"drift", "oidc", "jump"}
           /\ Len(orch.found) > 1 <=> Tail(orch.found) # <<>>
           /\ \/ NextAnomaly = NextRef /\ Tail(orch.found) = <<>>
              \/ /\ NextAnomaly \in OrchStates /\ NextAnomaly.pc = "save"
                 /\ NextAnomaly.todo = orch.todo /\ NextAnomaly.found = Tail(orch.found)
                 /\ Tail(orch.found) # <<>>
<1> DEFINE f == orch.found
<1>1. f \in Seq(Anomalies) /\ f # <<>> /\ orch \in OrchStates
  BY Zenon DEF PInv, Shapes, OrchStates, OrchOK
<1>2. /\ Tail(f) \in Seq(Anomalies) /\ Head(f) = f[1] /\ 1 \in DOMAIN f
      /\ Len(f) > 1 <=> Tail(f) # <<>>
      /\ \A i \in DOMAIN Tail(f) : i + 1 \in DOMAIN f /\ Tail(f)[i] = f[i + 1]
      /\ \A i \in DOMAIN f : i > 1 => i - 1 \in DOMAIN Tail(f) /\ Tail(f)[i - 1] = f[i]
  BY <1>1, TailFacts, Zenon
<1>3. NextAnomaly = IF Len(f) > 1 THEN [orch EXCEPT !.pc = "save", !.found = Tail(f)] ELSE NextRef
  BY Zenon DEF NextAnomaly
<1> HIDE DEF f
<1>4. Kinds(f) = {Head(f).kind} \cup Kinds(Tail(f))
  <2>1. \A i \in DOMAIN f : i = 1 \/ i > 1
    BY <1>1
  <2>2. ASSUME NEW i \in DOMAIN f
        PROVE  f[i].kind \in {Head(f).kind} \cup Kinds(Tail(f))
    BY <1>2, <2>1 DEF Kinds
  <2>3. ASSUME NEW i \in DOMAIN Tail(f)
        PROVE  Tail(f)[i].kind \in Kinds(f)
    BY <1>2, Zenon DEF Kinds
  <2>4. Kinds(f) \subseteq {Head(f).kind} \cup Kinds(Tail(f))
    BY <2>2, Zenon DEF Kinds
  <2>5. Kinds(Tail(f)) \subseteq Kinds(f)
    <3>1. ASSUME NEW x \in Kinds(Tail(f))
          PROVE  x \in Kinds(f)
      <4>1. PICK i \in DOMAIN Tail(f) : x = Tail(f)[i].kind
        BY <3>1, Zenon DEF Kinds
      <4> QED
        BY <2>3, <4>1, Zenon
    <3> QED
      BY <3>1, Zenon
  <2>6. Head(f).kind \in Kinds(f)
    BY <1>2, Zenon DEF Kinds
  <2> QED
    BY <2>4, <2>5, <2>6, Zenon
<1>5. Kinds(f) \subseteq {"drift", "oidc", "jump"}
  <2>1. \A i \in DOMAIN f : f[i] \in Anomalies
    BY <1>1
  <2> QED
    BY <2>1, Zenon DEF Kinds, Anomalies
<1>6. Len(f) > 1 => /\ NextAnomaly \in OrchStates /\ NextAnomaly.pc = "save"
                    /\ NextAnomaly.todo = orch.todo /\ NextAnomaly.found = Tail(f)
  <2>1. ASSUME NEW t \in Seq(Anomalies)
        PROVE  LET x == [orch EXCEPT !.pc = "save", !.found = t]
               IN  x \in OrchStates /\ x.pc = "save" /\ x.todo = orch.todo /\ x.found = t
    BY <1>1, Zenon DEF OrchStates
  <2> QED
    BY <1>2, <1>3, <2>1, Zenon
<1>7. ~(Len(f) > 1) => NextAnomaly = NextRef
  BY <1>3, Zenon
<1> QED
  BY <1>1, <1>2, <1>4, <1>5, <1>6, <1>7, Zenon DEF f

LEMMA NextAnomalyPInv ==
    ASSUME PInv, OrchestratorMoves, orch.pc \in {"save", "emit"}, orch' = NextAnomaly,
           UNCHANGED <<oTicked, examined>>,
           alerted' \in [Tracked -> SUBSET {"drift", "oidc", "jump"}],
           \A s \in Tracked : alerted[s] \subseteq alerted'[s] /\ alerted'[s] \subseteq Raised(hist[s]),
           \/ orch.todo[1] \in spoiled'
           \/ orch.todo[1] \in examined => Head(orch.found).kind \in alerted'[orch.todo[1]]
    PROVE  PInv'
<1> DEFINE r == orch.todo[1]
           rest == Tail(orch.found)
           kind == Head(orch.found).kind
<1>0. /\ r \in Tracked /\ 1 \in DOMAIN orch.todo /\ orch.todo \in Seq(Tracked) /\ orch.todo # <<>>
      /\ orch.pc # "idle" /\ orch.pc # "read" /\ orch.pc \in {"save", "emit"}
  BY InHand, Zenon
<1>1. /\ Kinds(orch.found) = {kind} \cup Kinds(rest)
      /\ \/ NextAnomaly = NextRef /\ rest = <<>>
         \/ /\ orch' \in OrchStates /\ orch'.pc = "save" /\ orch'.todo = orch.todo
            /\ orch'.found = rest /\ rest # <<>>
  BY NextAnomalyFacts, Zenon
<1>2. r \in spoiled' \/ (r \in examined => kind \in alerted'[r])
  BY Zenon
<1> HIDE DEF kind, rest
<1>3. hist' = hist /\ age' = age /\ examined' = examined
  BY Zenon DEF OrchestratorMoves
<1>4. ASSUME InProgress(r), r \notin spoiled'
      PROVE  r \in examined /\ Raised(hist[r]) \subseteq alerted'[r] \cup Kinds(rest)
  <2>1. r \in examined /\ Raised(hist[r]) \subseteq alerted[r] \cup Kinds(orch.found)
    BY <1>0, <1>4, Zenon DEF InProgress
  <2> QED
    BY <1>0, <1>1, <1>2, <1>4, <2>1
<1>5. CASE NextAnomaly = NextRef /\ rest = <<>>
  <2>1. Kinds(rest) = {}
    BY <1>5 DEF Kinds
  <2>2. \A s \in Tracked : s = orch.todo[1] /\ InProgress(s) => s \in spoiled' \/ Handled(s)'
    BY <1>3, <1>4, <2>1, Zenon DEF Handled
  <2> QED
    BY <1>0, <1>5, <2>2, NextRefPInv
<1>6. CASE /\ orch' \in OrchStates /\ orch'.pc = "save" /\ orch'.todo = orch.todo
           /\ orch'.found = rest /\ rest # <<>>
  <2>1. OrchOK'
    <3>1. /\ \A i \in DOMAIN orch.todo : hist[orch.todo[i]] # <<>>
          /\ r \in examined => Kinds(orch.found) \subseteq Raised(hist[r])
      BY <1>0, Zenon DEF PInv, OrchOK
    <3>2. r \in examined => Kinds(rest) \subseteq Raised(hist[r])
      BY <1>1, <3>1, Zenon
    <3> QED
      BY <1>0, <1>3, <1>6, <3>1, <3>2 DEF OrchOK
  <2>2. DueOK'
    <3> SUFFICES ASSUME NEW s \in Tracked
                 PROVE  \/ s \in spoiled' \/ age'[s] = "now" \/ Handled(s)'
                        \/ age'[s] = "last" /\ (~oTicked' \/ Coming(s)')
      BY Zenon DEF DueOK
    <3>1. s \in spoiled => s \in spoiled'
      BY Zenon DEF OrchestratorMoves
    <3>2. Handled(s) => Handled(s)'
      BY <1>3, Zenon DEF Handled
    <3>3. ASSUME Coming(s), s \notin spoiled'
          PROVE  Coming(s)'
      <4>1. PICK i \in DOMAIN orch.todo : orch.todo[i] = s /\ (i > 1 \/ InProgress(s))
        BY <3>3, Zenon DEF Coming
      <4>2. CASE i > 1
        BY <1>6, <4>1, <4>2, Zenon DEF Coming
      <4>3. CASE i = 1 /\ InProgress(s)
        <5>1. s = r
          BY <4>1, <4>3, Zenon
        <5>2. s \in examined /\ Raised(hist[s]) \subseteq alerted'[s] \cup Kinds(rest)
          BY <1>4, <3>3, <4>3, <5>1, Zenon
        <5>3. InProgress(s)'
          BY <1>3, <1>6, <5>2 DEF InProgress
        <5> QED
          BY <1>6, <4>1, <5>3, Zenon DEF Coming
      <4>4. i \in Nat /\ i >= 1
        BY <1>0
      <4> QED
        BY <4>1, <4>2, <4>3, <4>4
    <3> QED
      BY <1>3, <3>1, <3>2, <3>3, Zenon DEF PInv, DueOK
  <2> QED
    BY <1>6, <2>1, <2>2, OrchestratorMovesPInv
<1> QED
  BY <1>1, <1>5, <1>6, Zenon

LEMMA SaveAnomalyPInv == ASSUME PInv, SaveAnomaly PROVE PInv'
<1>0. /\ orch.pc = "save" /\ Head(orch.todo) = orch.todo[1] /\ orch.todo[1] \in Tracked
      /\ UNCHANGED <<upstream, releases, schedVars, oTicked, examined, alerted>>
  BY InHand, Zenon DEF SaveAnomaly
<1>1. /\ alerted' \in [Tracked -> SUBSET {"drift", "oidc", "jump"}]
      /\ \A s \in Tracked : alerted'[s] = alerted[s] /\ alerted[s] \subseteq Raised(hist[s])
  BY <1>0, Zenon DEF PInv, Shapes, OrchOK
<1>2. OrchestratorMoves
  BY <1>0, Zenon DEF SaveAnomaly, Spoil, OrchestratorMoves, schedVars, PInv, Shapes
<1>3. CASE orch' = [orch EXCEPT !.pc = "emit"] /\ UNCHANGED <<spoiled, faults>>
  <2>1. /\ orch' \in OrchStates /\ orch'.pc = "emit" /\ orch'.todo = orch.todo
        /\ orch'.found = orch.found
    BY <1>3, Zenon DEF PInv, Shapes, OrchStates
  <2>2. OrchOK'
    BY <1>0, <2>1, Zenon DEF PInv, OrchOK, schedVars
  <2>3. DueOK'
    <3>1. UNCHANGED <<hist, age, oTicked, examined, alerted, spoiled>>
      BY <1>0, <1>3, Zenon DEF schedVars
    <3>2. \A s \in Tracked : (Handled(s) => Handled(s)') /\ (Coming(s) => Coming(s)')
      BY <1>0, <2>1, <3>1, Zenon DEF Handled, Coming, InProgress
    <3> QED
      BY <3>1, <3>2, Zenon DEF PInv, DueOK
  <2> QED
    BY <1>1, <1>2, <2>1, <2>2, <2>3, OrchestratorMovesPInv
<1>4. CASE Spoil({Head(orch.todo)}) /\ orch' = NextAnomaly
  <2>1. orch.todo[1] \in spoiled'
    BY <1>0, <1>4, Zenon DEF Spoil
  <2> QED
    BY <1>0, <1>1, <1>2, <1>4, <2>1, NextAnomalyPInv
<1> QED
  BY <1>3, <1>4, Zenon DEF SaveAnomaly

LEMMA EmitPInv == ASSUME PInv, emitIoC PROVE PInv'
<1> DEFINE r == orch.todo[1]
           kind == Head(orch.found).kind
<1>0. /\ orch.pc = "emit" /\ Head(orch.todo) = r /\ r \in Tracked /\ orch' = NextAnomaly
      /\ UNCHANGED <<upstream, releases, schedVars, oTicked, examined>>
  BY InHand, Zenon DEF emitIoC
<1>1. kind \in Kinds(orch.found) /\ Kinds(orch.found) \subseteq {"drift", "oidc", "jump"}
  BY <1>0, NextAnomalyFacts, Zenon
<1>2. r \in examined => Kinds(orch.found) \subseteq Raised(hist[r])
  BY <1>0, Zenon DEF PInv, OrchOK
<1>3. \/ /\ alerted' = IF r \in examined THEN [alerted EXCEPT ![r] = @ \cup {kind}] ELSE alerted
         /\ UNCHANGED <<spoiled, faults>>
      \/ Fault /\ spoiled' = spoiled \cup {r} /\ UNCHANGED alerted
  BY <1>0, Zenon DEF emitIoC, Spoil
<1>4. /\ alerted \in [Tracked -> SUBSET {"drift", "oidc", "jump"}]
      /\ \A s \in Tracked : alerted[s] \subseteq Raised(hist[s])
  BY Zenon DEF PInv, Shapes, OrchOK
<1>5. OrchestratorMoves
  BY <1>0, <1>3, Zenon DEF OrchestratorMoves, schedVars, PInv, Shapes
<1> HIDE DEF r, kind
<1>6. /\ alerted' \in [Tracked -> SUBSET {"drift", "oidc", "jump"}]
      /\ \A s \in Tracked : alerted[s] \subseteq alerted'[s] /\ alerted'[s] \subseteq Raised(hist[s])
      /\ r \in spoiled' \/ (r \in examined => kind \in alerted'[r])
  BY <1>0, <1>1, <1>2, <1>3, <1>4
<1> QED
  BY <1>0, <1>5, <1>6, NextAnomalyPInv DEF r, kind

-----------------------------------------------------------------------------
(* By the next hour the orchestrator has been through what was saved last. *)
LEMMA HourPInv == ASSUME PInv, Hour PROVE PInv'
<1>0. /\ sched.todo = <<>> /\ orch.todo = <<>> /\ oTicked /\ ~oTicked' /\ ~sTicked'
      /\ oTicked' \in BOOLEAN /\ sTicked' \in BOOLEAN
      /\ age' = [r \in Tracked |-> IF age[r] = "now" THEN "last" ELSE "old"]
      /\ UNCHANGED <<upstream, hist, order, sched, orch, examined, alerted, spoiled, faults>>
  BY Zenon DEF Hour, PInv, SchedOK, OrchOK
<1>1. Shapes'
  BY <1>0, Zenon DEF PInv, Shapes
<1>2. OrderOK'
  <2>1. ASSUME NEW i \in DOMAIN order, NEW j \in DOMAIN order, i < j
        PROVE  /\ age'[order[i]] = "now" => age'[order[j]] = "now"
               /\ age'[order[j]] = "old" => age'[order[i]] = "old"
    <3>1. order[i] \in Tracked /\ order[j] \in Tracked
      BY DEF PInv, Shapes
    <3>2. age[order[i]] = "now" => age[order[j]] = "now"
      BY <2>1, Zenon DEF PInv, OrderOK, Sorted
    <3> QED
      BY <1>0, <3>1, <3>2, Zenon
  <2>2. Sorted(order', age')
    BY <1>0, <2>1 DEF Sorted
  <2> QED
    BY <1>0, <2>2, Zenon DEF PInv, OrderOK
<1>3. SchedOK'
  BY <1>0 DEF PInv, SchedOK
<1>4. OrchOK'
  BY <1>0, Zenon DEF PInv, OrchOK
<1>5. DueOK'
  <2> SUFFICES ASSUME NEW r \in Tracked
               PROVE  \/ r \in spoiled' \/ age'[r] = "now" \/ Handled(r)'
                      \/ age'[r] = "last" /\ (~oTicked' \/ Coming(r)')
    BY Zenon DEF DueOK
  <2>1. ~Coming(r)
    BY <1>0 DEF Coming
  <2>2. r \in spoiled \/ age[r] = "now" \/ Handled(r)
    BY <1>0, <2>1, Zenon DEF PInv, DueOK
  <2> QED
    BY <1>0, <2>2, Zenon DEF Handled
<1> QED
  BY <1>1, <1>2, <1>3, <1>4, <1>5, Zenon DEF PInv

LEMMA ReleasePInv ==
    ASSUME PInv, NEW r \in Tracked, NEW d \in Documents, Release(r, d)
    PROVE  PInv'
<1>0. /\ upstream' \in [Tracked -> Documents]
      /\ UNCHANGED <<hist, order, age, sched, sTicked, orch, oTicked, examined, alerted, spoiled, faults>>
  BY Zenon DEF PInv, Shapes, Release, schedVars, orchVars
<1>1. Shapes'
  BY <1>0, Zenon DEF PInv, Shapes
<1>2. OrderOK' /\ SchedOK' /\ OrchOK'
  BY <1>0, Zenon DEF PInv, OrderOK, SchedOK, OrchOK
<1>3. DueOK'
  BY <1>0, Zenon DEF PInv, DueOK, Handled, Coming, InProgress
<1> QED
  BY <1>1, <1>2, <1>3, Zenon DEF PInv

LEMMA NextPInv == ASSUME PInv, [Next]_vars PROVE PInv'
<1>1. CASE Scheduler
  BY <1>1, SchedulerTickPInv, IngestPInv, GetPInv, GiveUpPInv, SavePublisherSnapshotPInv, Zenon
     DEF Scheduler
<1>2. CASE Orchestrator
  BY <1>2, OrchestratorTickPInv, GetPublisherHistoryPInv, SaveAnomalyPInv, EmitPInv, Zenon
     DEF Orchestrator
<1>3. CASE UNCHANGED vars
  <2>1. UNCHANGED <<upstream, hist, order, age, sched, sTicked, orch, oTicked, examined, alerted,
                    spoiled, faults>>
    BY <1>3, Zenon DEF vars, schedVars, orchVars
  <2>2. Shapes'
    BY <2>1, Zenon DEF PInv, Shapes
  <2>3. OrderOK' /\ SchedOK' /\ OrchOK'
    BY <2>1, Zenon DEF PInv, OrderOK, SchedOK, OrchOK
  <2>4. DueOK'
    BY <2>1, Zenon DEF PInv, DueOK, Handled, Coming, InProgress
  <2> QED
    BY <2>2, <2>3, <2>4, Zenon DEF PInv
<1> QED
  BY <1>1, <1>2, <1>3, HourPInv, ReleasePInv, Zenon DEF Next

LEMMA PipelineInvariant == Spec => []PInv
  BY InitPInv, NextPInv, PTL DEF Spec

(* The two goroutines only work on packages that have snapshots, no matter  *)
(* what fails; the table keeps HistoryDepth snapshots of a package and the  *)
(* order each package once, the stale ones first; a request is retried at   *)
(* most MaxRetries times; nothing is submitted for a package that its       *)
(* newest snapshot does not show.                                           *)
THEOREM PipelineTypeOK == Spec => []TypeOK
<1>1. ASSUME PInv
      PROVE  TypeOK
  <2>1. ASSUME NEW r \in Tracked
        PROVE  /\ Range(hist[r]) \subseteq SnapshotsOf(r) /\ Len(hist[r]) <= HistoryDepth
               /\ alerted[r] \subseteq Raised(hist[r])
    BY <1>1 DEF PInv, Shapes, OrchOK, Range
  <2>2. Range(order) = { r \in Tracked : hist[r] # <<>> }
    BY <1>1 DEF PInv, Shapes, OrderOK, Lists, Range
  <2>3. \A i, j \in DOMAIN order : i # j => order[i] # order[j]
    BY <1>1, Zenon DEF PInv, OrderOK, OnceEach
  <2>6. \A i, j \in DOMAIN order : i < j /\ Stale(order[j]) => Stale(order[i])
    BY <1>1, Zenon DEF PInv, OrderOK, Sorted, Stale
  <2>4. Range(sched.todo) \cup Range(orch.todo) \subseteq { r \in Tracked : hist[r] # <<>> }
    <3>1. sched.todo \in Seq(Tracked) /\ orch.todo \in Seq(Tracked)
      BY <1>1, Zenon DEF PInv, Shapes, SchedStates, OrchStates
    <3>2. \A i \in DOMAIN sched.todo : sched.todo[i] \in Tracked /\ hist[sched.todo[i]] # <<>>
      BY <1>1, <3>1 DEF PInv, SchedOK
    <3>3. \A i \in DOMAIN orch.todo : orch.todo[i] \in Tracked /\ hist[orch.todo[i]] # <<>>
      BY <1>1, <3>1 DEF PInv, OrchOK
    <3> QED
      BY <3>2, <3>3, Zenon DEF Range
  <2>5. /\ sched.pc \in {"idle", "fetch", "save"} /\ (sched.pc = "idle" <=> sched.todo = <<>>)
        /\ orch.pc \in {"idle", "read", "save", "emit"} /\ (orch.pc = "idle" <=> orch.todo = <<>>)
        /\ (orch.found # <<>>) <=> orch.pc \in {"save", "emit"}
        /\ sched.attempt \in 0 .. MaxRetries
    BY <1>1, Zenon DEF PInv, Shapes, SchedStates, OrchStates, SchedOK, OrchOK
  <2> QED
    BY <1>1, <2>1, <2>2, <2>3, <2>4, <2>5, <2>6 DEF PInv, Shapes, TypeOK
<1> QED
  BY <1>1, PipelineInvariant, PTL

(* Whatever the faults and the interleaving of the two                      *)
(* goroutines, a snapshot is only buried under a newer one when the         *)
(* orchestrator has read it and submitted all it shows, or failed on it:    *)
(* the refresh cutoff leaves it one whole tick, and that tick's batch takes *)
(* in every package.                                                        *)
THEOREM NothingBuried == Spec => NothingBuriedUnalerted
<1> DEFINE Buried(r) == age[r] # "now" /\ age'[r] = "now" /\ r \notin spoiled =>
                          r \in examined /\ Raised(hist[r]) \subseteq alerted[r]
<1>1. ASSUME PInv, [Next]_vars, NEW r \in Tracked, age[r] # "now", age'[r] = "now", r \notin spoiled
      PROVE  r \in examined /\ Raised(hist[r]) \subseteq alerted[r]
  <2>1. SavePublisherSnapshot /\ r = Head(sched.todo)
    <3>1. age' # age
      BY <1>1, Zenon
    <3>2. ~Hour
      BY <1>1, Zenon DEF Hour
    <3>3. SavePublisherSnapshot
      BY <1>1, <3>1, <3>2, Zenon DEF Next, Scheduler, Orchestrator, SchedulerTick, Ingest, Get, GiveUp,
         OrchestratorTick, GetPublisherHistory, SaveAnomaly, emitIoC, Release, vars, schedVars
    <3> QED
      BY <1>1, <3>1, <3>3, Zenon DEF SavePublisherSnapshot, PInv, Shapes
  <2>2. sched.todo \in Seq(Tracked) /\ sched.todo # <<>>
    BY <1>1, <2>1, Zenon DEF SavePublisherSnapshot, PInv, Shapes, SchedStates, SchedOK
  <2>3. r = sched.todo[1] /\ 1 \in DOMAIN sched.todo
    BY <2>1, <2>2, TailFacts, Zenon
  <2>4. age[r] # "last"
    BY <1>1, <2>3, Zenon DEF PInv, SchedOK
  <2> QED
    BY <1>1, <2>4, Zenon DEF PInv, DueOK, Handled
<1>2. ASSUME PInv, [Next]_vars
      PROVE  [\A r \in Tracked : Buried(r)]_vars
  BY <1>1, <1>2, Zenon
<1> QED
  BY <1>2, PipelineInvariant, PTL DEF Spec, NothingBuriedUnalerted

(* However long a package keeps saying the same, versionjump,               *)
(* maintainerdrift and oidcregression raise no kind on a repeated snapshot  *)
(* that they did not raise on the first: a finding is late for no detector. *)
THEOREM RepeatsAreQuiet == Spec => []RepeatRaisesNothingNew
<1>1. ASSUME PInv
      PROVE  RepeatRaisesNothingNew
  <2> SUFFICES ASSUME NEW r \in Tracked, Len(hist[r]) \in 2 .. HistoryDepth - 1
               PROVE  Raised(<<hist[r][1]>> \o hist[r]) \subseteq Raised(hist[r])
    BY Zenon DEF RepeatRaisesNothingNew
  <2> DEFINE h == hist[r]
  <2>1. h \in Seq(Snapshots)
    BY <1>1, Zenon DEF PInv, Shapes
  <2>2. Len(h) \in 2 .. HistoryDepth - 1
    BY Zenon
  <2> HIDE DEF h, Snapshots
  <2>3. h # <<>> /\ ~ (Len(h) < 2)
    BY <2>1, <2>2, PipelineAssumption
  <2>4. Repeats(<<h[1]>> \o h, h)
    BY <2>1, <2>3, Repeated, Zenon
  <2>5. Raised(<<h[1]>> \o h) \subseteq Raised(h)
    BY <2>3, <2>4, RepeatRaisesNothing, Zenon
  <2> QED
    BY <2>5, Zenon DEF h
<1> QED
  BY <1>1, PipelineInvariant, PTL
=============================================================================
