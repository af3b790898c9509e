------------------------------ MODULE Detectors ------------------------------
(***************************************************************************)
(* The three publisher-anomaly detectors of engine/anomaly: pure functions *)
(* of a package's snapshots, newest first.  A snapshot is a record of      *)
(*   emails   the lower-cased, non-empty maintainer addresses,             *)
(*   version  <<major, minor, patch>>, or <<>> when the field is empty,    *)
(*            does not parse or is a pre-release,                          *)
(*   age      how long ago that version was published,                     *)
(*   method   the publish method.                                          *)
(***************************************************************************)
EXTENDS Integers, Sequences, FiniteSets, Functions

Anomaly(kind, confidence) == [kind |-> kind, confidence |-> confidence]

classifyDrift(age, allFirstSeen) ==
    CASE age = "unknown"               -> "low"
      [] age = "week" /\ allFirstSeen  -> "high"
      [] age \in {"week", "fortnight"} -> "medium"
      [] OTHER                         -> "low"

(* Mutant: the newest snapshot is compared with the one before the previous. *)
previousOffByOne(h) == h[IF Len(h) > 2 THEN 3 ELSE 2]

previous(h) == h[2]

maintainerdrift(h) ==
    LET new == h[1].emails \ previous(h).emails
        everSeen == UNION { s.emails : s \in Range(Tail(h)) }
    IN  IF new = {} THEN <<>>
        ELSE <<Anomaly("drift", classifyDrift(h[1].age, new \cap everSeen = {}))>>

oidcregression(h) ==
    IF h[1].method # "token" \/ "oidc" \notin { s.method : s \in Range(Tail(h)) } THEN <<>>
    ELSE <<Anomaly("oidc", IF previous(h).method = "oidc" THEN "high" ELSE "medium")>>

(* The versions that parse, with repeats collapsed, as the steps from one   *)
(* to the next: <<i, j>> where version i came right after another version j. *)
extractVersionsOldestFirst(h) ==
    LET parsed == { i \in DOMAIN h : h[i].version # <<>> }
    IN  { s \in parsed \X parsed :
            /\ s[1] < s[2] /\ \A k \in parsed : ~ (s[1] < k /\ k < s[2])
            /\ h[s[1]].version # h[s[2]].version }

breakingDelta(prev, curr) ==
    CASE prev[1] = 0 /\ curr[1] = 0 -> curr[2] - prev[2]
      [] prev[1] = 0 /\ curr[1] > 0 -> 1
      [] OTHER                      -> curr[1] - prev[1]

maxOrZero(jumps) ==
    LET xs == {0} \cup Range(jumps) IN CHOOSE m \in xs : \A x \in xs : x <= m

isUnusualVsHistory(latest, historical) == latest >= 2 /\ latest > 2 * maxOrZero(historical)

classify(latest, historical) ==
    CASE Cardinality({ s \in DOMAIN historical : historical[s] = 0 }) >= 5 /\ latest >= 5 -> "high"
      [] Cardinality(DOMAIN historical) >= 2 /\ latest >= 2 -> "medium"
      [] OTHER -> "low"

(* The newest step, when its jump is out of line with the others. *)
jump(h, s) == breakingDelta(h[s[2]].version, h[s[1]].version)

historical(h, s) == [t \in extractVersionsOldestFirst(h) \ {s} |-> jump(h, t)]

unusual(h) ==
    { s \in extractVersionsOldestFirst(h) :
        /\ \A t \in extractVersionsOldestFirst(h) : s[1] <= t[1]
        /\ jump(h, s) > 0 /\ isUnusualVsHistory(jump(h, s), historical(h, s)) }

versionjump(h) ==
    IF unusual(h) = {} THEN <<>>
    ELSE LET s == CHOOSE s \in unusual(h) : TRUE
         IN  <<Anomaly("jump", classify(jump(h, s), historical(h, s)))>>

(* What one package raises, in the order the detectors are wired. *)
Detect(h) ==
    IF Len(h) < 2 THEN <<>> ELSE maintainerdrift(h) \o oidcregression(h) \o versionjump(h)
=============================================================================
