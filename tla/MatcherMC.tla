------------------------------- MODULE MatcherMC -------------------------------
(***************************************************************************)
(* The forward lookup against the predicate, over every IoC and every set  *)
(* of up to MaxSBOMs SBOMs built from a few packages.                      *)
(***************************************************************************)
EXTENDS Matcher, Naturals, TLC

CONSTANTS Refs, MaxSBOMs

MCSatisfying == (">=2" :> {"2", "3"}) @@ ("^1" :> {"1"})

Ecosystems == {"npm", "pypi"}
Names == {"axios", "left-pad"}
Versions == {"1", "2", "not-semver"}

Packages(eco) == [eco : {eco}, name : Names, version : Versions]

(* Parsed SBOMs of one or two packages. *)
SBOMs ==
    UNION { { [ref |-> r, eco |-> e, pkgs |-> {p, q}] : r \in Refs, p, q \in Packages(e) } :
            e \in Ecosystems }

IoCs ==
    [kind : {"packageVersion"}, eco : Ecosystems \cup {NoEco}, name : Names, version : Versions]
    \cup [kind : {"packageRange"}, eco : Ecosystems \cup {NoEco}, name : Names, constraint : {">=2", "^1", "bad"}]
    \cup { [kind |-> "anomalyBody", eco |-> e, packageRef |-> [eco |-> e, name |-> n]] :
             e \in Ecosystems, n \in Names }
    \cup [kind : {"publisher"}, eco : Ecosystems]

VARIABLES ioc, stored

Init == ioc \in IoCs /\ stored = {}

StoreSBOM(s) ==
    /\ Cardinality(stored) < MaxSBOMs
    /\ stored' = stored \cup {s}
    /\ UNCHANGED ioc

Next == \E s \in SBOMs : StoreSBOM(s)

Spec == Init /\ [][Next]_<<ioc, stored>>

(* The bulk lookup by (ecosystem, name) finds exactly the components with  *)
(* an SBOM the matcher accepts, on either backend, for an IoC whose        *)
(* ecosystem is filled in (matching.go:186, ListSBOMPackages).             *)
ForwardIsEvaluate ==
    EcosystemGiven(ioc) =>
      \A backend \in {"memory", "postgres"} :
        forwardMatch(backend, ioc, stored) = { s.ref : s \in { t \in stored : Evaluate(ioc, t) } }
=============================================================================
