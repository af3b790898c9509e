------------------------------- MODULE Matcher -------------------------------
(***************************************************************************)
(* The matching predicate (engine/internal/matcher) and the three ways the *)
(* engine applies it: retroactively, one new SBOM against every stored IoC *)
(* (api/matching.go retroactiveMatch); forward, one new IoC against a bulk *)
(* package lookup (api/matching.go forwardMatch); and forward for anomaly  *)
(* IoCs, component by component (iocforward.forwardMatch).                 *)
(*                                                                         *)
(* A package is [eco, name, version]; an SBOM is a record with fields ref, *)
(* eco and pkgs (a set of packages); an IoC is a record with fields kind   *)
(* and eco, and the fields of its body.  The string "<ecosystem>:<name>"   *)
(* of an anomaly's PackageRef is the record [eco, name]: ecosystems hold  *)
(* no colon, so concatenating and splitting at the first colon are         *)
(* inverse to each other, except that a record with an empty half is what  *)
(* the split refuses.                                                      *)
(***************************************************************************)
EXTENDS FiniteSets

CONSTANT
    Satisfying  \* Masterminds/semver: constraint |-> the versions it admits.
                \* A constraint that does not parse is outside its domain, a
                \* version that is not semver belongs to none of its values.

NoEco == ""     \* an ecosystem string that was left empty

-----------------------------------------------------------------------------
(* matcher.Evaluate, package by package *)

evaluatePackageVersion(ioc, p) ==
    p.name = ioc.name /\ p.version = ioc.version

evaluatePackageRange(ioc, p) ==
    /\ p.name = ioc.name
    /\ ioc.constraint \in DOMAIN Satisfying
    /\ p.version \in Satisfying[ioc.constraint]

evaluateAnomalyBody(ioc, p) ==
    ioc.packageRef = [eco |-> p.eco, name |-> p.name]

(* The legacy maintainer-keyed body ("publisher") and any other kind never fire. *)
Fires(ioc, p) ==
    \/ ioc.kind = "packageVersion" /\ evaluatePackageVersion(ioc, p)
    \/ ioc.kind = "packageRange" /\ evaluatePackageRange(ioc, p)
    \/ ioc.kind = "anomalyBody" /\ evaluateAnomalyBody(ioc, p)

SameEcosystem(ioc, eco) == eco = NoEco \/ ioc.eco = NoEco \/ eco = ioc.eco

Evaluate(ioc, sbom) ==
    SameEcosystem(ioc, sbom.eco) /\ \E p \in sbom.pkgs : Fires(ioc, p)

-----------------------------------------------------------------------------
(* The bulk lookup of the forward direction *)

HasLookupKey(ioc) ==
    \/ ioc.kind \in {"packageVersion", "packageRange"}
    \/ /\ ioc.kind = "anomalyBody"
       /\ ioc.packageRef.eco # NoEco
       /\ ioc.packageRef.name # ""

iocLookupKey(ioc) ==
    IF ioc.kind = "anomalyBody" THEN ioc.packageRef ELSE [eco |-> ioc.eco, name |-> ioc.name]

(* The memory store filters on the SBOM's ecosystem, Postgres on the package's. *)
InLookup(backend, s, p, key) ==
    p.name = key.name /\ key.eco = IF backend = "memory" THEN s.eco ELSE p.eco

ListSBOMPackages(backend, sboms, key) ==
    UNION { { [ref |-> s.ref, pkg |-> p] : p \in { q \in s.pkgs : InLookup(backend, s, q, key) } } :
            s \in sboms }

(* Mutant: trust the lookup and skip the evaluation. *)
matchPackagesAgainstIoC_Unevaluated(ioc, eco, rows) == { r.ref : r \in rows }

(* Each row is evaluated as an SBOM of one package, of the looked-up ecosystem. *)
matchPackagesAgainstIoC(ioc, eco, rows) ==
    { r.ref : r \in { row \in rows : Evaluate(ioc, [eco |-> eco, pkgs |-> {row.pkg}]) } }

(* The components a new IoC hits, by the bulk lookup. *)
forwardMatch(backend, ioc, sboms) ==
    IF HasLookupKey(ioc)
    THEN LET key == iocLookupKey(ioc)
         IN  matchPackagesAgainstIoC(ioc, key.eco, ListSBOMPackages(backend, sboms, key))
    ELSE {}

(* The ids of the stored IoCs that a new SBOM hits. *)
retroactiveMatch(iocs, sbom) ==
    { i.id : i \in { row \in iocs : Evaluate(row.body, sbom) } }

-----------------------------------------------------------------------------
(* SBOMs as the parsers produce them: every package carries the ecosystem  *)
(* of its SBOM, which is never empty.                                      *)
ParsedSBOM(s) == s.eco # NoEco /\ \A p \in s.pkgs : p.eco = s.eco

(* IoCs whose ecosystem is filled in; an anomaly's is cut from its package *)
(* reference (orchestrator.ecosystemFromPackageRef).                       *)
EcosystemGiven(ioc) ==
    /\ ioc.eco # NoEco
    /\ ioc.kind = "anomalyBody" =>
         /\ ioc.packageRef.eco = ioc.eco
         /\ ioc.packageRef.name # ""
=============================================================================
