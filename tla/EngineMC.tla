------------------------------- MODULE EngineMC -------------------------------
(* Instances of Engine for TLC. *)
EXTENDS Engine, TLC

Package(name, version) == [eco |-> "npm", name |-> name, version |-> version]
Lock(pkgs) == [eco |-> "npm", pkgs |-> pkgs]
VersionIoC(eco, name, version) ==
    [kind |-> "packageVersion", eco |-> eco, name |-> name, version |-> version]
RangeIoC(eco, name, constraint) ==
    [kind |-> "packageRange", eco |-> eco, name |-> name, constraint |-> constraint]
AnomalyIoC(eco, name) ==
    [kind |-> "anomalyBody", eco |-> eco, packageRef |-> [eco |-> eco, name |-> name]]

MCSatisfying == (">=2" :> {"2", "3"}) @@ ("^1" :> {"1"})

OneLock == {Lock({Package("axios", "2"), Package("left-pad", "1")})}

(* The first and the last hit the lockfile, the range misses it. *)
VersionBody == {VersionIoC("npm", "axios", "2")}
MixedBodies ==
    {VersionIoC("npm", "axios", "2"), RangeIoC("npm", "axios", "^1"), VersionIoC("", "axios", "2")}
Anomaly == {AnomalyIoC("npm", "axios")}
None == {}

Symmetry == Permutations(Procs) \cup Permutations(Refs)
OperatorSymmetry == Permutations(Operators)
=============================================================================
