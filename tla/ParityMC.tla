------------------------------ MODULE ParityMC ------------------------------
(* The tables of the workloads have nothing in common, so a behaviour       *)
(* makes the requests of one of them.                                       *)
EXTENDS Parity

MCWorkloads == { {"component", "sbom", "ioc", "triage"}, {"publisher"}, {"anomaly"}, {"profile"} }

MCRegistered == [web |-> "ann", api |-> "bob"]

MCLockfiles == { <<"a">>, <<"b", "a">> }
=============================================================================
