------------------------------ MODULE StreamMC ------------------------------
(* An instance of Stream for TLC. *)
EXTENDS Stream

MCFeed == <<"opened", "opened", "other">>
MCEvents == { Frame(k) : k \in DOMAIN MCFeed }
=============================================================================
