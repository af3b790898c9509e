----------------------------- MODULE PipelineMC -----------------------------
(***************************************************************************)
(* An instance of Pipeline: packages tracked since before the engine       *)
(* started, one of them gone from its registry.                            *)
(***************************************************************************)
EXTENDS Pipeline

Established == [emails |-> {"a"}, tagged |-> TRUE, version |-> <<1, 0, 0>>,
                age |-> "old", signed |-> TRUE]
TakenOver == [emails |-> {"a", "b"}, tagged |-> TRUE, version |-> <<4, 0, 0>>,
              age |-> "week", signed |-> FALSE]

MCDocuments == {Established, TakenOver}

MCRegistry == [r \in Tracked |-> IF r = "gomod:pad" THEN "github" ELSE "npm"]

MCSeeded ==
    [r \in Tracked |-> <<Snapshot(r, IF r = "npm:left" THEN TakenOver ELSE Established)>>]
=============================================================================
