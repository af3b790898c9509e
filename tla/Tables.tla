------------------------------- MODULE Tables -------------------------------
(***************************************************************************)
(* What the two storage backends have in common: keyed tables, and answers *)
(* sorted by a time that need not be unique.  Rows with equal keys come in *)
(* any order (sort.Slice is not stable, ORDER BY leaves ties open), so an  *)
(* answer is modelled as the set of sequences the backend may return.      *)
(***************************************************************************)
EXTENDS Integers, Sequences, FiniteSets, Functions

Put(table, key, row) ==
    [k \in DOMAIN table \cup {key} |-> IF k = key THEN row ELSE table[k]]

(* Several rows put at once, under different keys. *)
Merge(table, rows) ==
    [k \in DOMAIN table \cup DOMAIN rows |-> IF k \in DOMAIN rows THEN rows[k] ELSE table[k]]

(* The answer of a read by key: one row, or none for ErrNotFound. *)
Lookup(table, key) == { table[k] : k \in {key} \cap DOMAIN table }

(* A column of a table, the key of a sort. *)
Column(table, field) == [k \in DOMAIN table |-> table[k][field]]

(* The sequences of the elements of S by ascending key[x]. *)
Ascending(S, key) ==
    LET f[T \in SUBSET S] ==
            IF T = {} THEN {<<>>}
            ELSE UNION { { <<x>> \o q : q \in f[T \ {x}] } :
                            x \in { y \in T : \A z \in T : key[y] <= key[z] } }
    IN  f[S]

Descending(S, key) == Ascending(S, [x \in S |-> -key[x]])

(* Numbers in their only ascending order, as of a serial column. *)
InOrder(S) == CHOOSE q \in Ascending(S, [k \in S |-> k]) : TRUE

(* A limit of zero or less means no limit. *)
Take(q, limit) == IF limit > 0 /\ limit < Len(q) THEN SubSeq(q, 1, limit) ELSE q

Takes(Q, limit) == { Take(q, limit) : q \in Q }

(* The nil of an optional time, and the empty string of an optional filter. *)
NoTime == -1
Unset == "unset"
=============================================================================
