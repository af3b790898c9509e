----------------------------- MODULE TableProofs -----------------------------
(***************************************************************************)
(* What the proofs about the two stores need to know of their tables: what *)
(* the answers of a sort are, and that sorting by a coarser key only adds  *)
(* answers; and for each kind of write, that it leaves the table of        *)
(* Postgres the memory store's table with its times cut to the             *)
(* microsecond, or an append-only table the memory store's log.            *)
(***************************************************************************)
EXTENDS Parity, FiniteSetTheorems, TLAPS

(* The steps are about sets, functions and records; the few that need      *)
(* arithmetic say SMT.                                                     *)
USE ZenonT(30)

-----------------------------------------------------------------------------
(* Sorting: what the answers of Ascending are.                              *)

(* Every nonempty set of naturals has a least element. *)
LEMMA Smallest == ASSUME NEW N \in SUBSET Nat, N # {} PROVE \E n \in N : \A m \in N : n <= m
<1> DEFINE R == StrictSubsetOrdering(Nat)
           B == { 0 .. n : n \in N }
<1>1. B \subseteq FiniteSubsetsOf(Nat)
  <2>1. \A n \in N : IsFiniteSet(0 .. n)
    BY FS_Interval, SMTT(20)
  <2> QED
    BY <2>1, SMTT(20) DEF FiniteSubsetsOf
<1>2. B # {}
  OBVIOUS
<1>3. IsWellFoundedOn(R, FiniteSubsetsOf(Nat))
  BY FS_StrictSubsetOrderingWellFounded
<1> HIDE DEF B
<1>4. \E x \in B : \A y \in B : ~ (<<y, x>> \in R)
  BY <1>1, <1>2, <1>3, WFMin
<1>5. PICK n \in N : \A y \in B : ~ (<<y, 0 .. n>> \in R)
  BY <1>4 DEF B
<1>6. ASSUME NEW m \in N, ~ (n <= m) PROVE FALSE
  <2>1. 0 .. m \in B
    BY DEF B
  <2>2. 0 .. m \in SUBSET Nat /\ 0 .. n \in SUBSET Nat /\ 0 .. m \subseteq 0 .. n
    BY <1>6, SMTT(20)
  <2>3. n \in 0 .. n /\ n \notin 0 .. m
    BY <1>6, SMTT(20)
  <2>4. << 0 .. m, 0 .. n >> \in R
    BY <2>2, <2>3 DEF StrictSubsetOrdering
  <2> QED
    BY <1>5, <2>1, <2>4
<1> QED
  BY <1>6

-----------------------------------------------------------------------------
(* What Ascending returns. *)

Sorted(q, n, key) == \A i, j \in 1 .. n : i < j => q[i] # q[j] /\ key[q[i]] <= key[q[j]]

(* q lists every element of S once, by ascending key. *)
Enumerates(q, S, key) ==
    /\ q \in [1 .. Cardinality(S) -> S]
    /\ \A x \in S : \E i \in 1 .. Cardinality(S) : q[i] = x
    /\ Sorted(q, Cardinality(S), key)

Enumerations(S, key) == { q \in [1 .. Cardinality(S) -> S] : Enumerates(q, S, key) }

HasKeys(S, key) == IsFiniteSet(S) /\ \A x \in S : key[x] \in Int

SortStep(f, T, key) ==
    IF T = {} THEN {<<>>}
    ELSE UNION { { <<x>> \o q : q \in f[T \ {x}] } :
                    x \in { y \in T : \A z \in T : key[y] <= key[z] } }

LEMMA AscendingUnfolds ==
    ASSUME NEW S, NEW key, NEW g, g = [T \in SUBSET S |-> SortStep(g, T, key)]
    PROVE  \E f : f = [T \in SUBSET S |-> SortStep(f, T, key)] /\ Ascending(S, key) = f[S]
<1> DEFINE R(f) == f = [T \in SUBSET S |->
            IF T = {} THEN {<<>>}
            ELSE UNION { { <<x>> \o q : q \in f[T \ {x}] } :
                            x \in { y \in T : \A z \in T : key[y] <= key[z] } }]
<1>1. R(g)
  BY DEF SortStep
<1>2. R(CHOOSE f : R(f))
  BY <1>1
<1>3. Ascending(S, key) = (CHOOSE f : R(f))[S]
  BY DEF Ascending
<1> QED
  BY <1>2, <1>3 DEF SortStep

LEMMA Prefixed ==
    ASSUME NEW T, NEW n \in Nat, NEW q \in [1 .. n -> T], NEW x
    PROVE  /\ DOMAIN (<<x>> \o q) = 1 .. n + 1
           /\ (<<x>> \o q)[1] = x
           /\ \A i \in 1 .. n : (<<x>> \o q)[i + 1] = q[i]
           /\ \A i \in 2 .. n + 1 : (<<x>> \o q)[i] = q[i - 1]
           /\ <<x>> \o q = [i \in 1 .. n + 1 |-> IF i = 1 THEN x ELSE q[i - 1]]
<1>1. q \in Seq(T) /\ Len(q) = n /\ <<x>> \in Seq({x})
  BY SMTT(20)
<1>2. q \in Seq(T \cup {x}) /\ <<x>> \in Seq(T \cup {x}) /\ Len(<<x>>) = 1
  BY <1>1, SMTT(20)
<1> DEFINE s == <<x>> \o q
<1>3. s \in Seq(T \cup {x}) /\ Len(s) = n + 1
  BY <1>1, <1>2, SMTT(20)
<1>4. s[1] = x
  BY <1>2, <1>1, SMTT(20)
<1>5. \A i \in 1 .. n + 1 : s[i] = IF i = 1 THEN x ELSE q[i - 1]
  BY <1>2, <1>1, SMTT(20)
<1>6. DOMAIN s = 1 .. n + 1
  BY <1>3, SMTT(20)
<1>7. s = [i \in 1 .. n + 1 |-> IF i = 1 THEN x ELSE q[i - 1]]
  BY <1>3, <1>5, SMTT(20)
<1> QED
  BY <1>4, <1>5, <1>6, <1>7, SMTT(20)

Firsts(T, key) == { y \in T : \A z \in T : key[y] <= key[z] }

LEMMA RestHasKeys ==
    ASSUME NEW T, NEW key, HasKeys(T, key), NEW x \in T
    PROVE  /\ HasKeys(T \ {x}, key)
           /\ Cardinality(T \ {x}) \in Nat
           /\ Cardinality(T) = Cardinality(T \ {x}) + 1
<1>1. IsFiniteSet(T) /\ Cardinality(T) \in Nat
  BY FS_CardinalityType DEF HasKeys
<1>2. IsFiniteSet(T \ {x}) /\ Cardinality(T \ {x}) = Cardinality(T) - 1
  BY <1>1, FS_RemoveElement
<1>3. Cardinality(T \ {x}) \in Nat
  BY <1>2, FS_CardinalityType
<1>4. HasKeys(T \ {x}, key)
  BY <1>2 DEF HasKeys
<1> QED
  BY <1>1, <1>2, <1>3, <1>4, SMTT(20)

LEMMA PrefixEnumerates ==
    ASSUME NEW T, NEW key, HasKeys(T, key), NEW x \in Firsts(T, key),
           NEW q \in Enumerations(T \ {x}, key)
    PROVE  <<x>> \o q \in Enumerations(T, key)
<1> DEFINE n == Cardinality(T \ {x})
           p == <<x>> \o q
<1>1. x \in T /\ \A z \in T : key[x] <= key[z]
  BY DEF Firsts
<1>2. n \in Nat /\ Cardinality(T) = n + 1
  BY <1>1, RestHasKeys
<1>3. /\ q \in [1 .. n -> T \ {x}]
      /\ \A y \in T \ {x} : \E i \in 1 .. n : q[i] = y
      /\ \A i, j \in 1 .. n : i < j => q[i] # q[j] /\ key[q[i]] <= key[q[j]]
  BY DEF Enumerations, Enumerates, Sorted
<1> HIDE DEF n
<1>4. /\ p[1] = x
      /\ \A i \in 2 .. n + 1 : p[i] = q[i - 1]
      /\ \A i \in 1 .. n : p[i + 1] = q[i]
      /\ p = [i \in 1 .. n + 1 |-> IF i = 1 THEN x ELSE q[i - 1]]
  BY <1>2, <1>3, Prefixed, SMTT(20)
<1> HIDE DEF p
<1>5. p \in [1 .. n + 1 -> T]
  <2>1. \A i \in 1 .. n + 1 : (IF i = 1 THEN x ELSE q[i - 1]) \in T
    BY <1>1, <1>2, <1>3, SMTT(20)
  <2> QED
    BY <1>4, <2>1
<1>6. ASSUME NEW y \in T PROVE \E i \in 1 .. n + 1 : p[i] = y
  <2>1. CASE y = x
    BY <2>1, <1>4, <1>2, SMTT(20)
  <2>2. CASE y # x
    <3>1. PICK i \in 1 .. n : q[i] = y
      BY <2>2, <1>3
    <3>2. i + 1 \in 1 .. n + 1 /\ p[i + 1] = y
      BY <3>1, <1>4, <1>2, SMTT(20)
    <3> QED
      BY <3>2
  <2> QED
    BY <2>1, <2>2
<1>7. ASSUME NEW i \in 1 .. n + 1, NEW j \in 1 .. n + 1, i < j
      PROVE  p[i] # p[j] /\ key[p[i]] <= key[p[j]]
  <2>1. j \in 2 .. n + 1 /\ j - 1 \in 1 .. n
    BY <1>7, <1>2, SMTT(20)
  <2>2. p[j] = q[j - 1] /\ p[j] \in T /\ p[j] # x
    <3>1. q[j - 1] \in T \ {x}
      BY <2>1, <1>3
    <3> QED
      BY <2>1, <3>1, <1>4
  <2>3. CASE i = 1
    BY <2>2, <2>3, <1>1, <1>4
  <2>4. CASE i # 1
    <3>1. i \in 2 .. n + 1 /\ i - 1 \in 1 .. n /\ i - 1 < j - 1
      BY <2>4, <1>7, <1>2, SMTT(20)
    <3>2. p[i] = q[i - 1]
      BY <3>1, <1>4
    <3> QED
      BY <2>1, <2>2, <3>1, <3>2, <1>3
  <2> QED
    BY <2>3, <2>4
<1> QED
  <2>1. p \in [1 .. Cardinality(T) -> T] /\ Sorted(p, Cardinality(T), key)
    BY <1>2, <1>5, <1>7 DEF Sorted
  <2>2. Enumerates(p, T, key)
    BY <2>1, <1>2, <1>6 DEF Enumerates
  <2> QED
    BY <2>1, <2>2 DEF Enumerations, p

(* p is a first element of T followed by an enumeration of the others. *)
Splits(p, T, key) ==
    \E x \in Firsts(T, key) : \E q \in Enumerations(T \ {x}, key) : p = <<x>> \o q

LEMMA EnumerationSplits ==
    ASSUME NEW T, NEW key, HasKeys(T, key), T # {}, NEW p \in Enumerations(T, key)
    PROVE  Splits(p, T, key)
<1> DEFINE N == Cardinality(T)
<1>1. /\ p \in [1 .. N -> T]
      /\ \A y \in T : \E i \in 1 .. N : p[i] = y
      /\ \A i, j \in 1 .. N : i < j => p[i] # p[j] /\ key[p[i]] <= key[p[j]]
  BY DEF Enumerations, Enumerates, Sorted
<1>2. PICK y \in T : TRUE
  OBVIOUS
<1>3. N \in Nat /\ N >= 1
  <2>1. Cardinality(T \ {y}) \in Nat /\ N = Cardinality(T \ {y}) + 1
    BY RestHasKeys
  <2> QED
    BY <2>1, SMTT(20)
<1> DEFINE x == p[1]
<1>4. x \in T
  BY <1>1, <1>3, SMTT(20)
<1> DEFINE n == Cardinality(T \ {x})
           q == [i \in 1 .. n |-> p[i + 1]]
<1>5. n \in Nat /\ N = n + 1
  BY <1>4, RestHasKeys
<1>6. ASSUME NEW z \in T PROVE key[x] <= key[z]
  <2>1. PICK i \in 1 .. N : p[i] = z
    BY <1>1
  <2>2. key[x] \in Int
    BY <1>4 DEF HasKeys
  <2>3. CASE i = 1
    <3> HIDE DEF x
    <3>1. z = x
      BY <2>1, <2>3 DEF x
    <3> QED
      BY <3>1, <2>2, SMTT(20)
  <2>4. CASE i # 1
    <3>1. 1 \in 1 .. N /\ 1 < i
      BY <2>4, <1>3, SMTT(20)
    <3> QED
      BY <3>1, <2>1, <1>1
  <2> QED
    BY <2>3, <2>4
<1>7. x \in Firsts(T, key)
  BY <1>4, <1>6 DEF Firsts
<1> HIDE DEF N, n
<1>8. ASSUME NEW i \in 1 .. n PROVE i + 1 \in 1 .. N /\ 1 < i + 1 /\ 1 \in 1 .. N
  BY <1>5, SMTT(20)
<1>9. ASSUME NEW i \in 1 .. n PROVE p[i + 1] \in T \ {x} /\ q[i] = p[i + 1]
  BY <1>8, <1>1
<1>10. q \in [1 .. n -> T \ {x}]
  BY <1>9
<1>11. ASSUME NEW z \in T \ {x} PROVE \E i \in 1 .. n : q[i] = z
  <2>1. PICK i \in 1 .. N : p[i] = z
    BY <1>1
  <2>2. i # 1
    BY <2>1
  <2>3. i - 1 \in 1 .. n /\ (i - 1) + 1 = i
    BY <2>2, <1>5, SMTT(20)
  <2>4. q[i - 1] = z
    BY <2>1, <2>3, <1>9
  <2> QED
    BY <2>3, <2>4
<1>12. ASSUME NEW i \in 1 .. n, NEW j \in 1 .. n, i < j
       PROVE  q[i] # q[j] /\ key[q[i]] <= key[q[j]]
  <2>1. i + 1 < j + 1
    BY <1>12, SMTT(20)
  <2> QED
    BY <2>1, <1>1, <1>8, <1>9
<1>13. q \in Enumerations(T \ {x}, key)
  <2> HIDE DEF q, x
  <2> QED
    BY <1>10, <1>11, <1>12 DEF Enumerations, Enumerates, Sorted, n
<1>14. <<x>> \o q = [i \in 1 .. n + 1 |-> IF i = 1 THEN x ELSE q[i - 1]]
  <2> HIDE DEF q, x
  <2> QED
    BY <1>10, <1>5, Prefixed, SMTT(20)
<1>15. p = <<x>> \o q
  <2>1. ASSUME NEW i \in 1 .. n + 1 PROVE p[i] = IF i = 1 THEN x ELSE q[i - 1]
    <3>1. CASE i = 1
      BY <3>1
    <3>2. CASE i # 1
      <4>1. i - 1 \in 1 .. n /\ (i - 1) + 1 = i
        BY <3>2, <1>5, SMTT(20)
      <4> QED
        BY <4>1, <3>2, <1>9
    <3> QED
      BY <3>1, <3>2
  <2> HIDE DEF q, x
  <2>2. p \in [1 .. n + 1 -> T]
    BY <1>1, <1>5
  <2> QED
    BY <2>1, <2>2, <1>14
<1> QED
  BY <1>7, <1>13, <1>15 DEF Splits

LEMMA EmptyEnumeration == ASSUME NEW key PROVE Enumerations({}, key) = {<<>>}
<1>1. Cardinality({}) = 0
  BY FS_EmptySet
<1>2. 1 .. 0 = {}
  BY SMTT(20)
<1>3. <<>> \in [{} -> {}] /\ \A q \in [{} -> {}] : q = <<>>
  BY SMTT(20)
<1>4. \A q : Enumerates(q, {}, key) <=> q \in [{} -> {}]
  BY <1>1, <1>2 DEF Enumerates, Sorted
<1> QED
  BY <1>1, <1>2, <1>3, <1>4 DEF Enumerations

(* The sorts of the sets with one element less are known. *)
RestsSorted(f, T, key) == \A x \in T : f[T \ {x}] = Enumerations(T \ {x}, key)

(* One round of the sort, given the sorts of smaller sets. *)
LEMMA EnumerationsStep ==
    ASSUME NEW T, NEW key, HasKeys(T, key), NEW f, RestsSorted(f, T, key)
    PROVE  SortStep(f, T, key) = Enumerations(T, key)
<1>1. CASE T = {}
  BY <1>1, EmptyEnumeration DEF SortStep
<1>2. CASE T # {}
  <2>1. SortStep(f, T, key) =
            UNION { { <<x>> \o q : q \in f[T \ {x}] } : x \in Firsts(T, key) }
    BY <1>2 DEF SortStep, Firsts
  <2>2. ASSUME NEW x \in Firsts(T, key)
        PROVE  f[T \ {x}] = Enumerations(T \ {x}, key)
    BY DEF Firsts, RestsSorted
  <2>3. \A p : p \in SortStep(f, T, key) <=> Splits(p, T, key)
    <3>1. \A p : p \in SortStep(f, T, key) <=>
                    \E x \in Firsts(T, key) : \E q \in f[T \ {x}] : p = <<x>> \o q
      <4> DEFINE A(x) == { <<x>> \o q : q \in f[T \ {x}] }
      <4>1. \A p, x : p \in A(x) <=> \E q \in f[T \ {x}] : p = <<x>> \o q
        OBVIOUS
      <4>2. SortStep(f, T, key) = UNION { A(x) : x \in Firsts(T, key) }
        BY <2>1
      <4> HIDE DEF A
      <4>3. \A p : p \in SortStep(f, T, key) <=> \E x \in Firsts(T, key) : p \in A(x)
        BY <4>2
      <4> QED
        BY <4>1, <4>3
    <3> QED
      BY <2>2, <3>1 DEF Splits
  <2>4. ASSUME NEW p, Splits(p, T, key) PROVE p \in Enumerations(T, key)
    BY <2>4, PrefixEnumerates DEF Splits
  <2>5. ASSUME NEW p \in Enumerations(T, key) PROVE Splits(p, T, key)
    BY <1>2, EnumerationSplits
  <2> QED
    BY <2>3, <2>4, <2>5
<1> QED
  BY <1>1, <1>2

LEMMA SubsetHasKeys ==
    ASSUME NEW S, NEW key, HasKeys(S, key), NEW T \in SUBSET S
    PROVE  HasKeys(T, key) /\ Cardinality(T) \in Nat
<1>1. IsFiniteSet(T)
  BY FS_Subset DEF HasKeys
<1> QED
  BY <1>1, FS_CardinalityType DEF HasKeys

(* The sort of the stores returns the enumerations of the set. *)
LEMMA AscendingEnumerates ==
    ASSUME NEW S, NEW key, HasKeys(S, key)
    PROVE  Ascending(S, key) = Enumerations(S, key)
<1> DEFINE g == [T \in SUBSET S |-> Enumerations(T, key)]
<1>1. g = [T \in SUBSET S |-> SortStep(g, T, key)]
  <2>1. ASSUME NEW T \in SUBSET S PROVE SortStep(g, T, key) = Enumerations(T, key)
    <3>1. HasKeys(T, key)
      BY SubsetHasKeys
    <3>2. RestsSorted(g, T, key)
      BY DEF RestsSorted
    <3> HIDE DEF g
    <3> QED
      BY <3>1, <3>2, EnumerationsStep
  <2> QED
    BY <2>1
<1> HIDE DEF g
<1>2. PICK f : f = [T \in SUBSET S |-> SortStep(f, T, key)] /\ Ascending(S, key) = f[S]
  BY <1>1, AscendingUnfolds
<1> DEFINE Bad == { T \in SUBSET S : f[T] # Enumerations(T, key) }
           Sizes == { Cardinality(T) : T \in Bad }
<1>3. ASSUME Bad # {} PROVE FALSE
  <2>1. Sizes \in SUBSET Nat /\ Sizes # {}
    BY <1>3, SubsetHasKeys
  <2>2. PICK n \in Sizes : \A m \in Sizes : n <= m
    BY <2>1, Smallest
  <2>3. PICK T \in Bad : n = Cardinality(T)
    BY <2>2
  <2>4. HasKeys(T, key) /\ T \in SUBSET S
    BY SubsetHasKeys
  <2>5. ASSUME NEW x \in T PROVE f[T \ {x}] = Enumerations(T \ {x}, key)
    <3>1. Cardinality(T \ {x}) \in Nat /\ n = Cardinality(T \ {x}) + 1
      BY <2>3, <2>4, RestHasKeys
    <3>2. ASSUME T \ {x} \in Bad PROVE FALSE
      <4>1. n <= Cardinality(T \ {x})
        BY <3>2, <2>2
      <4> QED
        BY <4>1, <3>1, SMTT(20)
    <3>3. T \ {x} \in SUBSET S
      BY <2>4
    <3> QED
      BY <3>2, <3>3
  <2>6. SortStep(f, T, key) = Enumerations(T, key)
    BY <2>4, <2>5, EnumerationsStep DEF RestsSorted
  <2>7. f[T] = SortStep(f, T, key)
    BY <1>2, <2>4
  <2>8. f[T] # Enumerations(T, key)
    OBVIOUS
  <2> QED
    BY <2>6, <2>7, <2>8
<1> QED
  BY <1>2, <1>3

-----------------------------------------------------------------------------
(* Sorting by a coarser key, and cutting an answer to its limit.            *)

LEMMA AnEnumeration ==
    ASSUME NEW S, NEW key, HasKeys(S, key), NEW q \in Ascending(S, key)
    PROVE  Cardinality(S) \in Nat /\ Enumerates(q, S, key)
<1>1. q \in Enumerations(S, key)
  BY AscendingEnumerates
<1>2. Cardinality(S) \in Nat
  BY FS_CardinalityType DEF HasKeys
<1> QED
  BY <1>1, <1>2 DEF Enumerations

Coarser(coarse, key, S) == \A x, y \in S : key[x] <= key[y] => coarse[x] <= coarse[y]

(* An order that tells apart less allows more answers. *)
LEMMA CoarserOrder ==
    ASSUME NEW S, NEW key, NEW coarse, HasKeys(S, key), HasKeys(S, coarse),
           Coarser(coarse, key, S)
    PROVE  Ascending(S, key) \subseteq Ascending(S, coarse)
<1>1. ASSUME NEW q \in Ascending(S, key) PROVE q \in Ascending(S, coarse)
  <2>1. Enumerates(q, S, key)
    BY AnEnumeration
  <2>2. q \in [1 .. Cardinality(S) -> S]
    BY <2>1 DEF Enumerates
  <2>3. Sorted(q, Cardinality(S), coarse)
    BY <2>1, <2>2 DEF Enumerates, Sorted, Coarser
  <2>4. q \in Enumerations(S, coarse)
    BY <2>1, <2>3 DEF Enumerations, Enumerates
  <2> QED
    BY <2>4, AscendingEnumerates
<1> QED
  BY <1>1

LEMMA TakesMonotone ==
    ASSUME NEW Q, NEW R, Q \subseteq R, NEW limit
    PROVE  Takes(Q, limit) \subseteq Takes(R, limit)
  BY DEF Takes

LEMMA HasFirst ==
    ASSUME NEW S, NEW key, HasKeys(S, key), S # {}
    PROVE  Firsts(S, key) # {}
<1> DEFINE Bad == { T \in SUBSET S : T # {} /\ Firsts(T, key) = {} }
           Sizes == { Cardinality(T) : T \in Bad }
<1>3. ASSUME Bad # {} PROVE FALSE
  <2>1. Sizes \in SUBSET Nat /\ Sizes # {}
    BY <1>3, SubsetHasKeys
  <2>2. PICK n \in Sizes : \A m \in Sizes : n <= m
    BY <2>1, Smallest
  <2>3. PICK T \in Bad : n = Cardinality(T)
    BY <2>2
  <2>4. HasKeys(T, key) /\ T \in SUBSET S /\ T # {} /\ Firsts(T, key) = {}
    BY SubsetHasKeys
  <2>5. PICK x \in T : TRUE
    BY <2>4
  <2>6. Cardinality(T \ {x}) \in Nat /\ n = Cardinality(T \ {x}) + 1 /\ T \ {x} \in SUBSET S
    BY <2>3, <2>4, RestHasKeys
  <2>7. T \ {x} \notin Bad
    <3>1. ASSUME T \ {x} \in Bad PROVE FALSE
      <4>1. n <= Cardinality(T \ {x})
        BY <3>1, <2>2
      <4> QED
        BY <4>1, <2>6, SMTT(20)
    <3> QED
      BY <3>1
  <2>8. \A y \in T : key[y] \in Int
    BY <2>4 DEF HasKeys
  <2>9. CASE T \ {x} = {}
    <3>1. \A y \in T : y = x
      BY <2>9
    <3>2. key[x] <= key[x]
      BY <2>8, SMTT(20)
    <3>3. x \in Firsts(T, key)
      BY <3>1, <3>2 DEF Firsts
    <3> QED
      BY <3>3, <2>4
  <2>10. CASE T \ {x} # {}
    <3>1. PICK y \in T \ {x} : \A z \in T \ {x} : key[y] <= key[z]
      BY <2>10, <2>7, <2>6 DEF Firsts
    <3>2. CASE key[x] <= key[y]
      <4>1. \A z \in T : key[x] <= key[z]
        BY <3>1, <3>2, <2>8, SMTT(20)
      <4>2. x \in Firsts(T, key)
        BY <4>1 DEF Firsts
      <4> QED
        BY <4>2, <2>4
    <3>3. CASE ~ (key[x] <= key[y])
      <4>1. \A z \in T : key[y] <= key[z]
        BY <3>1, <3>3, <2>8, SMTT(20)
      <4>2. y \in Firsts(T, key)
        BY <4>1 DEF Firsts
      <4> QED
        BY <4>2, <2>4
    <3> QED
      BY <3>2, <3>3
  <2> QED
    BY <2>9, <2>10
<1> QED
  BY <1>3

LEMMA AscendingExists ==
    ASSUME NEW S, NEW key, HasKeys(S, key)
    PROVE  Ascending(S, key) # {}
<1> DEFINE Bad == { T \in SUBSET S : Enumerations(T, key) = {} }
           Sizes == { Cardinality(T) : T \in Bad }
<1>3. ASSUME Bad # {} PROVE FALSE
  <2>1. Sizes \in SUBSET Nat /\ Sizes # {}
    BY <1>3, SubsetHasKeys
  <2>2. PICK n \in Sizes : \A m \in Sizes : n <= m
    BY <2>1, Smallest
  <2>3. PICK T \in Bad : n = Cardinality(T)
    BY <2>2
  <2>4. HasKeys(T, key) /\ T \in SUBSET S /\ Enumerations(T, key) = {}
    BY SubsetHasKeys
  <2>5. T # {}
    BY <2>4, EmptyEnumeration
  <2>6. PICK x \in Firsts(T, key) : TRUE
    BY <2>4, <2>5, HasFirst
  <2>7. x \in T
    BY DEF Firsts
  <2>8. Cardinality(T \ {x}) \in Nat /\ n = Cardinality(T \ {x}) + 1 /\ T \ {x} \in SUBSET S
    BY <2>3, <2>4, <2>7, RestHasKeys
  <2>9. ASSUME T \ {x} \in Bad PROVE FALSE
    <3>1. n <= Cardinality(T \ {x})
      BY <2>9, <2>2
    <3> QED
      BY <3>1, <2>8, SMTT(20)
  <2>10. PICK q \in Enumerations(T \ {x}, key) : TRUE
    BY <2>8, <2>9
  <2>11. <<x>> \o q \in Enumerations(T, key)
    BY <2>4, PrefixEnumerates
  <2> QED
    BY <2>4, <2>11
<1> QED
  BY <1>3, AscendingEnumerates

-----------------------------------------------------------------------------
(* The operators of Tables mean the same in both stores, and InOrder.       *)

(* The operators of Tables are the same in both stores. *)
LEMMA SameSorts ==
    /\ \A S, key : M!Ascending(S, key) = Ascending(S, key) /\ P!Ascending(S, key) = Ascending(S, key)
    /\ \A S, key : M!Descending(S, key) = Descending(S, key) /\ P!Descending(S, key) = Descending(S, key)
    /\ \A Q, limit : M!Takes(Q, limit) = Takes(Q, limit) /\ P!Takes(Q, limit) = Takes(Q, limit)
    /\ \A S : P!InOrder(S) = InOrder(S)
<1>1. \A S, key : M!Ascending(S, key) = Ascending(S, key) /\ P!Ascending(S, key) = Ascending(S, key)
  BY DEF M!Ascending, P!Ascending, Ascending
<1>2. \A S, key : M!Descending(S, key) = Descending(S, key) /\ P!Descending(S, key) = Descending(S, key)
  BY <1>1 DEF M!Descending, P!Descending, Descending
<1>3. \A Q, limit : M!Takes(Q, limit) = Takes(Q, limit) /\ P!Takes(Q, limit) = Takes(Q, limit)
  BY DEF M!Takes, P!Takes, Takes, M!Take, P!Take, Take
<1>4. \A S : P!InOrder(S) = InOrder(S)
  BY <1>1 DEF P!InOrder, InOrder
<1> QED
  BY <1>1, <1>2, <1>3, <1>4

LEMMA SameTables ==
    /\ \A t, k, r : M!Put(t, k, r) = Put(t, k, r) /\ P!Put(t, k, r) = Put(t, k, r)
    /\ \A t, rows : M!Merge(t, rows) = Merge(t, rows) /\ P!Merge(t, rows) = Merge(t, rows)
    /\ \A t, k : M!Lookup(t, k) = Lookup(t, k) /\ P!Lookup(t, k) = Lookup(t, k)
    /\ \A t, f : M!Column(t, f) = Column(t, f) /\ P!Column(t, f) = Column(t, f)
  BY DEF M!Put, P!Put, Put, M!Merge, P!Merge, Merge, M!Lookup, P!Lookup, Lookup,
     M!Column, P!Column, Column

Numbers(S) == IsFiniteSet(S) /\ S \subseteq Nat

Itself(S) == [k \in S |-> k]

LEMMA NumbersHaveKeys ==
    ASSUME NEW S, Numbers(S)
    PROVE  HasKeys(S, Itself(S))
  BY SMTT(20) DEF Numbers, HasKeys, Itself

(* There is one way to put numbers in order. *)
LEMMA OneOrder ==
    ASSUME NEW S, Numbers(S), NEW p \in Ascending(S, Itself(S)), NEW q \in Ascending(S, Itself(S))
    PROVE  p = q
<1> DEFINE n == Cardinality(S)
<1>1. /\ n \in Nat /\ p \in [1 .. n -> S] /\ q \in [1 .. n -> S]
      /\ \A x \in S : \E i \in 1 .. n : p[i] = x
      /\ \A x \in S : \E i \in 1 .. n : q[i] = x
      /\ \A i, j \in 1 .. n : i < j => p[i] # p[j] /\ Itself(S)[p[i]] <= Itself(S)[p[j]]
      /\ \A i, j \in 1 .. n : i < j => q[i] # q[j] /\ Itself(S)[q[i]] <= Itself(S)[q[j]]
  <2>1. n \in Nat /\ Enumerates(p, S, Itself(S)) /\ Enumerates(q, S, Itself(S))
    BY NumbersHaveKeys, AnEnumeration
  <2> QED
    BY <2>1 DEF Enumerates, Sorted
<1> HIDE DEF n
<1>2. \A i \in 1 .. n : p[i] \in Nat /\ q[i] \in Nat /\ p[i] \in S /\ q[i] \in S
  BY <1>1 DEF Numbers
<1>3. \A i, j \in 1 .. n : i < j => p[i] < p[j] /\ q[i] < q[j]
  <2>1. \A i \in 1 .. n : Itself(S)[p[i]] = p[i] /\ Itself(S)[q[i]] = q[i]
    BY <1>2 DEF Itself
  <2>2. ASSUME NEW i \in 1 .. n, NEW j \in 1 .. n, i < j PROVE p[i] < p[j] /\ q[i] < q[j]
    <3>1. p[i] # p[j] /\ p[i] <= p[j] /\ q[i] # q[j] /\ q[i] <= q[j]
      <4>1. p[i] # p[j] /\ Itself(S)[p[i]] <= Itself(S)[p[j]]
        BY <2>2, <1>1
      <4>2. q[i] # q[j] /\ Itself(S)[q[i]] <= Itself(S)[q[j]]
        BY <2>2, <1>1
      <4> QED
        BY <2>1, <4>1, <4>2
    <3>2. p[i] \in Nat /\ q[i] \in Nat /\ p[j] \in Nat /\ q[j] \in Nat
      BY <1>2
    <3> QED
      BY <3>1, <3>2, SMTT(20)
  <2> QED
    BY <2>2
<1> DEFINE Bad == { i \in 1 .. n : p[i] # q[i] }
<1>4. ASSUME Bad # {} PROVE FALSE
  <2>1. Bad \in SUBSET Nat
    BY <1>1, SMTT(20)
  <2>2. PICK i \in Bad : \A j \in Bad : i <= j
    BY <1>4, <2>1, Smallest
  <2>3. i \in 1 .. n /\ p[i] # q[i]
    OBVIOUS
  <2>4. \A j \in 1 .. n : j < i => p[j] = q[j]
    BY <2>2, <2>3, SMTT(20)
  <2> HIDE DEF Bad
  <2>5. PICK j \in 1 .. n : p[j] = q[i]
    BY <1>1, <1>2, <2>3
  <2>6. PICK k \in 1 .. n : q[k] = p[i]
    BY <1>1, <1>2, <2>3
  <2>7. j > i
    <3>1. j # i
      BY <2>3, <2>5
    <3>2. ASSUME j < i PROVE FALSE
      <4>1. q[j] = q[i]
        BY <3>2, <2>4, <2>5
      <4> QED
        BY <4>1, <3>2, <1>1, <2>3
    <3> QED
      BY <3>1, <3>2, <2>3, SMTT(20)
  <2>8. k > i
    <3>1. k # i
      BY <2>3, <2>6
    <3>2. ASSUME k < i PROVE FALSE
      <4>1. p[k] = p[i]
        BY <3>2, <2>4, <2>6
      <4> QED
        BY <4>1, <3>2, <1>1, <2>3
    <3> QED
      BY <3>1, <3>2, <2>3, SMTT(20)
  <2>9. p[i] < p[j] /\ q[i] < q[k]
    BY <2>7, <2>8, <2>3, <1>3
  <2> QED
    BY <2>9, <2>5, <2>6, <2>3, <1>2, SMTT(20)
<1>5. \A i \in 1 .. n : p[i] = q[i]
  BY <1>4
<1>6. p = [i \in 1 .. n |-> p[i]] /\ q = [i \in 1 .. n |-> q[i]]
  BY <1>1
<1> QED
  BY <1>5, <1>6

LEMMA InOrderIs ==
    ASSUME NEW S, Numbers(S)
    PROVE  /\ InOrder(S) \in Ascending(S, Itself(S))
           /\ \A q \in Ascending(S, Itself(S)) : q = InOrder(S)
<1>1. Ascending(S, Itself(S)) # {}
  BY NumbersHaveKeys, AscendingExists
<1>2. InOrder(S) \in Ascending(S, Itself(S))
  BY <1>1 DEF InOrder, Itself
<1> QED
  BY <1>2, OneOrder

LEMMA InOrderShape ==
    ASSUME NEW S, Numbers(S)
    PROVE  /\ Cardinality(S) \in Nat
           /\ InOrder(S) \in [1 .. Cardinality(S) -> S]
<1>1. Enumerates(InOrder(S), S, Itself(S)) /\ Cardinality(S) \in Nat
  BY InOrderIs, NumbersHaveKeys, AnEnumeration
<1> QED
  BY <1>1 DEF Enumerates

LEMMA NoneInOrder == InOrder({}) = <<>>
<1>1. IsFiniteSet({}) /\ Cardinality({}) = 0
  BY FS_EmptySet
<1>2. Numbers({})
  BY <1>1 DEF Numbers
<1>3. InOrder({}) \in [1 .. 0 -> {}]
  BY <1>1, <1>2, InOrderShape
<1> QED
  BY <1>3, SMTT(20)

Below(S, m) == \A x \in S : x < m

(* A number above the others comes last. *)
LEMMA InOrderGrows ==
    ASSUME NEW S, Numbers(S), NEW m \in Nat, Below(S, m)
    PROVE  InOrder(S \cup {m}) =
            [i \in 1 .. Cardinality(S) + 1 |-> IF i = Cardinality(S) + 1 THEN m ELSE InOrder(S)[i]]
<1> DEFINE n == Cardinality(S)
           T == S \cup {m}
           q == InOrder(S)
           p == [i \in 1 .. n + 1 |-> IF i = n + 1 THEN m ELSE q[i]]
<1>1. n \in Nat /\ q \in [1 .. n -> S] /\ Enumerates(q, S, Itself(S))
  BY InOrderShape, InOrderIs, NumbersHaveKeys, AnEnumeration
<1>2. /\ \A x \in S : \E i \in 1 .. n : q[i] = x
      /\ \A i, j \in 1 .. n : i < j => q[i] # q[j] /\ Itself(S)[q[i]] <= Itself(S)[q[j]]
  BY <1>1 DEF Enumerates, Sorted
<1>3. m \notin S
  <2>1. ~ (m < m)
    BY SMTT(20)
  <2> QED
    BY <2>1 DEF Below
<1>4. IsFiniteSet(T) /\ Cardinality(T) = n + 1
  BY <1>3, FS_AddElement DEF Numbers
<1>5. Numbers(T)
  <2>1. T \subseteq Nat
    BY DEF Numbers
  <2> QED
    BY <1>4, <2>1 DEF Numbers
<1> HIDE DEF n, q
<1>6. \A i \in 1 .. n : i \in 1 .. n + 1 /\ i # n + 1 /\ n + 1 \in 1 .. n + 1
  BY <1>1, SMTT(20)
<1>7. \A i \in 1 .. n : p[i] = q[i] /\ q[i] \in S
  BY <1>6, <1>1
<1>8. n + 1 \in 1 .. n + 1 /\ p[n + 1] = m
  BY <1>1, SMTT(20)
<1>9. \A i \in 1 .. n + 1 : i \in 1 .. n \/ i = n + 1
  BY <1>1, SMTT(20)
<1>10. p \in [1 .. n + 1 -> T]
  BY <1>7, <1>9
<1> HIDE DEF p
<1>11. ASSUME NEW x \in T PROVE \E i \in 1 .. n + 1 : p[i] = x
  <2>1. CASE x = m
    BY <2>1, <1>8
  <2>2. CASE x \in S
    <3>1. PICK i \in 1 .. n : q[i] = x
      BY <2>2, <1>2
    <3> QED
      BY <3>1, <1>6, <1>7
  <2> QED
    BY <2>1, <2>2
<1>12. ASSUME NEW i \in 1 .. n + 1, NEW j \in 1 .. n + 1, i < j
       PROVE  p[i] # p[j] /\ Itself(T)[p[i]] <= Itself(T)[p[j]]
  <2>1. i \in 1 .. n
    BY <1>12, <1>1, SMTT(20)
  <2>2. p[i] = q[i] /\ p[i] \in S /\ p[i] \in T /\ p[j] \in T
    BY <2>1, <1>7, <1>10
  <2>3. Itself(T)[p[i]] = p[i] /\ Itself(T)[p[j]] = p[j]
    BY <2>2 DEF Itself
  <2>4. p[i] \in Nat /\ p[j] \in Nat
    BY <2>2, <1>5 DEF Numbers
  <2>5. CASE j = n + 1
    <3>1. p[j] = m /\ p[i] < m
      BY <2>2, <2>5, <1>8 DEF Below
    <3> QED
      BY <3>1, <2>3, <2>4, SMTT(20)
  <2>6. CASE j \in 1 .. n
    <3>1. p[j] = q[j] /\ q[j] \in S
      BY <2>6, <1>7
    <3>2. q[i] # q[j] /\ Itself(S)[q[i]] <= Itself(S)[q[j]]
      BY <2>1, <2>6, <1>12, <1>2
    <3>3. Itself(S)[q[i]] = q[i] /\ Itself(S)[q[j]] = q[j]
      BY <2>2, <3>1 DEF Itself
    <3> QED
      BY <2>2, <2>3, <3>1, <3>2, <3>3
  <2> QED
    BY <2>5, <2>6, <1>9
<1>13. p \in Enumerations(T, Itself(T))
  <2>1. p \in [1 .. Cardinality(T) -> T] /\ Sorted(p, Cardinality(T), Itself(T))
    BY <1>4, <1>10, <1>12 DEF Sorted
  <2>2. Enumerates(p, T, Itself(T))
    BY <2>1, <1>4, <1>11 DEF Enumerates
  <2> QED
    BY <2>1, <2>2 DEF Enumerations
<1>14. p \in Ascending(T, Itself(T))
  BY <1>5, <1>13, NumbersHaveKeys, AscendingEnumerates
<1>15. p = InOrder(T)
  BY <1>5, <1>14, InOrderIs
<1> QED
  BY <1>15 DEF p, n, q

-----------------------------------------------------------------------------
(* What the tables of the two stores have to do with each other.  The       *)
(* operators take the stores as arguments, because a request is several     *)
(* store operations.                                                        *)

SBOMs == [ref : Refs, eco : {"npm"}, at : Nat, packages : Lockfiles]

SBOMRow(s) == [ref |-> s.ref, eco |-> s.eco, at |-> P!Micro(s.at)]

PackageRows(id, s) ==
    { [sbom |-> id, position |-> i, eco |-> s.eco, name |-> s.packages[i]] : i \in DOMAIN s.packages }

SBOMsAgree(sboms, rows, packages) ==
    /\ IsFiniteSet(DOMAIN sboms)
    /\ \A id \in DOMAIN sboms : sboms[id] \in SBOMs
    /\ rows = [id \in DOMAIN sboms |-> SBOMRow(sboms[id])]
    /\ packages = UNION { PackageRows(id, sboms[id]) : id \in DOMAIN sboms }

IoCRecords == [eco : {"npm", "pypi"}, name : Names, at : Nat]

IoCsAgree(iocs, rows) ==
    /\ IsFiniteSet(DOMAIN iocs) /\ DOMAIN iocs \subseteq IoCs
    /\ \A id \in DOMAIN iocs : iocs[id] \in IoCRecords
    /\ rows = [id \in DOMAIN iocs |-> [iocs[id] EXCEPT !.at = P!Micro(@)]]

Remediations == [id : Nat, at : Nat]

States == {"pending", "triaged", "dismissed"}

IncidentRecords ==
    [ ioc : IoCs, state : States, opened : Nat, moved : Nat, refs : SUBSET Refs,
      remediations : Seq(Remediations) ]

IncidentsAgree(incidents, rows, time) ==
    /\ IsFiniteSet(DOMAIN incidents)
    /\ \A id \in DOMAIN incidents :
        incidents[id] \in IncidentRecords /\ id[1] \in Nat /\ id[1] < time
    /\ rows = [id \in DOMAIN incidents |-> P!IncidentRow(incidents[id])]

LogRows(incidents) == [id : Nat, incident : DOMAIN incidents, at : Nat]

(* The rows with the serials of S, in their order. *)
Listed(rows, S) == [i \in DOMAIN InOrder(S) |-> rows[InOrder(S)[i]]]

(* listRemediationsTx, from the table it reads. *)
SeqsIn(rows, id) == { k \in DOMAIN rows : rows[k].incident = id }

LogIn(rows, id) ==
    [i \in DOMAIN Listed(rows, SeqsIn(rows, id)) |->
        P!Remediation(Listed(rows, SeqsIn(rows, id))[i])]

LogsAgree(incidents, rows) ==
    /\ rows \in Seq(LogRows(incidents))
    /\ \A id \in DOMAIN incidents : LogIn(rows, id) = CutLog(incidents[id].remediations)

Snapshots == [ref : Tracked, at : Nat]

Ascends(log, time) ==
    /\ log \in Seq(Snapshots) /\ log # <<>>
    /\ \A i, j \in 1 .. Len(log) : i <= j => log[i].at <= log[j].at
    /\ \A i \in 1 .. Len(log) : log[i].at < time

(* SnapshotsOf, from the table it reads. *)
IdsIn(rows, ref) == { k \in DOMAIN rows : rows[k].ref = ref }

HistoryIn(rows, ref) == Listed(rows, IdsIn(rows, ref))

HistoryAgrees(history, rows, time) ==
    /\ IsFiniteSet(DOMAIN history)
    /\ rows \in Seq([ref : DOMAIN history, at : Nat])
    /\ \A ref \in DOMAIN history :
        Ascends(history[ref], time) /\ HistoryIn(rows, ref) = CutLog(history[ref])

Anomalies == [kind : Kinds, ref : Tracked, at : Nat]

AnomaliesAgree(anomalies, rows, serial) ==
    /\ serial \in Nat /\ DOMAIN anomalies = 1 .. serial
    /\ \A id \in 1 .. serial : anomalies[id] \in Anomalies
    /\ rows = [id \in 1 .. serial |-> [anomalies[id] EXCEPT !.at = P!Micro(@)]]

Profiles == [seen : Nat, count : Nat, changed : Nat \cup {NoTime}]

Copies(publishers, profiles, name) ==
    { row.seen : row \in Lookup(publishers, name) \cup Lookup(profiles, name) }

IsNewest(copies, row) ==
    \E c \in copies : (\A d \in copies : d <= c) /\ row = [seen |-> P!Micro(c)]

PublishersAgree(publishers, profiles, parents, rows, time) ==
    /\ \A name \in DOMAIN publishers : publishers[name] \in [seen : Nat] /\ publishers[name].seen < time
    /\ \A name \in DOMAIN profiles : profiles[name] \in Profiles /\ profiles[name].seen < time
    /\ DOMAIN parents = DOMAIN publishers \cup DOMAIN profiles
    /\ \A name \in DOMAIN parents :
        IsNewest(Copies(publishers, profiles, name), parents[name])
    /\ rows = [name \in DOMAIN profiles |-> P!ProfileRow(profiles[name])]

(* An incident of the IoC names the component. *)
Held(incidents, ioc, ref) ==
    \E id \in DOMAIN incidents : incidents[id].ioc = ioc /\ ref \in incidents[id].refs

(* Every match between what is stored has an incident, open or not. *)
Covered(iocs, sboms, incidents) ==
    \A i \in DOMAIN iocs, s \in DOMAIN sboms :
        Fires(iocs[i], sboms[s]) => Held(incidents, i, sboms[s].ref)

StoresAgree(m, p, time) ==
    /\ p.components = m.components
    /\ SBOMsAgree(m.sboms, p.sboms, p.sbom_packages)
    /\ IoCsAgree(m.iocs, p.iocs)
    /\ IncidentsAgree(m.incidents, p.incidents, time)
    /\ LogsAgree(m.incidents, p.remediations)
    /\ HistoryAgrees(m.history, p.publisher_history, time)
    /\ AnomaliesAgree(m.anomalies, p.anomalies, p.anomaly_seq)
    /\ PublishersAgree(m.publishers, m.profiles, p.publishers, p.publisher_profiles, time)
    /\ Covered(m.iocs, m.sboms, m.incidents)

-----------------------------------------------------------------------------
(* Writing one row, or the rows of one SBOM, on both backends.              *)

LEMMA Fields ==
    ASSUME NEW s \in SBOMs
    PROVE  /\ s.ref \in Refs /\ s.eco = "npm" /\ s.at \in Nat /\ s.packages \in Lockfiles
           /\ s = [ref |-> s.ref, eco |-> s.eco, at |-> s.at, packages |-> s.packages]
  BY DEF SBOMs

WithRow(t, k, row, n) ==
    /\ DOMAIN n = DOMAIN t \cup {k} /\ n[k] = row
    /\ \A j \in DOMAIN t : j # k => n[j] = t[j]

LEMMA PutRow ==
    ASSUME NEW t, NEW k, NEW row
    PROVE  /\ WithRow(t, k, row, Put(t, k, row))
           /\ IsFiniteSet(DOMAIN t) => IsFiniteSet(DOMAIN Put(t, k, row))
<1>1. DOMAIN Put(t, k, row) = DOMAIN t \cup {k}
  BY DEF Put
<1>2. Put(t, k, row)[k] = row /\ \A j \in DOMAIN t : j # k => Put(t, k, row)[j] = t[j]
  BY DEF Put
<1> QED
  BY <1>1, <1>2, FS_AddElement DEF WithRow

LEMMA PutSBOM ==
    ASSUME NEW sboms, NEW rows, NEW packages, SBOMsAgree(sboms, rows, packages),
           NEW id, NEW s \in SBOMs
    PROVE  SBOMsAgree(Put(sboms, id, s), Put(rows, id, SBOMRow(s)),
                      { p \in packages : p.sbom # id } \cup PackageRows(id, s))
<1> DEFINE t == Put(sboms, id, s)
<1>1. /\ DOMAIN t = DOMAIN sboms \cup {id} /\ t[id] = s
      /\ \A j \in DOMAIN sboms : j # id => t[j] = sboms[j]
      /\ IsFiniteSet(DOMAIN t)
  <2>1. WithRow(sboms, id, s, t) /\ IsFiniteSet(DOMAIN t)
    BY PutRow DEF SBOMsAgree
  <2> QED
    BY <2>1 DEF WithRow
<1>2. \A j \in DOMAIN t : t[j] \in SBOMs
  BY <1>1 DEF SBOMsAgree
<1>3. Put(rows, id, SBOMRow(s)) = [j \in DOMAIN t |-> SBOMRow(t[j])]
  <2>1. DOMAIN rows = DOMAIN sboms /\ \A j \in DOMAIN sboms : rows[j] = SBOMRow(sboms[j])
    BY DEF SBOMsAgree
  <2> HIDE DEF t
  <2>2. Put(rows, id, SBOMRow(s)) =
            [j \in DOMAIN t |-> IF j = id THEN SBOMRow(s) ELSE rows[j]]
    BY <1>1, <2>1 DEF Put
  <2>3. \A j \in DOMAIN t : (IF j = id THEN SBOMRow(s) ELSE rows[j]) = SBOMRow(t[j])
    BY <1>1, <2>1
  <2> QED
    BY <2>2, <2>3
<1>4. \A j, u : \A p \in PackageRows(j, u) : p.sbom = j
  BY SMTT(20) DEF PackageRows
<1>5. { p \in packages : p.sbom # id } \cup PackageRows(id, s) =
        UNION { PackageRows(j, t[j]) : j \in DOMAIN t }
  <2> HIDE DEF t
  <2>1. packages = UNION { PackageRows(j, sboms[j]) : j \in DOMAIN sboms }
    BY DEF SBOMsAgree
  <2>2. \A p : p \in packages <=> \E j \in DOMAIN sboms : p \in PackageRows(j, sboms[j])
    BY <2>1
  <2>3. \A p : p \in UNION { PackageRows(j, t[j]) : j \in DOMAIN t } <=>
                \E j \in DOMAIN t : p \in PackageRows(j, t[j])
    OBVIOUS
  <2>4. \A p : (\E j \in DOMAIN t : p \in PackageRows(j, t[j])) <=>
                p \in PackageRows(id, s) \/ (p \in packages /\ p.sbom # id)
    BY <1>1, <1>4, <2>2
  <2> QED
    BY <2>3, <2>4
<1> QED
  BY <1>1, <1>2, <1>3, <1>5 DEF SBOMsAgree

LEMMA PutIoC ==
    ASSUME NEW iocs, NEW rows, IoCsAgree(iocs, rows), NEW id \in IoCs, NEW ioc \in IoCRecords
    PROVE  IoCsAgree(Put(iocs, id, ioc), Put(rows, id, [ioc EXCEPT !.at = P!Micro(@)]))
<1> DEFINE t == Put(iocs, id, ioc)
           C(i) == [i EXCEPT !.at = P!Micro(@)]
<1>1. /\ DOMAIN t = DOMAIN iocs \cup {id} /\ t[id] = ioc
      /\ \A j \in DOMAIN iocs : j # id => t[j] = iocs[j]
      /\ IsFiniteSet(DOMAIN t)
  <2>1. WithRow(iocs, id, ioc, t) /\ IsFiniteSet(DOMAIN t)
    BY PutRow DEF IoCsAgree
  <2> QED
    BY <2>1 DEF WithRow
<1>2. DOMAIN t \subseteq IoCs /\ \A j \in DOMAIN t : t[j] \in IoCRecords
  BY <1>1 DEF IoCsAgree
<1>3. Put(rows, id, C(ioc)) = [j \in DOMAIN t |-> C(t[j])]
  <2>1. DOMAIN rows = DOMAIN iocs /\ \A j \in DOMAIN iocs : rows[j] = C(iocs[j])
    BY DEF IoCsAgree
  <2> HIDE DEF t, C
  <2>2. Put(rows, id, C(ioc)) = [j \in DOMAIN t |-> IF j = id THEN C(ioc) ELSE rows[j]]
    BY <1>1, <2>1 DEF Put
  <2>3. \A j \in DOMAIN t : (IF j = id THEN C(ioc) ELSE rows[j]) = C(t[j])
    BY <1>1, <2>1
  <2> QED
    BY <2>2, <2>3
<1> QED
  BY <1>1, <1>2, <1>3 DEF IoCsAgree

-----------------------------------------------------------------------------
(* Writing incidents, one and many.                                         *)

LEMMA PutIncident ==
    ASSUME NEW incidents, NEW rows, NEW time, IncidentsAgree(incidents, rows, time),
           NEW id \in DOMAIN incidents, NEW x \in IncidentRecords
    PROVE  IncidentsAgree(Put(incidents, id, x), Put(rows, id, P!IncidentRow(x)), time)
<1> DEFINE t == Put(incidents, id, x)
<1>1. /\ DOMAIN t = DOMAIN incidents /\ t[id] = x
      /\ \A j \in DOMAIN incidents : j # id => t[j] = incidents[j]
      /\ IsFiniteSet(DOMAIN t)
  <2>1. WithRow(incidents, id, x, t) /\ IsFiniteSet(DOMAIN t)
    BY PutRow DEF IncidentsAgree
  <2> QED
    BY <2>1 DEF WithRow
<1>2. \A j \in DOMAIN t : t[j] \in IncidentRecords /\ j[1] \in Nat /\ j[1] < time
  BY <1>1 DEF IncidentsAgree
<1>3. Put(rows, id, P!IncidentRow(x)) = [j \in DOMAIN t |-> P!IncidentRow(t[j])]
  <2>1. DOMAIN rows = DOMAIN incidents /\ \A j \in DOMAIN incidents : rows[j] = P!IncidentRow(incidents[j])
    BY DEF IncidentsAgree
  <2> HIDE DEF t
  <2>2. Put(rows, id, P!IncidentRow(x)) =
            [j \in DOMAIN t |-> IF j = id THEN P!IncidentRow(x) ELSE rows[j]]
    BY <1>1, <2>1 DEF Put
  <2>3. \A j \in DOMAIN t : (IF j = id THEN P!IncidentRow(x) ELSE rows[j]) = P!IncidentRow(t[j])
    BY <1>1, <2>1
  <2> QED
    BY <2>2, <2>3
<1> QED
  BY <1>1, <1>2, <1>3 DEF IncidentsAgree

WithRows(t, new, n) ==
    /\ DOMAIN n = DOMAIN t \cup DOMAIN new
    /\ \A j \in DOMAIN new : n[j] = new[j]
    /\ \A j \in DOMAIN t : j \notin DOMAIN new => n[j] = t[j]

LEMMA MergeRows ==
    ASSUME NEW t, NEW new, IsFiniteSet(DOMAIN t), IsFiniteSet(DOMAIN new)
    PROVE  WithRows(t, new, Merge(t, new)) /\ IsFiniteSet(DOMAIN Merge(t, new))
<1>1. DOMAIN Merge(t, new) = DOMAIN t \cup DOMAIN new
  BY DEF Merge
<1>2. \A j \in DOMAIN new : Merge(t, new)[j] = new[j]
  BY DEF Merge
<1>3. \A j \in DOMAIN t : j \notin DOMAIN new => Merge(t, new)[j] = t[j]
  BY DEF Merge
<1>4. IsFiniteSet(DOMAIN t \cup DOMAIN new)
  BY FS_Union
<1> QED
  BY <1>1, <1>2, <1>3, <1>4 DEF WithRows

(* Incidents a request opens: stamped with its time, with an empty log. *)
JustOpened(new, time) ==
    /\ IsFiniteSet(DOMAIN new)
    /\ \A id \in DOMAIN new :
        new[id] \in IncidentRecords /\ new[id].remediations = <<>> /\ id[1] = time

LEMMA MergeIncidents ==
    ASSUME NEW incidents, NEW rows, NEW time \in Nat, IncidentsAgree(incidents, rows, time),
           NEW new, JustOpened(new, time)
    PROVE  /\ IncidentsAgree(Merge(incidents, new),
                             Merge(rows, [id \in DOMAIN new |-> P!IncidentRow(new[id])]), time + 1)
           /\ \A id \in DOMAIN new : id \notin DOMAIN incidents
<1> DEFINE t == Merge(incidents, new)
           news == [id \in DOMAIN new |-> P!IncidentRow(new[id])]
<1>1. WithRows(incidents, new, t) /\ IsFiniteSet(DOMAIN t)
  BY MergeRows DEF IncidentsAgree, JustOpened
<1>2. /\ DOMAIN t = DOMAIN incidents \cup DOMAIN new
      /\ \A j \in DOMAIN new : t[j] = new[j]
      /\ \A j \in DOMAIN incidents : j \notin DOMAIN new => t[j] = incidents[j]
  BY <1>1 DEF WithRows
<1>3. \A j \in DOMAIN incidents : incidents[j] \in IncidentRecords /\ j[1] \in Nat /\ j[1] < time
  BY DEF IncidentsAgree
<1>4. \A j \in DOMAIN new : new[j] \in IncidentRecords /\ j[1] = time
  BY DEF JustOpened
<1>5. \A j \in DOMAIN new : j \notin DOMAIN incidents
  BY <1>3, <1>4, SMTT(20)
<1>6. \A j \in DOMAIN t : t[j] \in IncidentRecords
  BY <1>2, <1>3, <1>4, <1>5
<1>7. \A j \in DOMAIN t : j[1] \in Nat /\ j[1] < time + 1
  BY <1>2, <1>3, <1>4, SMTT(20)
<1>8. Merge(rows, news) = [j \in DOMAIN t |-> P!IncidentRow(t[j])]
  <2>1. DOMAIN rows = DOMAIN incidents /\ \A j \in DOMAIN incidents : rows[j] = P!IncidentRow(incidents[j])
    BY DEF IncidentsAgree
  <2>2. DOMAIN news = DOMAIN new /\ \A j \in DOMAIN new : news[j] = P!IncidentRow(new[j])
    OBVIOUS
  <2> HIDE DEF t, news
  <2>3. Merge(rows, news) =
            [j \in DOMAIN t |-> IF j \in DOMAIN new THEN news[j] ELSE rows[j]]
    BY <1>2, <2>1, <2>2 DEF Merge
  <2>4. \A j \in DOMAIN t : (IF j \in DOMAIN new THEN news[j] ELSE rows[j]) = P!IncidentRow(t[j])
    BY <1>2, <2>1, <2>2
  <2> QED
    BY <2>3, <2>4
<1> QED
  BY <1>1, <1>5, <1>6, <1>7, <1>8 DEF IncidentsAgree

-----------------------------------------------------------------------------
LEMMA LogRowsGrow ==
    ASSUME NEW incidents, NEW more, DOMAIN incidents \subseteq DOMAIN more
    PROVE  Seq(LogRows(incidents)) \subseteq Seq(LogRows(more))
<1>1. LogRows(incidents) \subseteq LogRows(more)
  BY DEF LogRows
<1> HIDE DEF LogRows
<1> QED
  BY <1>1, SMTT(20)

LEMMA PutKeepsLogs ==
    ASSUME NEW incidents, NEW rows, LogsAgree(incidents, rows), NEW id \in DOMAIN incidents,
           NEW x, x.remediations = incidents[id].remediations
    PROVE  LogsAgree(Put(incidents, id, x), rows)
<1> DEFINE t == Put(incidents, id, x)
<1>1. WithRow(incidents, id, x, t)
  BY PutRow
<1>2. DOMAIN t = DOMAIN incidents /\ \A j \in DOMAIN t : t[j].remediations = incidents[j].remediations
  BY <1>1 DEF WithRow
<1>3. LogRows(t) = LogRows(incidents)
  BY <1>2 DEF LogRows
<1> HIDE DEF t
<1> QED
  BY <1>2, <1>3 DEF LogsAgree, t

LEMMA MergeKeepsLogs ==
    ASSUME NEW incidents, NEW rows, LogsAgree(incidents, rows), NEW time, IsFiniteSet(DOMAIN incidents),
           NEW new, JustOpened(new, time), \A id \in DOMAIN new : id \notin DOMAIN incidents
    PROVE  LogsAgree(Merge(incidents, new), rows)
<1> DEFINE t == Merge(incidents, new)
<1>1. /\ DOMAIN t = DOMAIN incidents \cup DOMAIN new
      /\ \A j \in DOMAIN new : t[j] = new[j]
      /\ \A j \in DOMAIN incidents : t[j] = incidents[j]
  <2>1. WithRows(incidents, new, t)
    BY MergeRows DEF JustOpened
  <2> QED
    BY <2>1 DEF WithRows
<1>2. rows \in Seq(LogRows(incidents))
  BY DEF LogsAgree
<1>3. rows \in Seq(LogRows(t))
  BY <1>1, <1>2, LogRowsGrow
<1>4. ASSUME NEW j \in DOMAIN new PROVE LogIn(rows, j) = CutLog(t[j].remediations)
  <2>1. \A k \in DOMAIN rows : rows[k].incident \in DOMAIN incidents
    <3>1. \A k \in DOMAIN rows : rows[k] \in LogRows(incidents)
      BY <1>2, SMTT(20)
    <3>2. \A row \in LogRows(incidents) : row.incident \in DOMAIN incidents
      BY DEF LogRows
    <3> QED
      BY <3>1, <3>2
  <2>2. SeqsIn(rows, j) = {}
    BY <2>1 DEF SeqsIn
  <2>3. LogIn(rows, j) = <<>>
    <3>1. Listed(rows, {}) = <<>>
      BY NoneInOrder, SMTT(20) DEF Listed
    <3> QED
      BY <2>2, <3>1, SMTT(20) DEF LogIn
  <2>4. t[j].remediations = <<>>
    BY <1>1 DEF JustOpened
  <2>5. CutLog(<<>>) = <<>>
    BY SMTT(20) DEF CutLog
  <2> QED
    BY <2>3, <2>4, <2>5
<1>5. ASSUME NEW j \in DOMAIN incidents PROVE LogIn(rows, j) = CutLog(t[j].remediations)
  BY <1>1 DEF LogsAgree
<1> HIDE DEF t
<1> QED
  BY <1>1, <1>3, <1>4, <1>5 DEF LogsAgree, t

-----------------------------------------------------------------------------
(* Appending to a table that is read back in the order of its serials.      *)

LEMMA Appended ==
    ASSUME NEW T, NEW s \in Seq(T), NEW e \in T
    PROVE  /\ Append(s, e) \in Seq(T)
           /\ Len(Append(s, e)) = Len(s) + 1
           /\ DOMAIN Append(s, e) = 1 .. Len(s) + 1
           /\ Append(s, e)[Len(s) + 1] = e
           /\ \A i \in 1 .. Len(s) : Append(s, e)[i] = s[i]
  BY SMTT(20)

LEMMA Places ==
    ASSUME NEW T, NEW rows \in Seq(T), NEW S, S \subseteq 1 .. Len(rows)
    PROVE  /\ Numbers(S) /\ Cardinality(S) \in Nat
           /\ InOrder(S) \in [1 .. Cardinality(S) -> S]
<1>1. Len(rows) \in Nat
  BY SMTT(20)
<1>2. IsFiniteSet(1 .. Len(rows)) /\ 1 .. Len(rows) \subseteq Nat
  BY <1>1, FS_Interval, SMTT(20)
<1>3. IsFiniteSet(S)
  BY <1>2, FS_Subset
<1>4. Numbers(S)
  BY <1>2, <1>3 DEF Numbers
<1> QED
  BY <1>4, InOrderShape

Extended(l, n, e) == [i \in 1 .. n + 1 |-> IF i = n + 1 THEN e ELSE l[i]]

Extends(more, l, e) == \E n \in Nat : DOMAIN l = 1 .. n /\ more = Extended(l, n, e)

(* A row appended to a table comes last among the rows it is listed with. *)
LEMMA ListedGrows ==
    ASSUME NEW T, NEW rows \in Seq(T), NEW row \in T, NEW S, S \subseteq 1 .. Len(rows)
    PROVE  /\ Listed(Append(rows, row), S) = Listed(rows, S)
           /\ Extends(Listed(Append(rows, row), S \cup {Len(rows) + 1}), Listed(rows, S), row)
<1> DEFINE more == Append(rows, row)
           L == Len(rows)
           n == Cardinality(S)
           q == InOrder(S)
           p == InOrder(S \cup {L + 1})
<1>1. L \in Nat /\ more[L + 1] = row /\ \A k \in 1 .. L : more[k] = rows[k]
  BY Appended, SMTT(20)
<1>2. Numbers(S) /\ n \in Nat /\ q \in [1 .. n -> S]
  BY Places
<1>3. p = [i \in 1 .. n + 1 |-> IF i = n + 1 THEN L + 1 ELSE q[i]]
  <2>1. Below(S, L + 1) /\ L + 1 \in Nat
    BY <1>1, SMTT(20) DEF Below
  <2> QED
    BY <1>2, <2>1, InOrderGrows
<1> HIDE DEF more, L, n, q, p
<1>4. ASSUME NEW i \in 1 .. n PROVE q[i] \in S /\ more[q[i]] = rows[q[i]]
  <2>1. q[i] \in S
    BY <1>2
  <2>2. q[i] \in 1 .. L
    BY <2>1 DEF L
  <2> QED
    BY <2>1, <2>2, <1>1
<1>5. Listed(rows, S) = [i \in 1 .. n |-> rows[q[i]]]
  <2>1. DOMAIN q = 1 .. n
    BY <1>2
  <2> QED
    BY <2>1 DEF Listed, q
<1>6. Listed(more, S) = [i \in 1 .. n |-> more[q[i]]]
  <2>1. DOMAIN q = 1 .. n
    BY <1>2
  <2> QED
    BY <2>1 DEF Listed, q
<1>7. Listed(more, S \cup {L + 1}) = [i \in 1 .. n + 1 |-> more[p[i]]]
  <2>1. DOMAIN p = 1 .. n + 1
    BY <1>3
  <2> QED
    BY <2>1 DEF Listed, p
<1>8. Listed(more, S) = Listed(rows, S)
  BY <1>4, <1>5, <1>6
<1>9. ASSUME NEW i \in 1 .. n + 1
      PROVE  more[p[i]] = IF i = n + 1 THEN row ELSE Listed(rows, S)[i]
  <2>1. CASE i = n + 1
    BY <2>1, <1>3, <1>1
  <2>2. CASE i # n + 1
    <3>1. i \in 1 .. n
      BY <2>2, <1>2, SMTT(20)
    <3>2. p[i] = q[i]
      BY <2>2, <3>1, <1>3
    <3> QED
      BY <2>2, <3>1, <3>2, <1>4, <1>5
  <2> QED
    BY <2>1, <2>2
<1>10. Listed(more, S \cup {L + 1}) = Extended(Listed(rows, S), n, row)
  BY <1>7, <1>9 DEF Extended
<1>11. DOMAIN Listed(rows, S) = 1 .. n
  BY <1>5
<1> QED
  BY <1>2, <1>8, <1>10, <1>11 DEF Extends, more, L

LEMMA SameLength == ASSUME NEW a \in Nat, NEW b \in Nat, 1 .. a = 1 .. b PROVE a = b
<1>1. Cardinality(1 .. a) = a /\ Cardinality(1 .. b) = b
  BY FS_Interval, SMTT(20)
<1> QED
  BY <1>1

CutRow(r) == [r EXCEPT !.at = P!Micro(@)]

LEMMA CutGrows ==
    ASSUME NEW T, NEW log \in Seq(T), NEW rem \in T
    PROVE  Extends(CutLog(Append(log, rem)), CutLog(log), CutRow(rem))
<1> DEFINE n == Len(log)
<1>1. /\ n \in Nat /\ DOMAIN log = 1 .. n
      /\ DOMAIN Append(log, rem) = 1 .. n + 1 /\ Append(log, rem)[n + 1] = rem
      /\ \A i \in 1 .. n : Append(log, rem)[i] = log[i]
  BY Appended, SMTT(20)
<1> HIDE DEF n
<1>2. \A i \in 1 .. n + 1 : i # n + 1 => i \in 1 .. n
  BY <1>1, SMTT(20)
<1>3. /\ CutLog(Append(log, rem)) = [i \in 1 .. n + 1 |-> CutRow(Append(log, rem)[i])]
      /\ CutLog(log) = [i \in 1 .. n |-> CutRow(log[i])]
  BY <1>1 DEF CutLog, CutRow
<1>4. \A i \in 1 .. n + 1 :
        CutRow(Append(log, rem)[i]) = IF i = n + 1 THEN CutRow(rem) ELSE CutLog(log)[i]
  BY <1>1, <1>2, <1>3
<1>5. CutLog(Append(log, rem)) = Extended(CutLog(log), n, CutRow(rem))
  BY <1>3, <1>4 DEF Extended
<1>6. DOMAIN CutLog(log) = 1 .. n
  BY <1>3
<1> QED
  BY <1>1, <1>5, <1>6 DEF Extends

(* What extends the same list by the same element is the same. *)
LEMMA SameExtension ==
    ASSUME NEW l, NEW e, NEW a, NEW b, Extends(a, l, e), Extends(b, l, e)
    PROVE  a = b
<1>1. PICK m \in Nat : DOMAIN l = 1 .. m /\ a = Extended(l, m, e)
  BY DEF Extends
<1>2. PICK n \in Nat : DOMAIN l = 1 .. n /\ b = Extended(l, n, e)
  BY DEF Extends
<1>3. m = n
  BY <1>1, <1>2, SameLength
<1> QED
  BY <1>1, <1>2, <1>3

-----------------------------------------------------------------------------
(* Cutting times to the microsecond.                                        *)

LEMMA MicroNat == ASSUME NEW t \in Nat PROVE P!Micro(t) \in Nat /\ P!Micro(t) <= t
  BY GrainAssumption, SMTT(20) DEF P!Micro

LEMMA MicroMonotone == ASSUME NEW t \in Nat, NEW u \in Nat, t <= u PROVE P!Micro(t) <= P!Micro(u)
  BY GrainAssumption, SMTT(20) DEF P!Micro

(* Times a microsecond apart stay apart. *)
LEMMA MicroApart == ASSUME NEW t \in Nat, NEW u \in Nat, t + Grain <= u PROVE P!Micro(t) < P!Micro(u)
  BY GrainAssumption, SMTT(20) DEF P!Micro

LEMMA MicroWhole == ASSUME NEW t \in Nat, t % Grain = 0 PROVE P!Micro(t) = t
  BY GrainAssumption, SMTT(20) DEF P!Micro

LEMMA AppendKeepsLogs ==
    ASSUME NEW incidents, NEW rows, LogsAgree(incidents, rows), NEW id \in DOMAIN incidents,
           incidents[id] \in IncidentRecords, NEW rem \in Remediations, NEW x,
           x.remediations = Append(incidents[id].remediations, rem),
           NEW row, row = [id |-> rem.id, incident |-> id, at |-> P!Micro(rem.at)]
    PROVE  LogsAgree(Put(incidents, id, x), Append(rows, row))
<1> DEFINE t == Put(incidents, id, x)
           more == Append(rows, row)
           L == Len(rows)
           old == incidents[id].remediations
<1>1. DOMAIN t = DOMAIN incidents /\ t[id] = x /\ \A j \in DOMAIN t : j # id => t[j] = incidents[j]
  <2>1. WithRow(incidents, id, x, t)
    BY PutRow
  <2> QED
    BY <2>1 DEF WithRow
<1>2. LogRows(t) = LogRows(incidents)
  BY <1>1 DEF LogRows
<1>3. rows \in Seq(LogRows(incidents)) /\ \A j \in DOMAIN incidents : LogIn(rows, j) = CutLog(incidents[j].remediations)
  BY DEF LogsAgree
<1>4. rem.id \in Nat /\ rem.at \in Nat /\ P!Micro(rem.at) \in Nat
  BY MicroNat DEF Remediations
<1>5. row \in LogRows(incidents) /\ row.incident = id
  BY <1>4 DEF LogRows
<1>6. P!Remediation(row) = CutRow(rem)
  BY SMTT(20) DEF P!Remediation, CutRow, Remediations
<1>7. old \in Seq(Remediations)
  BY DEF IncidentRecords
<1> HIDE DEF LogRows, Remediations
<1>8. /\ more \in Seq(LogRows(incidents)) /\ L \in Nat
      /\ DOMAIN rows = 1 .. L /\ DOMAIN more = 1 .. L + 1 /\ more[L + 1] = row
      /\ \A k \in 1 .. L : more[k] = rows[k]
  BY <1>3, <1>5, Appended, SMTT(20)
<1>9. /\ \A k \in 1 .. L + 1 : k \in 1 .. L \/ k = L + 1
      /\ \A k \in 1 .. L : k \in 1 .. L + 1
      /\ L + 1 \in 1 .. L + 1
  BY <1>8, SMTT(20)
<1>10. \A j : SeqsIn(rows, j) \subseteq 1 .. L
  BY <1>8 DEF SeqsIn
<1> HIDE DEF t, more
<1>11. ASSUME NEW j \in DOMAIN t, j # id PROVE LogIn(more, j) = CutLog(t[j].remediations)
  <2>1. SeqsIn(more, j) = SeqsIn(rows, j)
    BY <1>5, <1>8, <1>9, <1>11 DEF SeqsIn
  <2>2. Listed(more, SeqsIn(rows, j)) = Listed(rows, SeqsIn(rows, j))
    BY <1>3, <1>5, <1>10, ListedGrows DEF more
  <2>3. LogIn(more, j) = LogIn(rows, j)
    BY <2>1, <2>2 DEF LogIn
  <2> QED
    BY <2>3, <1>1, <1>3, <1>11
<1>12. LogIn(more, id) = CutLog(t[id].remediations)
  <2> DEFINE l == Listed(rows, SeqsIn(rows, id))
             m == Listed(more, SeqsIn(more, id))
  <2>1. SeqsIn(more, id) = SeqsIn(rows, id) \cup {L + 1}
    BY <1>5, <1>8, <1>9 DEF SeqsIn
  <2>2. Extends(m, l, row)
    BY <2>1, <1>3, <1>5, <1>10, ListedGrows DEF more
  <2> HIDE DEF l, m
  <2>3. PICK n \in Nat : DOMAIN l = 1 .. n /\ m = Extended(l, n, row)
    BY <2>2 DEF Extends
  <2>4. LogIn(rows, id) = [i \in 1 .. n |-> P!Remediation(l[i])]
    BY <2>3 DEF LogIn, l
  <2>5. DOMAIN m = 1 .. n + 1 /\ \A i \in 1 .. n + 1 : m[i] = IF i = n + 1 THEN row ELSE l[i]
    BY <2>3 DEF Extended
  <2>6. LogIn(more, id) = [i \in 1 .. n + 1 |-> P!Remediation(m[i])]
    BY <2>5 DEF LogIn, m
  <2>7. \A i \in 1 .. n + 1 : i # n + 1 => i \in 1 .. n
    BY SMTT(20)
  <2>8. \A i \in 1 .. n + 1 : P!Remediation(m[i]) =
            IF i = n + 1 THEN CutRow(rem) ELSE LogIn(rows, id)[i]
    BY <2>4, <2>5, <2>7, <1>6
  <2>9. LogIn(more, id) = Extended(LogIn(rows, id), n, CutRow(rem))
    BY <2>6, <2>8 DEF Extended
  <2>10. Extends(LogIn(more, id), LogIn(rows, id), CutRow(rem))
    BY <2>4, <2>9 DEF Extends
  <2>11. LogIn(rows, id) = CutLog(old)
    BY <1>3
  <2>12. Extends(CutLog(Append(old, rem)), CutLog(old), CutRow(rem))
    BY <1>7, CutGrows
  <2>13. LogIn(more, id) = CutLog(Append(old, rem))
    BY <2>10, <2>11, <2>12, SameExtension
  <2> QED
    BY <2>13, <1>1
<1> QED
  BY <1>2, <1>8, <1>11, <1>12 DEF LogsAgree, t, more

-----------------------------------------------------------------------------
(* The history of a package.                                                *)

(* A history whose times ascend and lie before a moment; empty when new. *)
Ascended(log, time) ==
    /\ log \in Seq(Snapshots)
    /\ \A i, j \in 1 .. Len(log) : i <= j => log[i].at <= log[j].at
    /\ \A i \in 1 .. Len(log) : log[i].at < time

LEMMA AscendsLater ==
    ASSUME NEW log, NEW time \in Nat, NEW later \in Nat, time <= later, Ascends(log, time)
    PROVE  Ascends(log, later)
<1>1. log \in Seq(Snapshots)
  BY DEF Ascends
<1>2. \A i \in 1 .. Len(log) : log[i] \in Snapshots
  <2> HIDE DEF Snapshots
  <2> QED
    BY <1>1, SMTT(20)
<1>3. \A i \in 1 .. Len(log) : log[i].at \in Nat
  BY <1>2 DEF Snapshots
<1>4. \A i \in 1 .. Len(log) : log[i].at < time
  BY DEF Ascends
<1>5. \A i \in 1 .. Len(log) : log[i].at < later
  BY <1>3, <1>4, SMTT(20)
<1> QED
  BY <1>5 DEF Ascends

LEMMA AscendsOn ==
    ASSUME NEW log, NEW time \in Nat, Ascended(log, time), NEW snap \in Snapshots, snap.at = time
    PROVE  Ascends(Append(log, snap), time + 1)
<1> DEFINE n == Len(log)
           more == Append(log, snap)
<1>1. log \in Seq(Snapshots)
  BY DEF Ascended
<1>2. /\ n \in Nat /\ more \in Seq(Snapshots) /\ Len(more) = n + 1
      /\ DOMAIN more = 1 .. n + 1 /\ more[n + 1] = snap
      /\ \A i \in 1 .. n : more[i] = log[i]
  BY <1>1, Appended, SMTT(20)
<1>3. \A i \in 1 .. n : log[i] \in Snapshots
  <2> HIDE DEF Snapshots
  <2> QED
    BY <1>1, SMTT(20)
<1>4. \A i \in 1 .. n : log[i].at \in Nat
  BY <1>3 DEF Snapshots
<1>5. /\ \A i, j \in 1 .. n : i <= j => log[i].at <= log[j].at
      /\ \A i \in 1 .. n : log[i].at < time
  BY DEF Ascended
<1> HIDE DEF n, more
<1>6. ASSUME NEW i \in 1 .. n + 1 PROVE more[i].at \in Nat /\ more[i].at <= time
  <2>1. CASE i = n + 1
    BY <2>1, <1>2, SMTT(20)
  <2>2. CASE i # n + 1
    <3>1. i \in 1 .. n
      BY <2>2, <1>2, SMTT(20)
    <3>2. more[i].at = log[i].at
      BY <3>1, <1>2
    <3> QED
      BY <3>1, <3>2, <1>4, <1>5, SMTT(30)
  <2> QED
    BY <2>1, <2>2
<1>7. ASSUME NEW i \in 1 .. n + 1, NEW j \in 1 .. n + 1, i <= j PROVE more[i].at <= more[j].at
  <2>1. CASE j = n + 1
    <3>1. more[j].at = time
      BY <2>1, <1>2
    <3> QED
      BY <3>1, <1>6
  <2>2. CASE j # n + 1
    <3>1. i \in 1 .. n /\ j \in 1 .. n
      BY <2>2, <1>2, <1>7, SMTT(20)
    <3>2. more[i].at = log[i].at /\ more[j].at = log[j].at
      BY <3>1, <1>2
    <3> QED
      BY <3>1, <3>2, <1>5, <1>7
  <2> QED
    BY <2>1, <2>2
<1>8. \A i \in 1 .. n + 1 : more[i].at < time + 1
  BY <1>6, SMTT(20)
<1>9. more # <<>>
  BY <1>2, SMTT(20)
<1> QED
  BY <1>2, <1>7, <1>8, <1>9 DEF Ascends, more

HistoryRows(history) == [ref : DOMAIN history, at : Nat]

LEMMA SaveKeepsHistory ==
    ASSUME NEW history, NEW rows, NEW time \in Nat, HistoryAgrees(history, rows, time),
           NEW ref \in Tracked, NEW snap, snap = [ref |-> ref, at |-> time],
           NEW row, row = [ref |-> ref, at |-> P!Micro(time)]
    PROVE  HistoryAgrees(Put(history, ref, IF ref \in DOMAIN history THEN Append(history[ref], snap)
                                           ELSE <<snap>>),
                         Append(rows, row), time + 1)
<1> DEFINE old == IF ref \in DOMAIN history THEN history[ref] ELSE <<>>
           log == IF ref \in DOMAIN history THEN Append(history[ref], snap) ELSE <<snap>>
           t == Put(history, ref, log)
           more == Append(rows, row)
           L == Len(rows)
<1>1. log = Append(old, snap)
  <2>1. Append(<<>>, snap) = <<snap>>
    BY SMTT(20)
  <2> QED
    BY <2>1
<1>2. /\ IsFiniteSet(DOMAIN history) /\ rows \in Seq(HistoryRows(history))
      /\ \A j \in DOMAIN history : Ascends(history[j], time) /\ HistoryIn(rows, j) = CutLog(history[j])
  BY DEF HistoryAgrees, HistoryRows
<1> HIDE DEF log
<1>3. /\ DOMAIN t = DOMAIN history \cup {ref} /\ t[ref] = log
      /\ \A j \in DOMAIN history : j # ref => t[j] = history[j]
      /\ IsFiniteSet(DOMAIN t)
  <2>1. WithRow(history, ref, log, t) /\ IsFiniteSet(DOMAIN t)
    BY <1>2, PutRow
  <2> QED
    BY <2>1 DEF WithRow
<1>4. snap \in Snapshots /\ snap.at = time /\ row \in HistoryRows(t) /\ row.ref = ref
  BY <1>3, MicroNat DEF Snapshots, HistoryRows
<1>5. row = CutRow(snap)
  BY SMTT(20) DEF CutRow
<1>6. \A r \in HistoryRows(history) : r.ref \in DOMAIN history
  BY DEF HistoryRows
<1>7. HistoryRows(history) \subseteq HistoryRows(t)
  BY <1>3 DEF HistoryRows
<1> HIDE DEF HistoryRows, t
<1>8. rows \in Seq(HistoryRows(t)) /\ \A k \in DOMAIN rows : rows[k] \in HistoryRows(history)
  BY <1>2, <1>7, SMTT(30)
<1>9. /\ more \in Seq(HistoryRows(t)) /\ L \in Nat
      /\ DOMAIN rows = 1 .. L /\ DOMAIN more = 1 .. L + 1 /\ more[L + 1] = row
      /\ \A k \in 1 .. L : more[k] = rows[k]
  BY <1>4, <1>8, Appended, SMTT(20)
<1>10. /\ \A k \in 1 .. L + 1 : k \in 1 .. L \/ k = L + 1
       /\ \A k \in 1 .. L : k \in 1 .. L + 1
       /\ L + 1 \in 1 .. L + 1
  BY <1>9, SMTT(20)
<1>11. \A j : IdsIn(rows, j) \subseteq 1 .. L
  BY <1>9 DEF IdsIn
<1>12. HistoryIn(rows, ref) = CutLog(old) /\ Ascended(old, time)
  <2>1. CASE ref \in DOMAIN history
    BY <2>1, <1>2 DEF Ascends, Ascended
  <2>2. CASE ref \notin DOMAIN history
    <3>1. IdsIn(rows, ref) = {}
      BY <2>2, <1>6, <1>8 DEF IdsIn
    <3>2. HistoryIn(rows, ref) = <<>> /\ old = <<>>
      BY <2>2, <3>1, NoneInOrder, SMTT(20) DEF HistoryIn, Listed
    <3>3. CutLog(<<>>) = <<>>
      BY SMTT(20) DEF CutLog
    <3>4. Ascended(<<>>, time)
      BY SMTT(20) DEF Ascended
    <3> QED
      BY <3>2, <3>3, <3>4
  <2> QED
    BY <2>1, <2>2
<1> HIDE DEF more, old
<1>13. ASSUME NEW j \in DOMAIN t, j # ref
       PROVE  Ascends(t[j], time + 1) /\ HistoryIn(more, j) = CutLog(t[j])
  <2>1. j \in DOMAIN history /\ t[j] = history[j]
    BY <1>3, <1>13
  <2>2. IdsIn(more, j) = IdsIn(rows, j)
    BY <1>4, <1>9, <1>10, <1>13 DEF IdsIn
  <2>3. Listed(more, IdsIn(rows, j)) = Listed(rows, IdsIn(rows, j))
    BY <1>4, <1>8, <1>11, ListedGrows DEF more
  <2>4. HistoryIn(more, j) = CutLog(t[j])
    BY <2>1, <2>2, <2>3, <1>2 DEF HistoryIn
  <2>5. time + 1 \in Nat /\ time <= time + 1
    BY SMTT(20)
  <2>6. Ascends(t[j], time + 1)
    BY <2>1, <2>5, <1>2, AscendsLater
  <2> QED
    BY <2>4, <2>6
<1>14. Ascends(log, time + 1)
  BY <1>1, <1>4, <1>12, AscendsOn
<1>15. HistoryIn(more, ref) = CutLog(log)
  <2>1. IdsIn(more, ref) = IdsIn(rows, ref) \cup {L + 1}
    BY <1>4, <1>9, <1>10 DEF IdsIn
  <2>2. Extends(HistoryIn(more, ref), HistoryIn(rows, ref), row)
    BY <2>1, <1>4, <1>8, <1>11, ListedGrows DEF more, HistoryIn
  <2>3. Extends(CutLog(log), CutLog(old), row)
    BY <1>1, <1>4, <1>5, <1>12, CutGrows DEF Ascended
  <2> QED
    BY <2>2, <2>3, <1>12, SameExtension
<1> QED
  BY <1>3, <1>9, <1>13, <1>14, <1>15 DEF HistoryAgrees, HistoryRows, t, more, log

-----------------------------------------------------------------------------
(* As time passes; anomalies; publishers and profiles.                      *)

LEMMA IncidentsLater ==
    ASSUME NEW incidents, NEW rows, NEW time \in Nat, IncidentsAgree(incidents, rows, time),
           NEW later \in Nat, time <= later
    PROVE  IncidentsAgree(incidents, rows, later)
<1>1. \A id \in DOMAIN incidents : id[1] \in Nat /\ id[1] < time
  BY DEF IncidentsAgree
<1>2. \A id \in DOMAIN incidents : id[1] < later
  BY <1>1, SMTT(20)
<1> QED
  BY <1>2 DEF IncidentsAgree

LEMMA HistoryLater ==
    ASSUME NEW history, NEW rows, NEW time \in Nat, HistoryAgrees(history, rows, time),
           NEW later \in Nat, time <= later
    PROVE  HistoryAgrees(history, rows, later)
<1>1. \A ref \in DOMAIN history : Ascends(history[ref], later)
  BY AscendsLater DEF HistoryAgrees
<1> QED
  BY <1>1 DEF HistoryAgrees

LEMMA PublishersLater ==
    ASSUME NEW publishers, NEW profiles, NEW parents, NEW rows, NEW time \in Nat,
           PublishersAgree(publishers, profiles, parents, rows, time),
           NEW later \in Nat, time <= later
    PROVE  PublishersAgree(publishers, profiles, parents, rows, later)
<1>1. /\ \A name \in DOMAIN publishers : publishers[name] \in [seen : Nat] /\ publishers[name].seen < time
      /\ \A name \in DOMAIN profiles : profiles[name] \in Profiles /\ profiles[name].seen < time
  BY DEF PublishersAgree
<1>2. /\ \A name \in DOMAIN publishers : publishers[name].seen \in Nat
      /\ \A name \in DOMAIN profiles : profiles[name].seen \in Nat
  BY <1>1 DEF Profiles
<1>3. /\ \A name \in DOMAIN publishers : publishers[name].seen < later
      /\ \A name \in DOMAIN profiles : profiles[name].seen < later
  BY <1>1, <1>2, SMTT(20)
<1> QED
  BY <1>1, <1>3 DEF PublishersAgree

-----------------------------------------------------------------------------
LEMMA AddAnomaly ==
    ASSUME NEW anomalies, NEW rows, NEW serial, AnomaliesAgree(anomalies, rows, serial),
           NEW time \in Nat, NEW a \in Anomalies, a.at = time,
           \A id \in DOMAIN anomalies : anomalies[id].kind = a.kind /\ anomalies[id].ref = a.ref =>
               anomalies[id].at + Grain <= time,
           NEW row, row = [a EXCEPT !.at = P!Micro(@)]
    PROVE  /\ a \notin { anomalies[id] : id \in DOMAIN anomalies }
           /\ row \notin { rows[id] : id \in DOMAIN rows }
           /\ Cardinality(DOMAIN anomalies) = serial
           /\ AnomaliesAgree(Put(anomalies, serial + 1, a), Put(rows, serial + 1, row), serial + 1)
<1> DEFINE C(x) == [x EXCEPT !.at = P!Micro(@)]
           t == Put(anomalies, serial + 1, a)
<1>1. /\ serial \in Nat /\ DOMAIN anomalies = 1 .. serial /\ DOMAIN rows = 1 .. serial
      /\ \A id \in 1 .. serial : anomalies[id] \in Anomalies
      /\ \A id \in 1 .. serial : rows[id] = C(anomalies[id])
  BY DEF AnomaliesAgree
<1>2. \A x \in Anomalies : x.at \in Nat /\ C(x).kind = x.kind /\ C(x).ref = x.ref /\ C(x).at = P!Micro(x.at)
  BY DEF Anomalies
<1>3. ASSUME NEW id \in 1 .. serial PROVE anomalies[id] # a /\ rows[id] # row
  <2> DEFINE x == anomalies[id]
  <2>1. x \in Anomalies /\ rows[id] = C(x) /\ row = C(a)
    BY <1>1
  <2> HIDE DEF x, C
  <2>2. x.kind = a.kind /\ x.ref = a.ref => x.at + Grain <= time
    BY <1>1 DEF x
  <2>3. x.kind = a.kind /\ x.ref = a.ref => x.at < time /\ P!Micro(x.at) < P!Micro(time)
    BY <2>1, <2>2, <1>2, MicroApart, GrainAssumption, SMTT(20)
  <2>4. \A n \in Nat : ~ (n < n)
    BY SMTT(20)
  <2>5. time \in Nat /\ P!Micro(time) \in Nat
    BY MicroNat
  <2>6. x # a
    BY <2>3, <2>4, <2>5
  <2>7. C(x) # C(a)
    BY <2>1, <2>3, <2>4, <2>5, <1>2
  <2> QED
    BY <2>1, <2>6, <2>7 DEF x
<1>4. Cardinality(DOMAIN anomalies) = serial
  BY <1>1, FS_Interval, SMTT(20)
<1>5. /\ DOMAIN t = 1 .. serial + 1 /\ t[serial + 1] = a
      /\ \A j \in 1 .. serial : t[j] = anomalies[j]
      /\ \A j \in 1 .. serial + 1 : j \in 1 .. serial \/ j = serial + 1
      /\ \A j \in 1 .. serial : j # serial + 1
      /\ serial + 1 \in Nat
  <2>1. WithRow(anomalies, serial + 1, a, t)
    BY PutRow
  <2>2. /\ DOMAIN t = DOMAIN anomalies \cup {serial + 1} /\ t[serial + 1] = a
        /\ \A j \in DOMAIN anomalies : j # serial + 1 => t[j] = anomalies[j]
    BY <2>1 DEF WithRow
  <2> HIDE DEF t
  <2>3. /\ (1 .. serial) \cup {serial + 1} = 1 .. serial + 1
        /\ \A j \in 1 .. serial : j # serial + 1
        /\ \A j \in 1 .. serial + 1 : j \in 1 .. serial \/ j = serial + 1
        /\ serial + 1 \in Nat
    BY <1>1, SMTT(20)
  <2> QED
    BY <2>2, <2>3, <1>1
<1> HIDE DEF C
<1>6. Put(rows, serial + 1, row) = [j \in 1 .. serial + 1 |-> C(t[j])]
  <2> HIDE DEF t
  <2>1. row = C(a)
    BY DEF C
  <2>2. DOMAIN rows \cup {serial + 1} = 1 .. serial + 1
    BY <1>1, SMTT(20)
  <2>3. Put(rows, serial + 1, row) =
            [j \in 1 .. serial + 1 |-> IF j = serial + 1 THEN row ELSE rows[j]]
    BY <2>2 DEF Put
  <2>4. \A j \in 1 .. serial + 1 : (IF j = serial + 1 THEN row ELSE rows[j]) = C(t[j])
    BY <1>1, <1>5, <2>1
  <2> QED
    BY <2>3, <2>4
<1>7. AnomaliesAgree(t, Put(rows, serial + 1, row), serial + 1)
  <2> HIDE DEF t
  <2>1. \A j \in 1 .. serial + 1 : t[j] \in Anomalies
    BY <1>1, <1>5
  <2> QED
    BY <2>1, <1>5, <1>6 DEF AnomaliesAgree, C
<1> QED
  BY <1>1, <1>3, <1>4, <1>7

-----------------------------------------------------------------------------
IsCopy(publishers, profiles, name, c) ==
    \/ name \in DOMAIN publishers /\ c = publishers[name].seen
    \/ name \in DOMAIN profiles /\ c = profiles[name].seen

LEMMA CopiesAre ==
    ASSUME NEW publishers, NEW profiles, NEW name, NEW c
    PROVE  c \in Copies(publishers, profiles, name) <=> IsCopy(publishers, profiles, name, c)
  BY DEF Copies, Lookup, IsCopy

(* What the two tables of the memory store hold. *)
SeenBefore(table, rows, time) ==
    \A name \in DOMAIN table : table[name] \in rows /\ table[name].seen \in Nat /\ table[name].seen < time

LEMMA SeenSoFar ==
    ASSUME NEW publishers, NEW profiles, NEW parents, NEW rows, NEW time \in Nat,
           PublishersAgree(publishers, profiles, parents, rows, time)
    PROVE  SeenBefore(publishers, [seen : Nat], time) /\ SeenBefore(profiles, Profiles, time)
<1>1. \A row \in [seen : Nat] : row.seen \in Nat
  OBVIOUS
<1>2. \A row \in Profiles : row.seen \in Nat
  BY DEF Profiles
<1> QED
  BY <1>1, <1>2 DEF PublishersAgree, SeenBefore

LEMMA SeenNow ==
    ASSUME NEW table, NEW rows, NEW time \in Nat, SeenBefore(table, rows, time),
           NEW name, NEW row \in rows, row.seen = time
    PROVE  SeenBefore(Put(table, name, row), rows, time + 1)
<1> DEFINE t == Put(table, name, row)
<1>1. WithRow(table, name, row, t)
  BY PutRow
<1>2. /\ DOMAIN t = DOMAIN table \cup {name} /\ t[name] = row
      /\ \A j \in DOMAIN table : j # name => t[j] = table[j]
  BY <1>1 DEF WithRow
<1>3. \A j \in DOMAIN table : table[j] \in rows /\ table[j].seen \in Nat /\ table[j].seen < time
  BY DEF SeenBefore
<1> HIDE DEF t
<1>4. \A j \in DOMAIN t : t[j] \in rows /\ t[j].seen \in Nat /\ (t[j].seen = time \/ t[j].seen < time)
  BY <1>2, <1>3
<1>5. \A j \in DOMAIN t : t[j].seen < time + 1
  BY <1>4, SMTT(20)
<1> QED
  BY <1>4, <1>5 DEF SeenBefore, t

LEMMA SeenStill ==
    ASSUME NEW table, NEW rows, NEW time \in Nat, SeenBefore(table, rows, time)
    PROVE  SeenBefore(table, rows, time + 1)
<1>1. \A j \in DOMAIN table : table[j].seen \in Nat /\ table[j].seen < time
  BY DEF SeenBefore
<1>2. \A j \in DOMAIN table : table[j].seen < time + 1
  BY <1>1, SMTT(20)
<1> QED
  BY <1>2 DEF SeenBefore

(* The copy written now is the newest. *)
LEMMA NewestNow ==
    ASSUME NEW publishers, NEW profiles, NEW time \in Nat, NEW A, NEW B,
           SeenBefore(publishers, A, time + 1), SeenBefore(profiles, B, time + 1),
           NEW name, time \in Copies(publishers, profiles, name)
    PROVE  IsNewest(Copies(publishers, profiles, name), [seen |-> P!Micro(time)])
<1>1. ASSUME NEW d \in Copies(publishers, profiles, name) PROVE d <= time
  <2>1. IsCopy(publishers, profiles, name, d)
    BY CopiesAre
  <2>2. d \in Nat /\ d < time + 1
    BY <2>1 DEF SeenBefore, IsCopy
  <2> QED
    BY <2>2, SMTT(20)
<1> QED
  BY <1>1 DEF IsNewest

LEMMA PutPublisher ==
    ASSUME NEW publishers, NEW profiles, NEW parents, NEW rows, NEW time \in Nat,
           PublishersAgree(publishers, profiles, parents, rows, time), NEW name
    PROVE  PublishersAgree(Put(publishers, name, [seen |-> time]), profiles,
                           Put(parents, name, [seen |-> P!Micro(time)]), rows, time + 1)
<1> DEFINE t == Put(publishers, name, [seen |-> time])
           u == Put(parents, name, [seen |-> P!Micro(time)])
<1>1. SeenBefore(t, [seen : Nat], time + 1) /\ SeenBefore(profiles, Profiles, time + 1)
  <2>1. [seen |-> time] \in [seen : Nat] /\ [seen |-> time].seen = time
    OBVIOUS
  <2> QED
    BY <2>1, SeenSoFar, SeenNow, SeenStill
<1>2. WithRow(publishers, name, [seen |-> time], t) /\ WithRow(parents, name, [seen |-> P!Micro(time)], u)
  BY PutRow
<1> HIDE DEF t, u
<1>3. DOMAIN u = DOMAIN t \cup DOMAIN profiles
  BY <1>2 DEF WithRow, PublishersAgree
<1>4. ASSUME NEW n \in DOMAIN u PROVE IsNewest(Copies(t, profiles, n), u[n])
  <2>1. CASE n = name
    <3>1. t[name].seen = time /\ name \in DOMAIN t
      BY <1>2, SMTT(20) DEF WithRow
    <3>2. time \in Copies(t, profiles, name)
      BY <3>1, CopiesAre DEF IsCopy
    <3>3. u[name] = [seen |-> P!Micro(time)]
      BY <1>2 DEF WithRow
    <3> QED
      BY <2>1, <3>2, <3>3, <1>1, NewestNow
  <2>2. CASE n # name
    <3>1. /\ n \in DOMAIN parents /\ u[n] = parents[n]
          /\ (n \in DOMAIN t <=> n \in DOMAIN publishers) /\ (n \in DOMAIN t => t[n] = publishers[n])
      BY <2>2, <1>2 DEF WithRow
    <3>2. \A c : IsCopy(t, profiles, n, c) <=> IsCopy(publishers, profiles, n, c)
      BY <3>1 DEF IsCopy
    <3>3. \A c : c \in Copies(t, profiles, n) <=> c \in Copies(publishers, profiles, n)
      BY <3>2, CopiesAre
    <3>4. Copies(t, profiles, n) = Copies(publishers, profiles, n)
      BY <3>3
    <3> QED
      BY <3>1, <3>4 DEF PublishersAgree
  <2> QED
    BY <2>1, <2>2
<1> QED
  BY <1>1, <1>3, <1>4 DEF PublishersAgree, SeenBefore, t, u

LEMMA PutProfile ==
    ASSUME NEW publishers, NEW profiles, NEW parents, NEW rows, NEW time \in Nat,
           PublishersAgree(publishers, profiles, parents, rows, time), NEW name,
           NEW profile \in Profiles, profile.seen = time
    PROVE  PublishersAgree(publishers, Put(profiles, name, profile),
                           Put(parents, name, [seen |-> P!Micro(time)]),
                           Put(rows, name, P!ProfileRow(profile)), time + 1)
<1> DEFINE t == Put(profiles, name, profile)
           u == Put(parents, name, [seen |-> P!Micro(time)])
           v == Put(rows, name, P!ProfileRow(profile))
<1>1. SeenBefore(publishers, [seen : Nat], time + 1) /\ SeenBefore(t, Profiles, time + 1)
  BY SeenSoFar, SeenNow, SeenStill
<1>2. WithRow(profiles, name, profile, t) /\ WithRow(parents, name, [seen |-> P!Micro(time)], u)
  BY PutRow
<1>3. v = [n \in DOMAIN t |-> P!ProfileRow(t[n])]
  <2>1. DOMAIN rows = DOMAIN profiles /\ \A j \in DOMAIN profiles : rows[j] = P!ProfileRow(profiles[j])
    BY DEF PublishersAgree
  <2> HIDE DEF t
  <2>2. /\ DOMAIN t = DOMAIN profiles \cup {name} /\ t[name] = profile
        /\ \A j \in DOMAIN profiles : j # name => t[j] = profiles[j]
    BY <1>2 DEF WithRow
  <2>3. v = [j \in DOMAIN t |-> IF j = name THEN P!ProfileRow(profile) ELSE rows[j]]
    BY <2>1, <2>2 DEF Put
  <2>4. \A j \in DOMAIN t : (IF j = name THEN P!ProfileRow(profile) ELSE rows[j]) = P!ProfileRow(t[j])
    BY <2>1, <2>2
  <2> QED
    BY <2>3, <2>4
<1> HIDE DEF t, u, v
<1>4. DOMAIN u = DOMAIN publishers \cup DOMAIN t
  BY <1>2 DEF WithRow, PublishersAgree
<1>5. ASSUME NEW n \in DOMAIN u PROVE IsNewest(Copies(publishers, t, n), u[n])
  <2>1. CASE n = name
    <3>1. t[name].seen = time /\ name \in DOMAIN t
      BY <1>2 DEF WithRow
    <3>2. time \in Copies(publishers, t, name)
      BY <3>1, CopiesAre DEF IsCopy
    <3>3. u[name] = [seen |-> P!Micro(time)]
      BY <1>2 DEF WithRow
    <3> QED
      BY <2>1, <3>2, <3>3, <1>1, NewestNow
  <2>2. CASE n # name
    <3>1. /\ n \in DOMAIN parents /\ u[n] = parents[n]
          /\ (n \in DOMAIN t <=> n \in DOMAIN profiles) /\ (n \in DOMAIN t => t[n] = profiles[n])
      BY <2>2, <1>2 DEF WithRow
    <3>2. \A c : IsCopy(publishers, t, n, c) <=> IsCopy(publishers, profiles, n, c)
      BY <3>1 DEF IsCopy
    <3>3. \A c : c \in Copies(publishers, t, n) <=> c \in Copies(publishers, profiles, n)
      BY <3>2, CopiesAre
    <3>4. Copies(publishers, t, n) = Copies(publishers, profiles, n)
      BY <3>3
    <3> QED
      BY <3>1, <3>4 DEF PublishersAgree
  <2> QED
    BY <2>1, <2>2
<1> QED
  BY <1>1, <1>3, <1>4, <1>5 DEF PublishersAgree, SeenBefore, t, u, v

-----------------------------------------------------------------------------
(* The incidents a request opens, and the matches they cover.               *)

LEMMA MicroTwice == ASSUME NEW t \in Nat PROVE P!Micro(P!Micro(t)) = P!Micro(t)
<1> DEFINE q == t \div Grain
<1>1. q \in Nat
  BY GrainAssumption, SMTT(20)
<1>2. P!Micro(t) = q * Grain
  BY DEF P!Micro
<1> HIDE DEF q
<1>3. (q * Grain) \div Grain = q
  BY <1>1, GrainAssumption, SMTT(20)
<1> QED
  BY <1>2, <1>3 DEF P!Micro

LEMMA FiniteImage ==
    ASSUME NEW S, IsFiniteSet(S), NEW f
    PROVE  IsFiniteSet({ f[x] : x \in S })
<1> DEFINE T == { f[x] : x \in S }
           g == [x \in S |-> f[x]]
<1>1. g \in [S -> T] /\ \A y \in T : \E x \in S : g[x] = y
  OBVIOUS
<1>2. g \in Surjection(S, T)
  BY <1>1 DEF Surjection
<1> QED
  BY <1>2, FS_Surjection

-----------------------------------------------------------------------------
ArePairs(pairs) ==
    /\ IsFiniteSet(pairs)
    /\ \A p \in pairs : p.ioc \in IoCs /\ p.ref \in Refs

(* What opening the incidents of some pairs adds to the table. *)
LEMMA NewIncidentsAre ==
    ASSUME now \in Nat, NEW pairs, ArePairs(pairs)
    PROVE  /\ JustOpened(NewIncidents(pairs), now)
           /\ \A p \in pairs : Held(NewIncidents(pairs), p.ioc, p.ref)
<1> DEFINE new == NewIncidents(pairs)
           ids == { NewID(p) : p \in pairs }
           R(id) == [ ioc |-> id[2], state |-> "pending", opened |-> id[1], moved |-> id[1],
                      refs |-> {id[3]}, remediations |-> <<>> ]
<1>1. DOMAIN new = ids /\ \A id \in ids : new[id] = R(id)
  BY DEF NewIncidents
<1>2. IsFiniteSet(ids)
  <2> DEFINE f == [p \in pairs |-> NewID(p)]
  <2>1. IsFiniteSet({ f[p] : p \in pairs })
    <3> HIDE DEF f
    <3> QED
      BY FiniteImage DEF ArePairs
  <2>2. ids = { f[p] : p \in pairs }
    <3> HIDE DEF NewID
    <3> QED
      OBVIOUS
  <2> QED
    BY <2>1, <2>2
<1>3. \A p : NewID(p)[1] = now /\ NewID(p)[2] = p.ioc /\ NewID(p)[3] = p.ref
  BY DEF NewID
<1>4. \A id \in ids : id[1] = now /\ id[2] \in IoCs /\ id[3] \in Refs
  BY <1>3 DEF ArePairs
<1>5. \A id : /\ R(id).ioc = id[2] /\ R(id).state = "pending" /\ R(id).refs = {id[3]}
              /\ R(id).remediations = <<>>
  OBVIOUS
<1>6. ASSUME NEW id, id[1] \in Nat, id[2] \in IoCs, id[3] \in Refs PROVE R(id) \in IncidentRecords
  <2>1. <<>> \in Seq(Remediations)
    BY SMTT(20)
  <2> DEFINE L == Seq(Remediations)
  <2> HIDE DEF L
  <2>2. R(id) \in [ioc : IoCs, state : States, opened : Nat, moved : Nat, refs : SUBSET Refs, remediations : L]
    BY <1>6, <2>1 DEF States, L
  <2> QED
    BY <2>2 DEF IncidentRecords, L
<1> HIDE DEF ids, R, new
<1>7. JustOpened(new, now)
  BY <1>1, <1>2, <1>4, <1>5, <1>6 DEF JustOpened
<1>8. ASSUME NEW p \in pairs PROVE Held(new, p.ioc, p.ref)
  <2>1. NewID(p) \in ids
    BY DEF ids
  <2>2. new[NewID(p)].ioc = p.ioc /\ p.ref \in new[NewID(p)].refs
    BY <2>1, <1>1, <1>3, <1>5
  <2> QED
    BY <2>1, <2>2, <1>1 DEF Held
<1> QED
  BY <1>7, <1>8 DEF new

HoldsAll(incidents, pairs) == \A p \in pairs : Held(incidents, p.ioc, p.ref)

HoldsMore(incidents, more) == \A i, r : Held(incidents, i, r) => Held(more, i, r)

Opens(incidents, rows, logs, pairs, new) ==
    /\ Unopened(rows, pairs) = Unopened(incidents, pairs)
    /\ IncidentsAgree(Merge(incidents, new),
                      Merge(rows, [id \in DOMAIN new |-> P!IncidentRow(new[id])]), now + 1)
    /\ LogsAgree(Merge(incidents, new), logs)
    /\ HoldsAll(Merge(incidents, new), pairs)
    /\ HoldsMore(incidents, Merge(incidents, new))

(* Opening keeps the incident tables in step, and then every pair has an    *)
(* incident.                                                                *)
LEMMA OpenPairs ==
    ASSUME now \in Nat, NEW incidents, NEW rows, NEW logs,
           IncidentsAgree(incidents, rows, now), LogsAgree(incidents, logs),
           NEW pairs, ArePairs(pairs), NEW new, new = NewIncidents(Unopened(incidents, pairs))
    PROVE  Opens(incidents, rows, logs, pairs, new)
<1> DEFINE todo == Unopened(incidents, pairs)
           t == Merge(incidents, new)
<1>1. todo \subseteq pairs
  BY DEF Unopened
<1>2. ArePairs(todo)
  BY <1>1, FS_Subset DEF ArePairs
<1> HIDE DEF todo
<1>3. JustOpened(new, now) /\ \A p \in todo : Held(new, p.ioc, p.ref)
  BY <1>2, NewIncidentsAre DEF todo
<1>4. /\ IncidentsAgree(t, Merge(rows, [id \in DOMAIN new |-> P!IncidentRow(new[id])]), now + 1)
      /\ \A id \in DOMAIN new : id \notin DOMAIN incidents
  BY <1>3, MergeIncidents
<1>5. IsFiniteSet(DOMAIN incidents) /\ IsFiniteSet(DOMAIN new)
  BY <1>3 DEF IncidentsAgree, JustOpened
<1>6. LogsAgree(t, logs)
  BY <1>3, <1>4, <1>5, MergeKeepsLogs
<1>7. WithRows(incidents, new, t)
  BY <1>5, MergeRows
<1> HIDE DEF t
<1>8. \A id \in DOMAIN incidents : id \in DOMAIN t /\ t[id] = incidents[id]
  BY <1>4, <1>7 DEF WithRows
<1>9. \A id \in DOMAIN new : id \in DOMAIN t /\ t[id] = new[id]
  BY <1>7 DEF WithRows
<1>10. HoldsMore(incidents, t)
  BY <1>8 DEF HoldsMore, Held
<1>11. ASSUME NEW p \in pairs PROVE Held(t, p.ioc, p.ref)
  <2>1. CASE p \in todo
    <3>1. Held(new, p.ioc, p.ref)
      BY <2>1, <1>3
    <3> QED
      BY <3>1, <1>9 DEF Held
  <2>2. CASE p \notin todo
    <3>1. Held(incidents, p.ioc, p.ref)
      BY <2>2, <1>11 DEF todo, Unopened, Held
    <3> QED
      BY <3>1, <1>10 DEF HoldsMore
  <2> QED
    BY <2>1, <2>2
<1>12. Unopened(rows, pairs) = Unopened(incidents, pairs)
  <2>1. DOMAIN rows = DOMAIN incidents /\ \A j \in DOMAIN incidents : rows[j] = P!IncidentRow(incidents[j])
    BY DEF IncidentsAgree
  <2>2. \A x : P!IncidentRow(x).ioc = x.ioc /\ P!IncidentRow(x).refs = x.refs /\ P!IncidentRow(x).state = x.state
    BY DEF P!IncidentRow
  <2>3. \A j \in DOMAIN incidents : /\ rows[j].ioc = incidents[j].ioc /\ rows[j].refs = incidents[j].refs
                                    /\ rows[j].state = incidents[j].state
    BY <2>1, <2>2
  <2> QED
    BY <2>1, <2>3 DEF Unopened
<1> QED
  BY <1>4, <1>6, <1>10, <1>11, <1>12 DEF HoldsAll, t, Opens

-----------------------------------------------------------------------------
LEMMA CoveredMore ==
    ASSUME NEW iocs, NEW sboms, NEW incidents, NEW more, HoldsMore(incidents, more),
           Covered(iocs, sboms, incidents)
    PROVE  Covered(iocs, sboms, more)
  BY DEF Covered, HoldsMore

LEMMA CoveredMoved ==
    ASSUME NEW incidents, NEW id \in DOMAIN incidents, NEW x, x.ioc = incidents[id].ioc,
           x.refs = incidents[id].refs
    PROVE  HoldsMore(incidents, Put(incidents, id, x))
<1> DEFINE t == Put(incidents, id, x)
<1>1. WithRow(incidents, id, x, t)
  BY PutRow
<1> HIDE DEF t
<1>2. \A j \in DOMAIN incidents : j \in DOMAIN t /\ t[j].ioc = incidents[j].ioc /\ t[j].refs = incidents[j].refs
  BY <1>1 DEF WithRow
<1>3. HoldsMore(incidents, t)
  BY <1>2 DEF HoldsMore, Held
<1> QED
  BY <1>3 DEF t

LEMMA CoveredBySBOM ==
    ASSUME NEW iocs, NEW sboms, NEW incidents, Covered(iocs, sboms, incidents), NEW id, NEW s,
           HoldsAll(incidents, RetroactivePairs(iocs, s))
    PROVE  Covered(iocs, Put(sboms, id, s), incidents)
<1> DEFINE t == Put(sboms, id, s)
<1>1. WithRow(sboms, id, s, t)
  BY PutRow
<1> HIDE DEF t
<1>2. ASSUME NEW i \in DOMAIN iocs, NEW j \in DOMAIN t, Fires(iocs[i], t[j]) PROVE Held(incidents, i, t[j].ref)
  <2>1. CASE j = id
    <3>1. t[j] = s
      BY <2>1, <1>1 DEF WithRow
    <3> DEFINE p == [ioc |-> i, ref |-> s.ref]
    <3>2. p \in RetroactivePairs(iocs, s)
      BY <3>1, <1>2 DEF RetroactivePairs
    <3>3. p.ioc = i /\ p.ref = s.ref
      OBVIOUS
    <3> QED
      BY <3>1, <3>2, <3>3 DEF HoldsAll
  <2>2. CASE j # id
    <3>1. j \in DOMAIN sboms /\ t[j] = sboms[j]
      BY <2>2, <1>1, <1>2 DEF WithRow
    <3> QED
      BY <3>1, <1>2 DEF Covered
  <2> QED
    BY <2>1, <2>2
<1> QED
  BY <1>2 DEF Covered, t

LEMMA CoveredByIoC ==
    ASSUME NEW iocs, NEW sboms, NEW incidents, Covered(iocs, sboms, incidents), NEW id, NEW ioc,
           \A s \in DOMAIN sboms : Fires(ioc, sboms[s]) => Held(incidents, id, sboms[s].ref)
    PROVE  Covered(Put(iocs, id, ioc), sboms, incidents)
<1> DEFINE t == Put(iocs, id, ioc)
<1>1. WithRow(iocs, id, ioc, t)
  BY PutRow
<1> HIDE DEF t
<1>2. ASSUME NEW i \in DOMAIN t, NEW j \in DOMAIN sboms, Fires(t[i], sboms[j]) PROVE Held(incidents, i, sboms[j].ref)
  <2>1. CASE i = id
    <3>1. t[i] = ioc
      BY <2>1, <1>1 DEF WithRow
    <3> QED
      BY <2>1, <3>1, <1>2
  <2>2. CASE i # id
    <3>1. i \in DOMAIN iocs /\ t[i] = iocs[i]
      BY <2>2, <1>1, <1>2 DEF WithRow
    <3> QED
      BY <3>1, <1>2 DEF Covered
  <2> QED
    BY <2>1, <2>2
<1> QED
  BY <1>2 DEF Covered, t
=============================================================================
