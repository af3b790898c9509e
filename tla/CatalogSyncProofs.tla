-------------------------- MODULE CatalogSyncProofs --------------------------
(***************************************************************************)
(* For every catalog, dependency graph and number of overlapping runs: the *)
(* memo of CatalogSync never claims a push that did not happen, and        *)
(* dependencies land before dependents.                                    *)
(***************************************************************************)
EXTENDS CatalogSync, TLAPS

(* A leaf that names no prover may take its time with either. *)
USE SMTT(20), ZenonT(30)

Cells == Contents \cup {None}

Listing == UNION { [S -> Contents] : S \in SUBSET Components }

RunStates == [pc : {"ended", "list", "next", "post", "applied"}, items : Listing,
              done : SUBSET Components, at : Components \cup {0}, alone : BOOLEAN]

Types ==
    /\ catalog \in [Components -> Cells] /\ engine \in [Components -> Cells]
    /\ memo \in [Components -> Cells]
    /\ run \in [Runs -> RunStates]
    /\ faults \in Nat

(* A run pushes a component it listed. *)
PushesListed ==
    \A r \in Runs : run[r].pc \in {"post", "applied"} => run[r].at \in DOMAIN run[r].items

(* A push that overlaps another is in doubt; one that does not is the only  *)
(* push of its component.                                                   *)
Overlap ==
    \A r \in Runs : run[r].pc \in {"post", "applied"} =>
        /\ run[r].alone => \A q \in Runs : Pushing(q, run[r].at) => q = r
        /\ ~run[r].alone => run[r].at \in doubt

Known(c) == memo[c] \in {None, engine[c]} \/ c \in doubt

(* What a push that nothing else touched knows of the engine. *)
Outcome ==
    \A r \in Runs : run[r].alone =>
        /\ run[r].pc = "post" => Known(run[r].at)
        /\ run[r].pc = "applied" => engine[run[r].at] = run[r].items[run[r].at]

(* The dependencies of the component being pushed are behind the run. *)
InOrder ==
    \A r \in Runs : run[r].pc \in {"post", "applied"} =>
        DependsOn[run[r].at] \cap DOMAIN run[r].items \subseteq run[r].done

(* While nothing has failed, what the memo or a run counts as pushed is in  *)
(* the engine.                                                              *)
Landed ==
    faults = 0 =>
        /\ \A c \in Components : memo[c] # None => engine[c] # None
        /\ \A r \in Runs : \A c \in run[r].done : engine[c] # None
        /\ \A r \in Runs : run[r].pc = "applied" => engine[run[r].at] # None

MemoInv == Types /\ PushesListed /\ Overlap /\ Outcome /\ MemoIsTrue

OrderInv == InOrder /\ Landed

-----------------------------------------------------------------------------
LEMMA ListingFacts ==
    /\ <<>> \in Listing
    /\ \A f \in Listing : /\ DOMAIN f \subseteq Components
                          /\ \A c \in DOMAIN f : f[c] \in Contents
    /\ \A S \in SUBSET Components, g \in [Components -> Cells] :
          (\A c \in S : g[c] # None) => [c \in S |-> g[c]] \in Listing
<1>1. <<>> \in Listing
  <2>1. <<>> \in [{} -> Contents]
    OBVIOUS
  <2> QED
    BY <2>1, Zenon DEF Listing
<1>2. \A f \in Listing : DOMAIN f \subseteq Components /\ \A c \in DOMAIN f : f[c] \in Contents
  BY Zenon DEF Listing
<1>3. ASSUME NEW S \in SUBSET Components, NEW g \in [Components -> Cells],
             \A c \in S : g[c] # None
      PROVE  [c \in S |-> g[c]] \in Listing
  <2>1. [c \in S |-> g[c]] \in [S -> Contents]
    BY <1>3, Zenon DEF Cells
  <2> QED
    BY <2>1, Zenon DEF Listing
<1> QED
  BY <1>1, <1>2, <1>3, Zenon

LEMMA EndedState == Ended \in RunStates
BY ListingFacts DEF Ended, RunStates
-----------------------------------------------------------------------------
LEMMA TypesStep == Types /\ PushesListed /\ [Next]_vars => Types' /\ PushesListed'
<1> SUFFICES ASSUME Types, PushesListed, [Next]_vars PROVE Types' /\ PushesListed'
  BY Zenon
<1> USE ListingFacts, EndedState DEF Types, PushesListed
<1>1. ASSUME NEW r \in Runs, Tick(r) PROVE Types' /\ PushesListed'
  BY <1>1, Zenon DEF Tick, RunStates
<1>2. ASSUME NEW r \in Runs, getEntities(r) PROVE Types' /\ PushesListed'
  <2>1. [c \in Listed |-> catalog[c]] \in Listing
    BY Zenon DEF Listed
  <2>2. CASE run' = [run EXCEPT ![r].pc = "next", ![r].items = [c \in Listed |-> catalog[c]]]
             /\ UNCHANGED faults
    BY <1>2, <2>1, <2>2, ZenonT(30) DEF getEntities, RunStates
  <2>3. CASE Fault /\ run' = [run EXCEPT ![r] = Ended]
    BY <1>2, <2>3 DEF getEntities, Fault, Ended
  <2> QED
    BY <1>2, <2>2, <2>3, Zenon DEF getEntities
<1>3. ASSUME NEW r \in Runs, runOnce(r) PROVE Types' /\ PushesListed'
  <2>1. CASE run' = [run EXCEPT ![r] = Ended]
    BY <1>3, <2>1, Zenon DEF runOnce, Ended
  <2>2. ASSUME NEW c \in DOMAIN run[r].items, run' = [run EXCEPT ![r].done = @ \cup {c}]
        PROVE  Types' /\ PushesListed'
    <3>1. c \in Components
      BY <2>2, Zenon DEF RunStates
    <3> QED
      BY <1>3, <2>2, <3>1, Zenon DEF runOnce, RunStates
  <2>3. ASSUME NEW c \in DOMAIN run[r].items, Post(r, c) PROVE Types' /\ PushesListed'
    <3>1. c \in Components
      BY <2>3, Zenon DEF RunStates
    <3>2. run' \in [Runs -> RunStates]
      BY <2>3, <3>1, ZenonT(30) DEF Post, RunStates
    <3>3. \A q \in Runs : run'[q].items = run[q].items
      BY <2>3, Zenon DEF Post, RunStates
    <3>4. \A q \in Runs \ {r} : run'[q].pc = run[q].pc /\ run'[q].at = run[q].at
      BY <2>3, Zenon DEF Post, RunStates
    <3>5. run'[r].at = c
      BY <2>3, Zenon DEF Post, RunStates
    <3> QED
      BY <1>3, <2>3, <3>2, <3>3, <3>4, <3>5, Zenon DEF runOnce
  <2>4. \/ run' = [run EXCEPT ![r] = Ended]
        \/ \E c \in DOMAIN run[r].items :
              run' = [run EXCEPT ![r].done = @ \cup {c}] \/ Post(r, c)
    BY <1>3, Zenon DEF runOnce, Ready
  <2> QED
    BY <2>1, <2>2, <2>3, <2>4, Zenon
<1>4. ASSUME NEW r \in Runs, Apply(r) PROVE Types' /\ PushesListed'
  <2>1. run[r].items[run[r].at] \in Cells
    BY <1>4, Zenon DEF Apply, RunStates, Cells
  <2>2. engine' \in [Components -> Cells]
    BY <1>4, <2>1, Zenon DEF Apply
  <2>3. run' \in [Runs -> RunStates]
    BY <1>4, ZenonT(30) DEF Apply, RunStates
  <2>4. \A q \in Runs : run'[q].items = run[q].items /\ run'[q].at = run[q].at
    BY <1>4, Zenon DEF Apply, RunStates
  <2>5. \A q \in Runs : run'[q].pc = run[q].pc \/ run[q].pc = "post"
    BY <1>4, Zenon DEF Apply, RunStates
  <2> QED
    BY <1>4, <2>2, <2>3, <2>4, <2>5, Zenon DEF Apply
<1>5. ASSUME NEW r \in Runs, run[r].pc \in {"post", "applied"}
      PROVE  /\ Resume(r) \in RunStates /\ Resume(r).pc = "next"
             /\ run[r].items[run[r].at] \in Cells /\ None \in Cells
  BY <1>5, ZenonT(60) DEF Resume, RunStates, Cells
<1>6. ASSUME NEW r \in Runs, Pushed(r) PROVE Types' /\ PushesListed'
  BY <1>5, <1>6, Zenon DEF Pushed
<1>7. ASSUME NEW r \in Runs, Refused(r) PROVE Types' /\ PushesListed'
  <2>1. faults' \in Nat
    BY <1>7 DEF Refused, Fault
  <2>2. memo' \in [Components -> Cells]
    BY <1>5, <1>7, Zenon DEF Refused
  <2> QED
    BY <1>5, <1>7, <2>1, <2>2, Zenon DEF Refused
<1>8. ASSUME NEW r \in Runs, Unreachable(r) PROVE Types' /\ PushesListed'
  BY <1>5, <1>8 DEF Unreachable, Fault
<1>9. ASSUME NEW c \in Components, NEW content \in Contents \cup {None}, Edit(c, content)
      PROVE  Types' /\ PushesListed'
  BY <1>9, Zenon DEF Edit, Cells
<1>10. CASE RestartPlugin
  BY <1>10 DEF RestartPlugin, Fault, Cells, Ended
<1>11. CASE RestartEngine
  <2>1. engine' \in [Components -> Cells] /\ faults' \in Nat
    BY <1>11 DEF RestartEngine, Fault, Cells
  <2>2. run' \in [Runs -> RunStates]
    BY <1>11, Zenon DEF RestartEngine, RunStates
  <2>3. \A q \in Runs : /\ run'[q].items = run[q].items /\ run'[q].at = run[q].at
                        /\ run'[q].pc = run[q].pc
    BY <1>11, Zenon DEF RestartEngine, RunStates
  <2> QED
    BY <1>11, <2>1, <2>2, <2>3, Zenon DEF RestartEngine
<1>12. CASE UNCHANGED vars
  BY <1>12, Zenon DEF vars
<1> QED
  BY <1>1, <1>2, <1>3, <1>4, <1>6, <1>7, <1>8, <1>9, <1>10, <1>11, <1>12, Zenon DEF Next, RunStep

(* What each action does to the runs, field by field. *)
LEMMA Fields ==
  ASSUME Types, NEW r \in Runs
  PROVE  /\ Resume(r).pc = "next" /\ Resume(r).items = run[r].items
         /\ Resume(r).done = run[r].done \cup {run[r].at}
         /\ \A q \in Runs : \A R : run' = [run EXCEPT ![r] = R] =>
                run'[q] = IF q = r THEN R ELSE run[q]
BY DEF Types, RunStates, Resume

LEMMA PostFields ==
  ASSUME Types, NEW r \in Runs, NEW c, Post(r, c)
  PROVE  /\ run'[r].pc = "post" /\ run'[r].at = c /\ run'[r].done = run[r].done
         /\ run'[r].alone <=> \A q \in Runs : ~Pushing(q, c)
         /\ \A q \in Runs : run'[q].items = run[q].items
         /\ \A q \in Runs \ {r} :
               /\ run'[q].pc = run[q].pc /\ run'[q].at = run[q].at /\ run'[q].done = run[q].done
               /\ run'[q].alone <=> run[q].alone /\ ~Pushing(q, c)
BY Zenon DEF Types, RunStates, Post

LEMMA MemoStep == MemoInv /\ [Next]_vars => Overlap' /\ Outcome' /\ MemoIsTrue'
<1> SUFFICES ASSUME MemoInv, [Next]_vars PROVE Overlap' /\ Outcome' /\ MemoIsTrue'
  BY Zenon
<1> USE DEF MemoInv, Overlap, Outcome, MemoIsTrue, Known, Pushing
<1>1. ASSUME NEW r \in Runs, Tick(r) PROVE Overlap' /\ Outcome' /\ MemoIsTrue'
  BY <1>1 DEF Tick, Types, RunStates
<1>2. ASSUME NEW r \in Runs, getEntities(r) PROVE Overlap' /\ Outcome' /\ MemoIsTrue'
  <2>1. run[r].pc = "list" /\ run'[r].pc \in {"next", "ended"} /\ \A q \in Runs \ {r} : run'[q] = run[q]
    BY <1>2 DEF getEntities, Types, RunStates, Ended
  <2> QED
    BY <1>2, <2>1 DEF getEntities
<1>3. ASSUME NEW r \in Runs, runOnce(r) PROVE Overlap' /\ Outcome' /\ MemoIsTrue'
  <2>1. ASSUME NEW c, Post(r, c), c \in Components PROVE Overlap' /\ Outcome' /\ MemoIsTrue'
    <3>1. run[r].pc = "next" /\ UNCHANGED <<engine, memo>>
      BY <1>3, Zenon DEF runOnce
    <3>2. doubt \subseteq doubt' /\ ((\E q \in Runs : Pushing(q, c)) => c \in doubt')
      BY <2>1, Zenon DEF Post
    <3>3. Overlap'
      BY <2>1, <3>1, <3>2, PostFields
    <3>4. Outcome'
      BY <2>1, <3>1, <3>2, PostFields
    <3>5. MemoIsTrue'
      BY <2>1, <3>1, <3>2, PostFields
    <3> QED
      BY <3>3, <3>4, <3>5, Zenon
  <2>2. CASE UNCHANGED doubt /\ run'[r].pc \in {"next", "ended"}
             /\ \A q \in Runs \ {r} : run'[q] = run[q]
    BY <1>3, <2>2 DEF runOnce
  <2>3. \/ run' = [run EXCEPT ![r] = Ended] /\ UNCHANGED doubt
        \/ \E c \in DOMAIN run[r].items :
              \/ run' = [run EXCEPT ![r].done = @ \cup {c}] /\ UNCHANGED doubt
              \/ Post(r, c)
    BY <1>3, Zenon DEF runOnce, Ready
  <2>4. DOMAIN run[r].items \subseteq Components /\ run[r].pc = "next"
    BY <1>3, ListingFacts, Zenon DEF Types, RunStates, runOnce
  <2>5. run' = [run EXCEPT ![r] = Ended] /\ UNCHANGED doubt => Overlap' /\ Outcome' /\ MemoIsTrue'
    BY <2>2 DEF Types, Ended
  <2>6. ASSUME NEW c, run' = [run EXCEPT ![r].done = @ \cup {c}], UNCHANGED doubt
        PROVE  Overlap' /\ Outcome' /\ MemoIsTrue'
    BY <2>2, <2>4, <2>6 DEF Types, RunStates
  <2> QED
    BY <2>1, <2>3, <2>4, <2>5, <2>6, Zenon
<1>4. ASSUME NEW r \in Runs, Apply(r) PROVE Overlap' /\ Outcome' /\ MemoIsTrue'
  <2>1. /\ \A q \in Runs : /\ run'[q].items = run[q].items /\ run'[q].at = run[q].at
                           /\ run'[q].alone = run[q].alone
        /\ run'[r].pc = "applied" /\ \A q \in Runs \ {r} : run'[q].pc = run[q].pc
    BY <1>4 DEF Apply, Types, RunStates
  <2>2. run[r].at \in Components
    BY <1>4, ListingFacts, Zenon DEF Apply, Types, PushesListed, RunStates
  <2>3. engine'[run[r].at] = run[r].items[run[r].at]
        /\ \A c \in Components \ {run[r].at} : engine'[c] = engine[c]
    BY <1>4, <2>2 DEF Apply, Types
  <2>4. \A q \in Runs : Pushing(q, run[q].at) => run[q].at \in Components
    BY ListingFacts DEF Types, PushesListed, RunStates
  <2>5. Overlap'
    BY <1>4, <2>1 DEF Apply
  <2>6. Outcome'
    BY <1>4, <2>1, <2>3, <2>4 DEF Apply
  <2>7. MemoIsTrue'
    BY <1>4, <2>1, <2>3 DEF Apply
  <2> QED
    BY <2>5, <2>6, <2>7, Zenon
<1>5. ASSUME NEW r \in Runs, run[r].pc \in {"post", "applied"}, run' = [run EXCEPT ![r] = Resume(r)]
      PROVE  /\ run'[r].pc = "next" /\ \A q \in Runs \ {r} : run'[q] = run[q]
             /\ run[r].at \in Components
  BY <1>5, Fields, ListingFacts DEF Types, PushesListed, RunStates
<1>6. ASSUME NEW r \in Runs, Pushed(r) PROVE Overlap' /\ Outcome' /\ MemoIsTrue'
  <2>1. /\ run'[r].pc = "next" /\ \A q \in Runs \ {r} : run'[q] = run[q]
        /\ run[r].at \in Components
    BY <1>5, <1>6, Zenon DEF Pushed
  <2>2. memo'[run[r].at] = run[r].items[run[r].at]
        /\ \A c \in Components \ {run[r].at} : memo'[c] = memo[c]
    BY <1>6, <2>1 DEF Pushed, Types
  <2>3. \A q \in Runs : Pushing(q, run[q].at) => run[q].at \in Components
    BY ListingFacts DEF Types, PushesListed, RunStates
  <2>4. run[r].alone \in BOOLEAN
    BY Zenon DEF Types, RunStates
  <2>5. CASE run[r].alone
    <3>1. Overlap'
      BY <1>6, <2>1 DEF Pushed
    <3>2. Outcome'
      BY <1>6, <2>1, <2>2, <2>3, <2>5 DEF Pushed
    <3>3. MemoIsTrue'
      BY <1>6, <2>1, <2>2, <2>5 DEF Pushed
    <3> QED
      BY <3>1, <3>2, <3>3, Zenon
  <2>6. CASE ~run[r].alone
    <3>1. Overlap'
      BY <1>6, <2>1 DEF Pushed
    <3>2. Outcome'
      BY <1>6, <2>1, <2>2, <2>3, <2>6 DEF Pushed
    <3>3. MemoIsTrue'
      BY <1>6, <2>1, <2>2, <2>6 DEF Pushed
    <3> QED
      BY <3>1, <3>2, <3>3, Zenon
  <2> QED
    BY <2>4, <2>5, <2>6, Zenon
<1>7. ASSUME NEW r \in Runs, Refused(r) PROVE Overlap' /\ Outcome' /\ MemoIsTrue'
  <2>1. /\ run'[r].pc = "next" /\ \A q \in Runs \ {r} : run'[q] = run[q]
        /\ run[r].at \in Components
    BY <1>5, <1>7, Zenon DEF Refused
  <2>2. memo'[run[r].at] = None /\ \A c \in Components \ {run[r].at} : memo'[c] = memo[c]
    BY <1>7, <2>1 DEF Refused, Types
  <2>3. \A q \in Runs : Pushing(q, run[q].at) => run[q].at \in Components
    BY ListingFacts DEF Types, PushesListed, RunStates
  <2> QED
    BY <1>7, <2>1, <2>2, <2>3 DEF Refused
<1>8. ASSUME NEW r \in Runs, Unreachable(r) PROVE Overlap' /\ Outcome' /\ MemoIsTrue'
  <2>1. /\ run'[r].pc = "next" /\ \A q \in Runs \ {r} : run'[q] = run[q]
        /\ run[r].at \in Components
    BY <1>5, <1>8, Zenon DEF Unreachable
  <2>2. run[r].alone \in BOOLEAN
    BY Zenon DEF Types, RunStates
  <2> QED
    BY <1>8, <2>1, <2>2 DEF Unreachable
<1>9. ASSUME NEW c \in Components, NEW content \in Contents \cup {None}, Edit(c, content)
      PROVE  Overlap' /\ Outcome' /\ MemoIsTrue'
  BY <1>9, Zenon DEF Edit
<1>10. CASE RestartPlugin
  BY <1>10, Zenon DEF RestartPlugin, Ended
<1>11. CASE RestartEngine
  <2>1. \A q \in Runs : /\ run'[q].items = run[q].items /\ run'[q].at = run[q].at
                        /\ run'[q].pc = run[q].pc
    BY <1>11 DEF RestartEngine, Types, RunStates
  <2>2. \A q \in Runs : /\ run'[q].alone = (run[q].alone /\ run[q].pc # "applied")
                        /\ run[q].alone \in BOOLEAN
    BY <1>11 DEF RestartEngine, Types, RunStates
  <2>3. \A q \in Runs : run[q].pc = "applied" => ~run'[q].alone
    BY <2>2, Zenon
  <2>4. \A q \in Runs : run[q].pc # "applied" => run'[q].alone = run[q].alone
    BY <2>2, ZenonT(60)
  <2>5. doubt' = Components
    BY <1>11, Zenon DEF RestartEngine
  <2>6. \A q \in Runs : Pushing(q, run[q].at) => run[q].at \in Components
    BY ListingFacts DEF Types, PushesListed, RunStates
  <2>7. Overlap'
    BY <2>1, <2>3, <2>4, <2>5, <2>6
  <2>8. Outcome'
    BY <2>1, <2>3, <2>4, <2>5, <2>6, ZenonT(30)
  <2>9. MemoIsTrue'
    BY <2>5, Zenon
  <2> QED
    BY <2>7, <2>8, <2>9, Zenon
<1>12. CASE UNCHANGED vars
  BY <1>12, Zenon DEF vars
<1> QED
  BY <1>1, <1>2, <1>3, <1>4, <1>6, <1>7, <1>8, <1>9, <1>10, <1>11, <1>12, Zenon DEF Next, RunStep

(* The memo never claims a push that did not happen: catalogSync.ts sets an *)
(* entry only after the engine's 2xx, and drops it on a refusal.            *)
THEOREM MemoNeverLies == Spec => []MemoIsTrue
<1>1. Init => MemoInv
  <2> SUFFICES ASSUME Init PROVE MemoInv
    BY Zenon
  <2>1. Types
    BY CatalogAssumption, EndedState, Zenon DEF Init, Types, Cells
  <2>2. \A r \in Runs : run[r].pc = "ended"
    BY Zenon DEF Init, Ended
  <2>3. MemoIsTrue
    BY Zenon DEF Init, MemoIsTrue
  <2> QED
    BY <2>1, <2>2, <2>3, Zenon DEF MemoInv, PushesListed, Overlap, Outcome
<1>2. MemoInv /\ [Next]_vars => MemoInv'
  BY TypesStep, MemoStep, Zenon DEF MemoInv
<1>3. MemoInv => MemoIsTrue
  BY Zenon DEF MemoInv
<1> QED
  BY <1>1, <1>2, <1>3, PTL DEF Spec

-----------------------------------------------------------------------------
LEMMA OrderStep == Types /\ PushesListed /\ OrderInv /\ [Next]_vars => OrderInv'
<1> SUFFICES ASSUME Types, PushesListed, OrderInv, [Next]_vars PROVE OrderInv'
  BY Zenon
<1> USE DEF OrderInv, InOrder, Landed
<1>1. ASSUME NEW r \in Runs, Tick(r) PROVE OrderInv'
  BY <1>1 DEF Tick, Types, RunStates
<1>2. ASSUME NEW r \in Runs, getEntities(r) PROVE OrderInv'
  <2>1. CASE run' = [run EXCEPT ![r].pc = "next", ![r].items = [c \in Listed |-> catalog[c]]]
             /\ UNCHANGED faults
    <3>1. /\ run'[r].pc = "next" /\ run'[r].done = run[r].done
          /\ \A q \in Runs \ {r} : run'[q] = run[q]
      BY <2>1, Zenon DEF Types, RunStates
    <3>2. UNCHANGED <<engine, memo, faults>>
      BY <1>2, <2>1, Zenon DEF getEntities
    <3>3. InOrder'
      BY <3>1, Zenon
    <3>4. Landed'
      BY <3>1, <3>2, Zenon
    <3> QED
      BY <3>3, <3>4, Zenon
  <2>2. CASE run' = [run EXCEPT ![r] = Ended] /\ Fault
    BY <1>2, <2>2 DEF getEntities, Types, Ended, Fault
  <2> QED
    BY <1>2, <2>1, <2>2, Zenon DEF getEntities
<1>3. ASSUME NEW r \in Runs, runOnce(r) PROVE OrderInv'
  <2>1. run[r].pc = "next" /\ UNCHANGED <<engine, memo, faults>>
    BY <1>3, Zenon DEF runOnce
  <2>2. ASSUME NEW c \in Ready(DOMAIN run[r].items, run[r].done), Post(r, c) PROVE OrderInv'
    <3>1. DependsOn[c] \cap DOMAIN run[r].items \subseteq run[r].done
      BY <2>2, Zenon DEF Ready
    <3>2. InOrder'
      BY <2>1, <2>2, <3>1, PostFields
    <3>3. \A q \in Runs : /\ run'[q].done = run[q].done
                          /\ run'[q].pc = "applied" => run[q].pc = "applied" /\ run'[q].at = run[q].at
      BY <2>1, <2>2, PostFields, Zenon
    <3>4. Landed'
      BY <2>1, <3>3, Zenon
    <3> QED
      BY <3>2, <3>4, Zenon
  <2>3. ASSUME NEW c \in DOMAIN run[r].items, memo[c] = run[r].items[c],
               run' = [run EXCEPT ![r].done = @ \cup {c}]
        PROVE  OrderInv'
    <3>1. c \in Components /\ memo[c] # None
      BY <2>3, ListingFacts, CatalogAssumption DEF Types, RunStates
    <3>2. /\ run'[r].pc = "next" /\ run'[r].done = run[r].done \cup {c}
          /\ \A q \in Runs \ {r} : run'[q] = run[q]
      BY <2>1, <2>3, Zenon DEF Types, RunStates
    <3> QED
      BY <2>1, <3>1, <3>2, Zenon
  <2>4. CASE run' = [run EXCEPT ![r] = Ended]
    BY <2>1, <2>4, Zenon DEF Types, Ended
  <2>5. \/ run' = [run EXCEPT ![r] = Ended]
        \/ \E c \in Ready(DOMAIN run[r].items, run[r].done) :
              \/ memo[c] = run[r].items[c] /\ run' = [run EXCEPT ![r].done = @ \cup {c}]
              \/ Post(r, c)
    BY <1>3, Zenon DEF runOnce, Unchanged
  <2>6. Ready(DOMAIN run[r].items, run[r].done) \subseteq DOMAIN run[r].items
    BY Zenon DEF Ready
  <2> QED
    BY <2>2, <2>3, <2>4, <2>5, <2>6, Zenon
<1>4. ASSUME NEW r \in Runs, Apply(r) PROVE OrderInv'
  <2>1. /\ \A q \in Runs : /\ run'[q].items = run[q].items /\ run'[q].at = run[q].at
                           /\ run'[q].done = run[q].done
        /\ run[r].pc = "post" /\ \A q \in Runs \ {r} : run'[q].pc = run[q].pc
    BY <1>4, Zenon DEF Apply, Types, RunStates
  <2>2. run[r].at \in Components /\ run[r].items[run[r].at] # None
    BY <2>1, ListingFacts, CatalogAssumption DEF Types, PushesListed, RunStates
  <2>3. engine'[run[r].at] # None
        /\ \A c \in Components \ {run[r].at} : engine'[c] = engine[c]
    BY <1>4, <2>2, Zenon DEF Apply, Types
  <2>4. /\ \A q \in Runs : run[q].pc = "applied" => run[q].at \in Components
        /\ \A q \in Runs : run[q].done \subseteq Components
    BY ListingFacts, Zenon DEF Types, PushesListed, RunStates
  <2>5. InOrder'
    BY <2>1, Zenon
  <2>6. Landed'
    BY <1>4, <2>1, <2>3, <2>4 DEF Apply
  <2> QED
    BY <2>5, <2>6, Zenon
<1>5. ASSUME NEW r \in Runs, run[r].pc \in {"post", "applied"}, run' = [run EXCEPT ![r] = Resume(r)]
      PROVE  /\ run'[r].pc = "next" /\ run'[r].done = run[r].done \cup {run[r].at}
             /\ \A q \in Runs \ {r} : run'[q] = run[q]
             /\ run[r].at \in Components
  BY <1>5, Fields, ListingFacts, Zenon DEF Types, PushesListed, RunStates
<1>6. ASSUME NEW r \in Runs, Pushed(r) PROVE OrderInv'
  <2>1. \A c \in Components \ {run[r].at} : memo'[c] = memo[c]
    BY <1>6, Zenon DEF Pushed, Types
  <2>2. /\ run'[r].pc = "next" /\ run'[r].done = run[r].done \cup {run[r].at}
        /\ \A q \in Runs \ {r} : run'[q] = run[q]
    BY <1>5, <1>6, Zenon DEF Pushed
  <2>3. run[r].pc = "applied" /\ UNCHANGED <<engine, faults>>
    BY <1>6, Zenon DEF Pushed
  <2>4. InOrder'
    BY <2>2, Zenon
  <2>5. Landed'
    BY <2>1, <2>2, <2>3
  <2> QED
    BY <2>4, <2>5, Zenon
<1>7. ASSUME NEW r \in Runs, Refused(r) \/ Unreachable(r) PROVE OrderInv'
  <2>1. faults' # 0
    BY <1>7 DEF Refused, Unreachable, Fault, Types
  <2>2. run'[r].pc = "next" /\ \A q \in Runs \ {r} : run'[q] = run[q]
    BY <1>5, <1>7, Zenon DEF Refused, Unreachable
  <2> QED
    BY <2>1, <2>2, Zenon
<1>8. ASSUME NEW c \in Components, NEW content \in Contents \cup {None}, Edit(c, content)
      PROVE  OrderInv'
  BY <1>8, Zenon DEF Edit
<1>9. CASE RestartPlugin
  BY <1>9, Zenon DEF RestartPlugin, Ended, Fault, Types
<1>10. CASE RestartEngine
  <2>1. \A q \in Runs : /\ run'[q].items = run[q].items /\ run'[q].at = run[q].at
                        /\ run'[q].pc = run[q].pc /\ run'[q].done = run[q].done
    BY <1>10, Zenon DEF RestartEngine, Types, RunStates
  <2> QED
    BY <1>10, <2>1 DEF RestartEngine, Fault, Types
<1>11. CASE UNCHANGED vars
  BY <1>11, Zenon DEF vars
<1> QED
  BY <1>1, <1>2, <1>3, <1>4, <1>6, <1>7, <1>8, <1>9, <1>10, <1>11, Zenon DEF Next, RunStep

(* A component first lands in the engine with its listed dependencies there *)
(* already, whatever the dependency graph and however runs overlap, unless  *)
(* something has failed: topoSortComponents orders what runOnce pushes.     *)
THEOREM DependenciesLandFirst == Spec => DependenciesFirst
<1> DEFINE I == Types /\ PushesListed /\ OrderInv
           A == \A c \in Components : engine[c] = None /\ engine'[c] # None =>
                   \E r \in Runs :
                      /\ Pushing(r, c)
                      /\ faults = 0 =>
                            \A d \in DependsOn[c] \cap DOMAIN run[r].items : engine[d] # None
<1>1. Init => I
  <2> SUFFICES ASSUME Init PROVE I
    BY Zenon
  <2>1. Types
    BY CatalogAssumption, EndedState, Zenon DEF Init, Types, Cells
  <2>2. \A r \in Runs : run[r].pc = "ended" /\ run[r].done = {}
    BY Zenon DEF Init, Ended
  <2> QED
    BY <2>1, <2>2, Zenon DEF PushesListed, OrderInv, InOrder, Landed, Init
<1>2. I /\ [Next]_vars => I'
  BY TypesStep, OrderStep, Zenon
<1>3. I /\ [Next]_vars => [A]_vars
  <2> SUFFICES ASSUME I, Next PROVE A
    BY Zenon
  <2>1. ASSUME NEW r \in Runs, Apply(r) PROVE A
    <3>1. Pushing(r, run[r].at) /\ \A c \in Components \ {run[r].at} : engine'[c] = engine[c]
      BY <2>1, Zenon DEF Apply, Types, Pushing
    <3>2. DependsOn[run[r].at] \cap DOMAIN run[r].items \subseteq run[r].done
      BY <2>1, Zenon DEF Apply, OrderInv, InOrder
    <3>3. faults = 0 => \A d \in DependsOn[run[r].at] \cap DOMAIN run[r].items : engine[d] # None
      BY <3>2, Zenon DEF OrderInv, Landed
    <3> QED
      BY <3>1, <3>3, Zenon
  <2>2. CASE RestartEngine
    BY <2>2, Zenon DEF RestartEngine
  <2>3. CASE UNCHANGED engine
    BY <2>3, Zenon
  <2> QED
    BY <2>1, <2>2, <2>3, Zenon DEF Next, RunStep, Tick, getEntities, runOnce, Pushed, Refused, Unreachable,
                            Edit, RestartPlugin
<1>4. DependenciesFirst <=> [][A]_vars
  BY Zenon DEF DependenciesFirst
<1> HIDE DEF I, A
<1> QED
  BY <1>1, <1>2, <1>3, <1>4, PTL DEF Spec

-----------------------------------------------------------------------------
(* Where a run can be: it is pushing one component exactly while it waits  *)
(* for the engine, one it listed and is not done with, and it is done with *)
(* nothing before it has listed.                                           *)
RunPlaced(s) ==
    /\ s.done \subseteq DOMAIN s.items
    /\ s.at # 0 <=> s.pc \in {"post", "applied"}
    /\ s.at # 0 => s.at \in DOMAIN s.items \ s.done
    /\ s.pc \in {"ended", "list"} => s.done = {}

Placed ==
    /\ \A r \in Runs : RunPlaced(run[r])
    /\ \A r, q \in Runs : run[r].pc = "next" /\ run[q].pc = "next" => r = q
    /\ doubt \subseteq Components
    /\ edits \in 0 .. MaxEdits /\ faults \in 0 .. MaxFaults

(* One run moves; it may go on to "next" if the thread is free or its own. *)
LEMMA RunMoves ==
    ASSUME Types, Placed, NEW r \in Runs, NEW s, run' = [run EXCEPT ![r] = s], RunPlaced(s),
           s.pc = "next" => Yielded \/ run[r].pc = "next"
    PROVE  /\ \A q \in Runs : RunPlaced(run'[q])
           /\ \A p, q \in Runs : run'[p].pc = "next" /\ run'[q].pc = "next" => p = q
<1>1. run'[r] = s /\ \A q \in Runs : q # r => run'[q] = run[q]
  BY Zenon DEF Types
<1>2. \A q \in Runs : RunPlaced(run'[q])
  BY <1>1, Zenon DEF Placed
<1>3. \A p, q \in Runs : run'[p].pc = "next" /\ run'[q].pc = "next" => p = q
  BY <1>1 DEF Placed, Yielded
<1> QED
  BY <1>2, <1>3, Zenon

LEMMA FaultBound ==
    ASSUME Placed, Fault
    PROVE  faults' \in 0 .. MaxFaults
  BY CatalogAssumption DEF Placed, Fault

(* After an answer the component is behind the run. *)
LEMMA ResumePlaced ==
    ASSUME Types, Placed, NEW r \in Runs, run[r].pc \in {"post", "applied"}
    PROVE  /\ RunPlaced(Resume(r)) /\ Resume(r).pc = "next" /\ run[r].at \in Components
<1>1. run[r] \in RunStates /\ RunPlaced(run[r])
  BY Zenon DEF Types, Placed
<1>2. /\ Resume(r).pc = "next" /\ Resume(r).items = run[r].items /\ Resume(r).at = 0
      /\ Resume(r).done = run[r].done \cup {run[r].at}
  BY <1>1, Zenon DEF Resume, RunStates
<1>3. run[r].at \in DOMAIN run[r].items
  BY <1>1, Zenon DEF RunPlaced
<1>4. run[r].at \in Components
  BY <1>1, <1>3, ListingFacts, Zenon DEF RunStates
<1> QED
  BY <1>1, <1>2, <1>3, <1>4, Zenon DEF RunPlaced

LEMMA PostPlaced ==
    ASSUME Types, Placed, NEW r \in Runs, NEW c \in DOMAIN run[r].items, c \notin run[r].done,
           run[r].pc = "next", Post(r, c), UNCHANGED <<edits, faults>>
    PROVE  Placed'
<1>1. run[r] \in RunStates /\ RunPlaced(run[r])
  BY Zenon DEF Types, Placed
<1>2. c \in Components /\ c # 0
  BY <1>1, ListingFacts, CatalogAssumption, Zenon DEF RunStates
<1>3. /\ run'[r].pc = "post" /\ run'[r].at = c /\ run'[r].items = run[r].items
      /\ run'[r].done = run[r].done
  BY Zenon DEF Post, Types, RunStates
<1>4. \A q \in Runs : q # r =>
        /\ run'[q].pc = run[q].pc /\ run'[q].at = run[q].at
        /\ run'[q].items = run[q].items /\ run'[q].done = run[q].done
  BY Zenon DEF Post, Types, RunStates
<1>5. RunPlaced(run'[r])
  BY <1>1, <1>2, <1>3, Zenon DEF RunPlaced
<1>6. ASSUME NEW q \in Runs, q # r
      PROVE  RunPlaced(run'[q])
  <2>1. RunPlaced(run[q])
    BY Zenon DEF Placed
  <2> QED
    BY <1>4, <1>6, <2>1, Zenon DEF RunPlaced
<1>7. \A p, q \in Runs : run'[p].pc = "next" /\ run'[q].pc = "next" => p = q
  BY <1>3, <1>4, Zenon DEF Placed
<1>8. doubt' \subseteq Components
  BY <1>2, Zenon DEF Post, Placed
<1> QED
  BY <1>5, <1>6, <1>7, <1>8, Zenon DEF Placed

LEMMA PlacedStep == Types /\ Placed /\ [Next]_vars => Placed'
<1> SUFFICES ASSUME Types, Placed, [Next]_vars PROVE Placed'
  BY Zenon
<1>e. RunPlaced(Ended) /\ Ended.pc = "ended"
  BY Zenon DEF RunPlaced, Ended
<1>r. \A r \in Runs : run[r] \in RunStates /\ RunPlaced(run[r])
  BY Zenon DEF Types, Placed
<1>1. ASSUME NEW r \in Runs, Tick(r) PROVE Placed'
  <2> DEFINE s == [run[r] EXCEPT !.pc = "list"]
  <2>1. RunPlaced(s) /\ s.pc = "list"
    BY <1>r, <1>1, Zenon DEF Tick, RunPlaced, RunStates
  <2>2. run' = [run EXCEPT ![r] = s] /\ UNCHANGED <<doubt, edits, faults>>
    BY <1>1, Zenon DEF Tick, Types
  <2> HIDE DEF s
  <2> QED
    BY <2>1, <2>2, RunMoves, Zenon DEF Placed
<1>2. ASSUME NEW r \in Runs, getEntities(r) PROVE Placed'
  <2>1. CASE Fault /\ run' = [run EXCEPT ![r] = Ended]
    BY <1>e, <1>2, <2>1, RunMoves, FaultBound, Zenon DEF getEntities, Placed
  <2>2. CASE run' = [run EXCEPT ![r].pc = "next", ![r].items = [c \in Listed |-> catalog[c]]]
             /\ UNCHANGED faults
    <3> DEFINE s == [run[r] EXCEPT !.pc = "next", !.items = [c \in Listed |-> catalog[c]]]
    <3>1. run[r].pc = "list" /\ run[r].done = {} /\ run[r].at = 0 /\ Yielded
      BY <1>r, <1>2, Zenon DEF getEntities, RunPlaced
    <3>2. s.pc = "next" /\ s.done = run[r].done /\ s.at = run[r].at
      BY <1>r, Zenon DEF RunStates
    <3>3. RunPlaced(s)
      BY <3>1, <3>2, Zenon DEF RunPlaced
    <3>4. run' = [run EXCEPT ![r] = s] /\ UNCHANGED <<doubt, edits, faults>>
      BY <1>2, <2>2, Zenon DEF getEntities, Types
    <3> HIDE DEF s
    <3> QED
      BY <3>1, <3>3, <3>4, RunMoves, Zenon DEF Placed
  <2> QED
    BY <1>2, <2>1, <2>2, Zenon DEF getEntities
<1>3. ASSUME NEW r \in Runs, runOnce(r) PROVE Placed'
  <2>u. run[r].pc = "next" /\ UNCHANGED <<edits, faults>>
    BY <1>3, Zenon DEF runOnce
  <2>1. CASE run' = [run EXCEPT ![r] = Ended] /\ UNCHANGED doubt
    BY <1>e, <2>u, <2>1, RunMoves, Zenon DEF Placed
  <2>2. ASSUME NEW c \in DOMAIN run[r].items, run' = [run EXCEPT ![r].done = @ \cup {c}],
               UNCHANGED doubt
        PROVE  Placed'
    <3> DEFINE s == [run[r] EXCEPT !.done = @ \cup {c}]
    <3>1. /\ s.pc = "next" /\ s.at = run[r].at /\ s.items = run[r].items
          /\ s.done = run[r].done \cup {c}
      BY <1>r, <2>u, Zenon DEF RunStates
    <3>2. RunPlaced(s)
      BY <1>r, <2>u, <2>2, <3>1, Zenon DEF RunPlaced
    <3>3. run' = [run EXCEPT ![r] = s]
      BY <2>2, Zenon DEF Types
    <3> HIDE DEF s
    <3> QED
      BY <2>u, <2>2, <3>2, <3>3, RunMoves, Zenon DEF Placed
  <2>3. ASSUME NEW c \in DOMAIN run[r].items, c \notin run[r].done, Post(r, c)
        PROVE  Placed'
    BY <2>u, <2>3, PostPlaced, Zenon
  <2>4. \/ run' = [run EXCEPT ![r] = Ended] /\ UNCHANGED doubt
        \/ \E c \in DOMAIN run[r].items :
              /\ c \notin run[r].done
              /\ (run' = [run EXCEPT ![r].done = @ \cup {c}] /\ UNCHANGED doubt) \/ Post(r, c)
    BY <1>3, Zenon DEF runOnce, Ready
  <2> QED
    BY <2>1, <2>2, <2>3, <2>4, Zenon
<1>4. ASSUME NEW r \in Runs, Apply(r) PROVE Placed'
  <2> DEFINE s == [run[r] EXCEPT !.pc = "applied"]
  <2>1. RunPlaced(s) /\ s.pc = "applied"
    BY <1>r, <1>4, Zenon DEF Apply, RunPlaced, RunStates
  <2>2. run' = [run EXCEPT ![r] = s] /\ UNCHANGED <<doubt, edits, faults>>
    BY <1>4, Zenon DEF Apply, Types
  <2> HIDE DEF s
  <2> QED
    BY <2>1, <2>2, RunMoves, Zenon DEF Placed
<1>5. ASSUME NEW r \in Runs, Pushed(r) \/ Refused(r) \/ Unreachable(r) PROVE Placed'
  <2>1. /\ run[r].pc \in {"post", "applied"} /\ Yielded /\ run' = [run EXCEPT ![r] = Resume(r)]
        /\ UNCHANGED edits /\ (UNCHANGED faults \/ Fault)
        /\ doubt' \in {doubt, doubt \ {run[r].at}, doubt \cup {run[r].at}}
    BY <1>5, Zenon DEF Pushed, Refused, Unreachable
  <2>2. RunPlaced(Resume(r)) /\ run[r].at \in Components
    BY <2>1, ResumePlaced, Zenon
  <2>3. faults' \in 0 .. MaxFaults /\ doubt' \subseteq Components
    BY <2>1, <2>2, FaultBound, Zenon DEF Placed
  <2>4. /\ \A q \in Runs : RunPlaced(run'[q])
        /\ \A p, q \in Runs : run'[p].pc = "next" /\ run'[q].pc = "next" => p = q
    BY <2>1, <2>2, RunMoves, Zenon
  <2> QED
    BY <2>1, <2>3, <2>4, Zenon DEF Placed
<1>6. ASSUME NEW c \in Components, NEW content \in Contents \cup {None}, Edit(c, content)
      PROVE  Placed'
  <2>1. edits' \in 0 .. MaxEdits /\ UNCHANGED <<run, doubt, faults>>
    BY <1>6, CatalogAssumption DEF Edit, Placed
  <2> QED
    BY <2>1, Zenon DEF Placed
<1>7. CASE RestartPlugin
  <2>1. /\ \A r \in Runs : run'[r] = Ended
        /\ doubt' = {} /\ UNCHANGED edits /\ Fault
    BY <1>7, Zenon DEF RestartPlugin
  <2>2. \A r \in Runs : RunPlaced(run'[r]) /\ run'[r].pc # "next"
    BY <1>e, <2>1, Zenon
  <2>3. faults' \in 0 .. MaxFaults /\ edits' \in 0 .. MaxEdits
    BY <2>1, FaultBound, Zenon DEF Placed
  <2> QED
    BY <2>1, <2>2, <2>3, Zenon DEF Placed
<1>8. CASE RestartEngine
  <2>1. doubt' = Components /\ UNCHANGED edits /\ Fault
    BY <1>8, Zenon DEF RestartEngine
  <2>2. \A q \in Runs : /\ run'[q].items = run[q].items /\ run'[q].at = run[q].at
                        /\ run'[q].pc = run[q].pc /\ run'[q].done = run[q].done
    BY <1>r, <1>8, Zenon DEF RestartEngine, RunStates
  <2>3. ASSUME NEW q \in Runs
        PROVE  RunPlaced(run'[q])
    <3>1. RunPlaced(run[q])
      BY <1>r, Zenon
    <3> QED
      BY <2>2, <3>1, Zenon DEF RunPlaced
  <2> QED
    BY <2>1, <2>2, <2>3, FaultBound DEF Placed
<1>9. CASE UNCHANGED vars
  BY <1>9, Zenon DEF vars, Placed
<1> QED
  BY <1>1, <1>2, <1>3, <1>4, <1>5, <1>6, <1>7, <1>8, <1>9, Zenon DEF Next, RunStep

(* However the timer's runs overlap and whatever fails, only one of them   *)
(* is between two awaits, and each pushes a component it listed and has    *)
(* not pushed yet.                                                         *)
THEOREM CatalogSyncTypeOK == Spec => []TypeOK
<1> DEFINE I == Types /\ PushesListed /\ Placed
<1>1. Init => I
  BY EndedState, CatalogAssumption
     DEF Init, Types, PushesListed, Placed, RunPlaced, Ended, Cells
<1>2. I /\ [Next]_vars => I'
  BY TypesStep, PlacedStep, Zenon
<1>3. I => TypeOK
  <2> SUFFICES ASSUME I PROVE TypeOK
    BY Zenon
  <2>1. {catalog, engine, memo} \subseteq [Components -> Contents \cup {None}]
    BY Zenon DEF Types, Cells
  <2>2. ASSUME NEW r \in Runs
        PROVE  /\ run[r].pc \in {"ended", "list", "next", "post", "applied"}
               /\ run[r].done \subseteq DOMAIN run[r].items /\ DOMAIN run[r].items \subseteq Components
               /\ run[r].at # 0 <=> run[r].pc \in {"post", "applied"}
               /\ run[r].at # 0 => run[r].at \in DOMAIN run[r].items \ run[r].done
    <3>1. run[r] \in RunStates /\ RunPlaced(run[r])
      BY Zenon DEF Types, Placed
    <3>2. run[r].items \in Listing /\ run[r].pc \in {"ended", "list", "next", "post", "applied"}
      BY <3>1, Zenon DEF RunStates
    <3>3. DOMAIN run[r].items \subseteq Components
      BY <3>2, ListingFacts, Zenon
    <3> QED
      BY <3>1, <3>2, <3>3, Zenon DEF RunPlaced
  <2> QED
    BY <2>1, <2>2, Zenon DEF TypeOK, Placed
<1> QED
  BY <1>1, <1>2, <1>3, PTL DEF Spec
=============================================================================
