----------------------------- MODULE CatalogSync -----------------------------
(***************************************************************************)
(* The Backstage plugin's CatalogSync: on a timer it lists the catalog's   *)
(* components, orders them by their dependencies and posts to the engine   *)
(* those whose content differs from the memo of what was last pushed.  The *)
(* code runs on one thread and yields only where it awaits the catalog or  *)
(* the engine; the timer does not wait for the previous run.               *)
(* The catalog and the engine are external.                                *)
(***************************************************************************)
EXTENDS Integers

CONSTANTS
    Components,     \* numbered in the order of their refs
    Contents,       \* what toEngineComponent makes of an entity
    Start,          \* the catalog when the plugin starts
    DependsOn,      \* component -> the components it depends on
    Runs,           \* runs of the timer that can be under way at once
    MaxEdits,       \* bound on changes of the catalog
    MaxFaults       \* bound on failures of the engine, the network and the plugin

None == "none"

(* What the catalog says of a component is never the absence of an entry. *)
ASSUME CatalogAssumption ==
    /\ Start \in [Components -> Contents \cup {None}] /\ None \notin Contents
    /\ Components \subseteq Nat \ {0} /\ {MaxEdits, MaxFaults} \subseteq Nat

VARIABLES
    catalog,        \* the catalog, None where it has no such component
    engine,         \* the engine's components table
    memo,           \* content last pushed, None where there is no entry
    run,            \* each run: its place, the entities it listed, those it is done with, the
                    \* one it is pushing and whether nothing else has touched that one
    doubt,          \* components with a push whose effect the sync cannot know
    edits,
    faults

vars == <<catalog, engine, memo, run, doubt, edits, faults>>

Ended == [pc |-> "ended", items |-> <<>>, done |-> {}, at |-> 0, alone |-> TRUE]

Init ==
    /\ catalog = Start
    /\ engine = [c \in Components |-> None] /\ memo = engine
    /\ run = [r \in Runs |-> Ended]
    /\ doubt = {}
    /\ edits = 0 /\ faults = 0

Fault == faults < MaxFaults /\ faults' = faults + 1

-----------------------------------------------------------------------------
(* Mutant: components are pushed in the order of their refs. *)
ReadyInAnyOrder(items, done) == items \ done

(* Kahn: those whose dependencies, as far as listed, have been ordered.     *)
(* The run takes the first of them; the components of a cycle, and what     *)
(* depends on them, are never ready.                                        *)
Ready(items, done) == { c \in items \ done : DependsOn[c] \cap items \subseteq done }

Listed == { c \in Components : catalog[c] # None }

(* Mutant: a component with an entry in the memo is never pushed again. *)
HasEntry(m, c, content) == m[c] # None

Unchanged(m, c, content) == m[c] = content

Pushing(r, c) == run[r].pc \in {"post", "applied"} /\ run[r].at = c

(* Mutant: another run goes on while one is between two awaits. *)
YieldedAlways == TRUE

(* No run is between two awaits: the thread is free. *)
Yielded == \A r \in Runs : run[r].pc # "next"

Resume(r) == [run[r] EXCEPT !.pc = "next", !.done = @ \cup {run[r].at}, !.at = 0, !.alone = TRUE]

(* The timer fires and the run asks the catalog. *)
Tick(r) ==
    /\ Yielded /\ run[r].pc = "ended"
    /\ run' = [run EXCEPT ![r].pc = "list"]
    /\ UNCHANGED <<catalog, engine, memo, doubt, edits, faults>>

(* The catalog answers, or fails and the run with it. *)
getEntities(r) ==
    /\ Yielded /\ run[r].pc = "list"
    /\ \/ /\ run' = [run EXCEPT ![r].pc = "next", ![r].items = [c \in Listed |-> catalog[c]]]
          /\ UNCHANGED faults
       \/ Fault /\ run' = [run EXCEPT ![r] = Ended]
    /\ UNCHANGED <<catalog, engine, memo, doubt, edits>>

(* The run starts to push a component; other runs may be pushing it too. *)
Post(r, c) ==
    LET with == { q \in Runs : Pushing(q, c) }
    IN  /\ run' = [q \in Runs |->
              IF q = r THEN [run[q] EXCEPT !.pc = "post", !.at = c, !.alone = with = {}]
              ELSE [run[q] EXCEPT !.alone = @ /\ q \notin with]]
        /\ doubt' = IF with = {} THEN doubt ELSE doubt \cup {c}

(* The loop of runOnce: the next component is passed over when the memo     *)
(* knows its content, and posted otherwise.                                 *)
runOnce(r) ==
    /\ run[r].pc = "next"
    /\ LET ready == Ready(DOMAIN run[r].items, run[r].done)
       IN  \/ ready = {} /\ run' = [run EXCEPT ![r] = Ended] /\ UNCHANGED doubt
           \/ \E c \in ready :
                 /\ \A d \in ready : c <= d
                 /\ IF Unchanged(memo, c, run[r].items[c])
                    THEN run' = [run EXCEPT ![r].done = @ \cup {c}] /\ UNCHANGED doubt
                    ELSE Post(r, c)
    /\ UNCHANGED <<catalog, engine, memo, edits, faults>>

(* UpsertComponent in the engine. *)
Apply(r) ==
    /\ run[r].pc = "post"
    /\ engine' = [engine EXCEPT ![run[r].at] = run[r].items[run[r].at]]
    /\ run' = [run EXCEPT ![r].pc = "applied"]
    /\ UNCHANGED <<catalog, memo, doubt, edits, faults>>

(* The engine's 2xx arrives: remember the content, go on. *)
Pushed(r) ==
    /\ Yielded /\ run[r].pc = "applied"
    /\ memo' = [memo EXCEPT ![run[r].at] = run[r].items[run[r].at]]
    /\ run' = [run EXCEPT ![r] = Resume(r)]
    /\ doubt' = IF run[r].alone THEN doubt \ {run[r].at} ELSE doubt
    /\ UNCHANGED <<catalog, engine, edits, faults>>

(* The engine refuses the component: its entry is dropped. *)
Refused(r) ==
    /\ Yielded /\ run[r].pc = "post" /\ Fault
    /\ memo' = [memo EXCEPT ![run[r].at] = None]
    /\ run' = [run EXCEPT ![r] = Resume(r)]
    /\ UNCHANGED <<catalog, engine, doubt, edits>>

(* Mutant: the memo is set whether or not the push succeeded. *)
UnreachableRemembered(r) ==
    /\ Yielded /\ run[r].pc \in {"post", "applied"} /\ Fault
    /\ memo' = [memo EXCEPT ![run[r].at] = run[r].items[run[r].at]]
    /\ run' = [run EXCEPT ![r] = Resume(r)]
    /\ UNCHANGED <<catalog, engine, doubt, edits>>

(* fetch rejects, before or after the engine took the request: the entry    *)
(* stays.                                                                   *)
Unreachable(r) ==
    /\ Yielded /\ run[r].pc \in {"post", "applied"} /\ Fault
    /\ run' = [run EXCEPT ![r] = Resume(r)]
    /\ doubt' = IF run[r].pc = "applied" THEN doubt \cup {run[r].at} ELSE doubt
    /\ UNCHANGED <<catalog, engine, memo, edits>>

-----------------------------------------------------------------------------
(* A component is registered, changed or removed in Backstage. *)
Edit(c, content) ==
    /\ edits < MaxEdits /\ content # catalog[c]
    /\ edits' = edits + 1
    /\ catalog' = [catalog EXCEPT ![c] = content]
    /\ UNCHANGED <<engine, memo, run, doubt, faults>>

(* The Backstage backend restarts: the memo is gone. *)
RestartPlugin ==
    /\ Fault
    /\ memo' = [c \in Components |-> None] /\ run' = [r \in Runs |-> Ended] /\ doubt' = {}
    /\ UNCHANGED <<catalog, engine, edits>>

(* The engine restarts with the memory store: its tables are gone. *)
RestartEngine ==
    /\ Fault
    /\ engine' = [c \in Components |-> None] /\ doubt' = Components
    /\ run' = [r \in Runs |-> [run[r] EXCEPT !.alone = @ /\ run[r].pc # "applied"]]
    /\ UNCHANGED <<catalog, memo, edits>>

RunStep(r) == Tick(r) \/ getEntities(r) \/ runOnce(r) \/ Apply(r) \/ Pushed(r)

Next ==
    \/ \E r \in Runs : RunStep(r) \/ Refused(r) \/ Unreachable(r)
    \/ \E c \in Components, content \in Contents \cup {None} : Edit(c, content)
    \/ RestartPlugin
    \/ RestartEngine

(* Timers fire and calls return; the event loop gets to every callback that *)
(* is due again and again while other runs hold the thread.                 *)
Fairness == \A r \in Runs : SF_vars(RunStep(r))

Spec == Init /\ [][Next]_vars /\ Fairness

-----------------------------------------------------------------------------
(* At most one run is between two awaits; a run pushes a component it       *)
(* listed and is not done with.                                             *)
TypeOK ==
    /\ {catalog, engine, memo} \subseteq [Components -> Contents \cup {None}]
    /\ \A r \in Runs :
          /\ run[r].pc \in {"ended", "list", "next", "post", "applied"}
          /\ run[r].done \subseteq DOMAIN run[r].items /\ DOMAIN run[r].items \subseteq Components
          /\ run[r].at # 0 <=> run[r].pc \in {"post", "applied"}
          /\ run[r].at # 0 => run[r].at \in DOMAIN run[r].items \ run[r].done
    /\ \A r, q \in Runs : run[r].pc = "next" /\ run[q].pc = "next" => r = q
    /\ doubt \subseteq Components
    /\ edits \in 0 .. MaxEdits /\ faults \in 0 .. MaxFaults

(* The memo never claims a push that did not happen: an entry whose content *)
(* the engine does not hold belongs to a component being pushed, or to one  *)
(* with a push in doubt (its answer was lost, it overlapped another run's,  *)
(* or the engine lost its tables).                                          *)
MemoIsTrue ==
    \A c \in Components :
        memo[c] \in {None, engine[c]} \/ c \in doubt \/ \E r \in Runs : Pushing(r, c)

(* When a component first lands in the engine, the dependencies listed with *)
(* it are there already ("so dependencies land before dependents"), as long *)
(* as no push has failed and no engine lost its tables.                     *)
DependenciesFirst ==
    [][\A c \in Components : engine[c] = None /\ engine'[c] # None =>
         \E r \in Runs :
            /\ Pushing(r, c)
            /\ faults = 0 =>
                  \A d \in DependsOn[c] \cap DOMAIN run[r].items : engine[d] # None]_vars

(* Components on a dependency cycle among those listed, or depending on one *)
(* that is.                                                                 *)
Cyclic(items) ==
    UNION { B \in SUBSET items : \A c \in B : DependsOn[c] \cap B # {} }

(* Once the catalog stops changing and nothing fails, the engine holds      *)
(* every listed component that is not behind a cycle, as the catalog has    *)
(* it, except where a push in doubt left a memo entry that hides it.        *)
Converges ==
    <>[](\A c \in Listed \ Cyclic(Listed) : engine[c] = catalog[c] \/ c \in doubt)
=============================================================================
