------------------------------ MODULE Incidents ------------------------------
(***************************************************************************)
(* Incidents: the state machine of engine/internal/domain/incident.go, the *)
(* rows the storage backends keep, and the events handlers publish about   *)
(* them.  Every storage method is atomic (one mutex in the memory store,   *)
(* one statement in Postgres), and so is Bus.Publish; a handler that calls *)
(* two of them is two steps.                                               *)
(***************************************************************************)
EXTENDS Naturals, Sequences

CONSTANTS
    Backend,        \* "memory" or "postgres"
    MaxFaults       \* bound on storage errors, cancelled requests and restarts

ASSUME IncidentAssumptions ==
    /\ Backend \in {"memory", "postgres"}
    /\ MaxFaults \in Nat

VARIABLES
    incidents,      \* the incidents table; the index stands for the ULID
    log,            \* the events published so far, in bus order
    faults          \* how many of the MaxFaults faults have happened

IncidentsInit ==
    /\ incidents = <<>>
    /\ log = <<>>
    /\ faults = 0

-----------------------------------------------------------------------------
IncidentStates == {"pending", "triaged", "acknowledged", "remediating", "closed", "dismissed"}

allowedTransitions ==
    [ pending      |-> {"triaged", "dismissed"},
      triaged      |-> {"acknowledged", "dismissed"},
      acknowledged |-> {"remediating", "dismissed"},
      remediating  |-> {"closed"},
      closed       |-> {},
      dismissed    |-> {} ]

(* Mutant: the table is not consulted. *)
CanTransitionTo_Unchecked(from, to) == to \in IncidentStates

CanTransitionTo(from, to) == from = to \/ to \in allowedTransitions[from]

isNonTerminal(state) == state \notin {"closed", "dismissed"}

-----------------------------------------------------------------------------
(* Mutant: incidents start in a state the table does not know. *)
NewIncident_Unknown(ioc, ref, by) ==
    [ioc |-> ioc, ref |-> ref, state |-> "open", remediations |-> <<>>, by |-> by]

(* An incident pairs one IoC with one component: openIncidentsForMatches is *)
(* the only creator and writes a one-element snapshot, the field ref.  The  *)
(* field by is history: the request that opened it.  Remediations are kept  *)
(* in the order they were appended, which Postgres keeps in a column seq.   *)
NewIncident(ioc, ref, by) ==
    [ioc |-> ioc, ref |-> ref, state |-> "pending", remediations |-> <<>>, by |-> by]

HasIncident(ioc, ref) ==
    \E n \in DOMAIN incidents : incidents[n].ioc = ioc /\ incidents[n].ref = ref

matchPair(ioc, ref) == [ioc |-> ioc, ref |-> ref]

(* Mutant: only incidents nobody has touched yet count as open. *)
OpenPairs_PendingOnly ==
    { matchPair(incidents[n].ioc, incidents[n].ref) :
        n \in { m \in DOMAIN incidents : incidents[m].state = "pending" } }

(* The pairs that have a non-terminal incident. *)
OpenPairs ==
    { matchPair(incidents[n].ioc, incidents[n].ref) :
        n \in { m \in DOMAIN incidents : isNonTerminal(incidents[m].state) } }

(* Mutant: the Postgres statement writes the remediations too. *)
UpsertedRow_Whole(row, copy) == copy

(* UpsertIncident of an existing row.  The memory store replaces the whole *)
(* struct, its remediations included; Postgres keeps those in their own    *)
(* table, which the statement does not touch.                              *)
UpsertedRow(row, copy) ==
    IF Backend = "memory" THEN copy ELSE [copy EXCEPT !.remediations = row.remediations]

(* Mutant: the newest row is written, whatever the id. *)
UpsertIncident_Newest(n, copy) ==
    incidents' = [incidents EXCEPT ![Len(incidents)] = UpsertedRow(@, copy)]

UpsertIncident(n, copy) ==
    incidents' = [incidents EXCEPT ![n] = UpsertedRow(@, copy)]

AppendRemediation(n, rem) ==
    incidents' = [incidents EXCEPT ![n].remediations = Append(@, rem)]

Publish(e) == log' = Append(log, e)

Fault == faults < MaxFaults /\ faults' = faults + 1

(* Whether a storage write that reports success or failure has changed the *)
(* store.  The memory store writes first and then returns ctx.Err(), so a  *)
(* cancelled request has always written; a failed Postgres statement may   *)
(* have committed or not.                                                  *)
WriteOutcomes(ok) == IF ok \/ Backend = "memory" THEN {TRUE} ELSE {TRUE, FALSE}
=============================================================================
