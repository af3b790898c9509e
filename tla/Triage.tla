------------------------------- MODULE Triage --------------------------------
(***************************************************************************)
(* The handlers operators use on an incident: TransitionIncident, a read,  *)
(* a check and a write of the whole incident with no lock across them, and *)
(* AddRemediation, which appends to its audit log.                         *)
(***************************************************************************)
EXTENDS Incidents

CONSTANTS
    Operators,      \* goroutines that can be serving a triage request
    MaxTriage       \* bound on the number of triage requests

ASSUME TriageAssumptions == MaxTriage \in Nat

VARIABLES
    tpc,            \* per goroutine: the next call of its handler
    task,           \* the request it serves, with the copy of the incident it read
    ntriage         \* triage requests accepted; numbers the remediations

triageVars == <<tpc, task, ntriage>>

NoTask == [inc |-> 0]

TriageInit ==
    /\ tpc = [o \in Operators |-> "idle"]
    /\ task = [o \in Operators |-> NoTask]
    /\ ntriage = 0

TGoto(o, label) == tpc' = [tpc EXCEPT ![o] = label]

TProceed(o, ok, label) ==
    \/ ok /\ TGoto(o, label) /\ UNCHANGED faults
    \/ ~ok /\ TGoto(o, "idle") /\ Fault

TAccept(o, t, label) ==
    /\ tpc[o] = "idle"
    /\ ntriage < MaxTriage
    /\ ntriage' = ntriage + 1
    /\ task' = [task EXCEPT ![o] = t]
    /\ TGoto(o, label)
    /\ UNCHANGED <<incidents, log, faults>>

(* Incident.Transition on the copy GetIncident returned. *)
Transition(inc, to) == [inc EXCEPT !.state = to]

(* An illegal transition is answered 409 and changes nothing.  A           *)
(* self-transition leaves the copy as read, and the copy is still written. *)
GetIncident(o, n, to) ==
    /\ CanTransitionTo(incidents[n].state, to)
    /\ TAccept(o, [inc |-> n, from |-> incidents[n].state,
                   copy |-> Transition(incidents[n], to)], "write")

WriteTransition(o, ok) ==
    /\ tpc[o] = "write"
    /\ \E written \in WriteOutcomes(ok) :
         IF written THEN UpsertIncident(task[o].inc, task[o].copy) ELSE UNCHANGED incidents
    /\ TProceed(o, ok, IF task[o].from = task[o].copy.state THEN "idle" ELSE "publish")
    /\ UNCHANGED <<task, ntriage, log>>

Transitioned(n, from, to) ==
    [type |-> "incident.transitioned", inc |-> n, from |-> from, to |-> to]

(* Mutant: the two states of the event are swapped. *)
PublishTransitioned_Swapped(o) ==
    /\ tpc[o] = "publish"
    /\ Publish(Transitioned(task[o].inc, task[o].copy.state, task[o].from))
    /\ TGoto(o, "idle")
    /\ UNCHANGED <<task, ntriage, incidents, faults>>

PublishTransitioned(o) ==
    /\ tpc[o] = "publish"
    /\ Publish(Transitioned(task[o].inc, task[o].from, task[o].copy.state))
    /\ TGoto(o, "idle")
    /\ UNCHANGED <<task, ntriage, incidents, faults>>

(* AddRemediation: the incident exists, and incidents are never deleted, so *)
(* the check holds until the append.  An unknown kind changes nothing.      *)
BeginRemediation(o, n) == TAccept(o, [inc |-> n, rem |-> ntriage + 1], "append")

(* Mutant: the error of the append is ignored. *)
AddRemediation_ErrorIgnored(o, ok) ==
    /\ tpc[o] = "append"
    /\ \E written \in WriteOutcomes(ok) :
         IF written THEN AppendRemediation(task[o].inc, task[o].rem) ELSE UNCHANGED incidents
    /\ TGoto(o, "added")
    /\ UNCHANGED <<task, ntriage, log, faults>>

AddRemediation(o, ok) ==
    /\ tpc[o] = "append"
    /\ \E written \in WriteOutcomes(ok) :
         IF written THEN AppendRemediation(task[o].inc, task[o].rem) ELSE UNCHANGED incidents
    /\ TProceed(o, ok, "added")
    /\ UNCHANGED <<task, ntriage, log>>

RemediationAdded(n, rem) == [type |-> "remediation.added", inc |-> n, rem |-> rem]

PublishRemediationAdded(o) ==
    /\ tpc[o] = "added"
    /\ Publish(RemediationAdded(task[o].inc, task[o].rem))
    /\ TGoto(o, "idle")
    /\ UNCHANGED <<task, ntriage, incidents, faults>>

TriageHandler(o) ==
    \/ \E ok \in BOOLEAN : WriteTransition(o, ok) \/ AddRemediation(o, ok)
    \/ PublishTransitioned(o) \/ PublishRemediationAdded(o)

TriageRequest(o, n) ==
    \/ \E to \in IncidentStates : GetIncident(o, n, to)
    \/ BeginRemediation(o, n)

TriageNext ==
    \E o \in Operators :
      \/ \E n \in DOMAIN incidents : TriageRequest(o, n)
      \/ TriageHandler(o)
=============================================================================
