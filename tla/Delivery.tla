------------------------------ MODULE Delivery ------------------------------
(***************************************************************************)
(* What a subscription to the event bus is worth, without channels, locks  *)
(* or cancel functions: a subscriber sees a gapless run of the published   *)
(* events, from the moment it subscribed to the moment it ended, and only  *)
(* a subscriber that is bufferSize events behind may be ended by Publish.  *)
(***************************************************************************)
EXTENDS Naturals, Sequences

CONSTANTS Events, Ids, bufferSize

VARIABLES
    published,  \* the events published so far, in order
    phase,      \* "new", "live" or "over", per subscription
    since,      \* how many events were published before it began
    upto,       \* the last event it will see, if it lives on
    seen        \* the events its reader has taken

vars == <<published, phase, since, upto, seen>>

Init ==
    /\ published = <<>>
    /\ phase = [i \in Ids |-> "new"]
    /\ since = [i \in Ids |-> 0]
    /\ upto = [i \in Ids |-> 0]
    /\ seen = [i \in Ids |-> <<>>]

Begin(i) ==
    /\ phase[i] = "new"
    /\ phase' = [phase EXCEPT ![i] = "live"]
    /\ since' = [since EXCEPT ![i] = Len(published)]
    /\ upto' = [upto EXCEPT ![i] = Len(published)]
    /\ UNCHANGED <<published, seen>>

Live == { i \in Ids : phase[i] = "live" }
Lagging == { i \in Live : upto[i] - (since[i] + Len(seen[i])) >= bufferSize }

Publish(e, ended) ==
    /\ ended \subseteq Lagging
    /\ published' = Append(published, e)
    /\ phase' = [i \in Ids |-> IF i \in ended THEN "over" ELSE phase[i]]
    /\ upto' = [i \in Ids |-> IF i \in Live \ ended THEN Len(published) + 1 ELSE upto[i]]
    /\ UNCHANGED <<since, seen>>

End(i) ==
    /\ phase[i] = "live"
    /\ phase' = [phase EXCEPT ![i] = "over"]
    /\ UNCHANGED <<published, since, upto, seen>>

See(i) ==
    /\ since[i] + Len(seen[i]) < upto[i]
    /\ seen' = [seen EXCEPT ![i] = Append(@, published[since[i] + Len(@) + 1])]
    /\ UNCHANGED <<published, phase, since, upto>>

Next ==
    \/ \E i \in Ids : Begin(i) \/ End(i) \/ See(i)
    \/ \E e \in Events, ended \in SUBSET Ids : Publish(e, ended)

Spec == Init /\ [][Next]_vars
=============================================================================
