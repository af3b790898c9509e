------------------------------ MODULE EventBus ------------------------------
(***************************************************************************)
(* events.Bus: a map of buffered channels, a Publish that never blocks, and *)
(* three ways for a subscription to end: the subscriber cancels, its       *)
(* context is done, or Publish finds its channel full.  Each critical      *)
(* section of b.mu is one step; receiving from a channel needs no lock.    *)
(***************************************************************************)
EXTENDS Integers, Sequences

CONSTANTS
    Events,
    bufferSize,         \* capacity of a subscriber's channel
    MaxSubscriptions    \* bound: calls of Subscribe

ASSUME BufferAssumption == bufferSize \in Nat \ {0}
ASSUME SubscriptionsAssumption == MaxSubscriptions \in Nat

Ids == 0..(MaxSubscriptions - 1)

VARIABLES
    subs,       \* keys of the map b.subs
    nextID,
    buf,        \* what is buffered in each channel
    closes,     \* how often each channel was closed
    once,       \* the sync.Once of each cancel function
    published,  \* history: every event published
    since,      \* history: Len(published) when the subscription began
    taken       \* history: what was received from each channel

busVars == <<subs, nextID, buf, closes, once, published, since, taken>>

BusInit ==
    /\ subs = {} /\ nextID = 0 /\ published = <<>>
    /\ buf = [i \in Ids |-> <<>>]
    /\ closes = [i \in Ids |-> 0]
    /\ once = [i \in Ids |-> "fresh"]
    /\ since = [i \in Ids |-> 0]
    /\ taken = [i \in Ids |-> <<>>]

(* Variants of the bus that a slip in bus.go would give; some run shows    *)
(* that a property notices each of them.                                   *)
SubscribeReplaysLast ==
    /\ nextID \in Ids
    /\ nextID' = nextID + 1
    /\ subs' = subs \cup {nextID}
    /\ since' = [since EXCEPT ![nextID] = Len(published)]
    /\ buf' = [buf EXCEPT ![nextID] =
                 IF published = <<>> THEN <<>> ELSE <<published[Len(published)]>>]
    /\ UNCHANGED <<closes, once, published, taken>>

FullEarly == { i \in subs : Len(buf[i]) >= bufferSize - 1 }

CancelUnchecked(i) ==
    /\ once[i] = "running"
    /\ once' = [once EXCEPT ![i] = "done"]
    /\ subs' = subs \ {i}
    /\ closes' = [closes EXCEPT ![i] = @ + 1]
    /\ UNCHANGED <<nextID, buf, published, since, taken>>

CancelKeepsOpen(i) ==
    /\ once[i] = "running"
    /\ once' = [once EXCEPT ![i] = "done"]
    /\ subs' = subs \ {i}
    /\ UNCHANGED <<nextID, buf, closes, published, since, taken>>

-----------------------------------------------------------------------------
Subscribe ==
    /\ nextID \in Ids
    /\ nextID' = nextID + 1
    /\ subs' = subs \cup {nextID}
    /\ since' = [since EXCEPT ![nextID] = Len(published)]
    /\ UNCHANGED <<buf, closes, once, published, taken>>

(* The non-blocking send of Publish finds room, or the subscriber is       *)
(* deleted from the map and its channel closed.                            *)
Full == { i \in subs : Len(buf[i]) >= bufferSize }

Publish(e) ==
    /\ published' = Append(published, e)
    /\ buf' = [i \in Ids |-> IF i \in subs \ Full THEN Append(buf[i], e) ELSE buf[i]]
    /\ subs' = subs \ Full
    /\ closes' = [i \in Ids |-> IF i \in Full THEN closes[i] + 1 ELSE closes[i]]
    /\ UNCHANGED <<nextID, once, since, taken>>

(* cancel(): the first caller runs the body of once.Do, which then waits   *)
(* for the lock; Publish can come in between.                              *)
EnterCancel(i) ==
    /\ i < nextID /\ once[i] = "fresh"
    /\ once' = [once EXCEPT ![i] = "running"]
    /\ UNCHANGED <<subs, nextID, buf, closes, published, since, taken>>

Cancel(i) ==
    /\ once[i] = "running"
    /\ once' = [once EXCEPT ![i] = "done"]
    /\ subs' = subs \ {i}
    /\ closes' = [closes EXCEPT ![i] = IF i \in subs THEN @ + 1 ELSE @]
    /\ UNCHANGED <<nextID, buf, published, since, taken>>

(* A buffered event is received whether or not the channel is closed. *)
Receive(i) ==
    /\ buf[i] # <<>>
    /\ buf' = [buf EXCEPT ![i] = Tail(@)]
    /\ taken' = [taken EXCEPT ![i] = Append(@, Head(buf[i]))]
    /\ UNCHANGED <<subs, nextID, closes, once, published, since>>

BusNext ==
    \/ Subscribe
    \/ \E e \in Events : Publish(e)
    \/ \E i \in Ids : EnterCancel(i) \/ Cancel(i) \/ Receive(i)

BusSpec == BusInit /\ [][BusNext]_busVars

-----------------------------------------------------------------------------
BusTypeOK ==
    /\ subs \subseteq Ids /\ nextID \in 0..MaxSubscriptions
    /\ buf \in [Ids -> Seq(Events)] /\ taken \in [Ids -> Seq(Events)]
    /\ published \in Seq(Events)
    /\ closes \in [Ids -> Nat] /\ since \in [Ids -> Nat]
    /\ once \in [Ids -> {"fresh", "running", "done"}]

(* Neither panic of a Go channel can happen, whichever of the three ways   *)
(* of ending a subscription race: Publish never sends on a closed channel  *)
(* (every channel in the map is open), and no channel is closed twice.     *)
NoPanic ==
    /\ \A i \in subs : closes[i] = 0
    /\ \A i \in Ids : closes[i] <= 1

(* The bus keeps the promise of Delivery: a subscription's phase is read   *)
(* off the map, and what it may still see is what its channel holds.       *)
Phase(i) == IF i >= nextID THEN "new" ELSE IF i \in subs THEN "live" ELSE "over"
Upto(i) == since[i] + Len(taken[i]) + Len(buf[i])

Abstract == INSTANCE Delivery WITH
    phase <- [i \in Ids |-> Phase(i)],
    upto <- [i \in Ids |-> Upto(i)],
    seen <- taken

(* What a reader of the channel gets is a gapless run of the published     *)
(* events from its subscription on, and Publish drops only a subscriber    *)
(* whose buffer is full.                                                   *)
GaplessDelivery == Abstract!Spec
=============================================================================
