---------------------------- MODULE StreamProofs ----------------------------
(***************************************************************************)
(* The event bus never panics and implements Delivery, for every buffer    *)
(* size and every number of subscriptions; and so does the bus inside the  *)
(* streaming endpoint, whose steps are steps of the bus or leave it alone. *)
(* The notifier at the other end posts in order and skips nothing.         *)
(***************************************************************************)
EXTENDS Stream, TLAPS

(* A leaf that names no prover may take its time with either. *)
USE SMTT(20), ZenonT(30)

(* A subscription in the map has not been closed and is up to date: what   *)
(* its reader took and what its channel holds reach to the last event.     *)
LiveOK(i) ==
    i \in subs => i < nextID /\ closes[i] = 0 /\ Upto(i) = Len(published)

(* What a channel holds is the run of published events its reader has not  *)
(* taken yet.                                                              *)
Window(i) ==
    /\ Len(buf[i]) <= bufferSize
    /\ Upto(i) <= Len(published)
    /\ \A k \in 1..Len(buf[i]) : buf[i][k] = published[since[i] + Len(taken[i]) + k]

(* An id that was not handed out yet has an untouched channel. *)
Untouched(i) ==
    i >= nextID => buf[i] = <<>> /\ taken[i] = <<>> /\ closes[i] = 0 /\ since[i] = 0

BusInv ==
    /\ BusTypeOK
    /\ \A i \in Ids : LiveOK(i) /\ Window(i) /\ Untouched(i) /\ closes[i] <= 1

(* Adding up the numbers of events before a subscription, taken from its    *)
(* channel and in it.                                                       *)
LEMMA OneMore == \A a, b, c \in Nat : a + b + (c + 1) = (a + b + c) + 1
  OBVIOUS

LEMMA OneMoved == \A a, b, c \in Nat : a + b + (c + 1) = a + (b + 1) + c
  OBVIOUS

LEMMA InitInv == BusInit => BusInv
  BY BufferAssumption, SubscriptionsAssumption
  DEF BusInit, BusInv, BusTypeOK, LiveOK, Window, Untouched, Upto, Ids

LEMMA SubscribeInv == BusInv /\ Subscribe => BusInv'
  <1> SUFFICES ASSUME BusInv, Subscribe PROVE BusInv'
    BY Zenon
  <1>1. BusTypeOK'
    BY SubscriptionsAssumption DEF BusInv, BusTypeOK, Subscribe, Ids
  <1>2. ASSUME NEW i \in Ids
        PROVE (LiveOK(i) /\ Window(i) /\ Untouched(i) /\ closes[i] <= 1)'
    <2>1. /\ i \in Int /\ nextID \in Nat /\ nextID' = nextID + 1 /\ published' = published
          /\ buf'[i] = buf[i] /\ taken'[i] = taken[i] /\ closes'[i] = closes[i]
          /\ published \in Seq(Events) /\ buf[i] \in Seq(Events) /\ taken[i] \in Seq(Events)
          /\ since[i] \in Nat
      BY DEF BusInv, BusTypeOK, Subscribe, Ids
    <2>2. LiveOK(i) /\ Window(i) /\ Untouched(i) /\ closes[i] <= 1
      BY Zenon DEF BusInv
    <2>3. CASE i = nextID
      <3>1. buf[i] = <<>> /\ taken[i] = <<>> /\ closes[i] = 0
        BY <2>1, <2>2, <2>3 DEF Untouched
      <3>2. since'[i] = Len(published)
        BY <2>3, Zenon DEF BusInv, BusTypeOK, Subscribe
      <3>3. Upto(i)' = Len(published)
        BY <2>1, <3>1, <3>2 DEF Upto
      <3> QED
        BY <2>1, <2>3, <3>1, <3>2, <3>3, BufferAssumption DEF LiveOK, Window, Untouched
    <2>4. CASE i # nextID
      <3>1. since'[i] = since[i] /\ (i \in subs' <=> i \in subs)
        BY <2>4, Zenon DEF BusInv, BusTypeOK, Subscribe
      <3>2. Upto(i)' = Upto(i)
        BY <2>1, <3>1, Zenon DEF Upto
      <3> QED
        BY <2>1, <2>2, <2>4, <3>1, <3>2 DEF LiveOK, Window, Untouched
    <2> QED
      BY <2>3, <2>4, Zenon
  <1> QED
    BY <1>1, <1>2, Zenon DEF BusInv

LEMMA PublishInv == ASSUME NEW e \in Events, BusInv, Publish(e) PROVE BusInv'
  <1>1. BusTypeOK'
    BY DEF BusInv, BusTypeOK, Publish, Full
  <1>2. ASSUME NEW i \in Ids
        PROVE (LiveOK(i) /\ Window(i) /\ Untouched(i) /\ closes[i] <= 1)'
    <2>1. /\ i \in Int /\ nextID \in Nat /\ nextID' = nextID
          /\ published' = Append(published, e)
          /\ taken'[i] = taken[i] /\ since'[i] = since[i]
          /\ published \in Seq(Events) /\ buf[i] \in Seq(Events) /\ taken[i] \in Seq(Events)
          /\ since[i] \in Nat /\ closes[i] \in Nat /\ subs' = subs \ Full
          /\ Full \subseteq subs
      <3>1. /\ i \in Int /\ nextID \in Nat
            /\ published \in Seq(Events) /\ buf[i] \in Seq(Events) /\ taken[i] \in Seq(Events)
            /\ since[i] \in Nat /\ closes[i] \in Nat
        BY SubscriptionsAssumption DEF BusInv, BusTypeOK, Ids
      <3>2. /\ nextID' = nextID /\ published' = Append(published, e)
            /\ taken' = taken /\ since' = since /\ subs' = subs \ Full
        BY Zenon DEF Publish
      <3>3. Full \subseteq subs
        BY Zenon DEF Full
      <3> QED
        BY <3>1, <3>2, <3>3, Zenon
    <2>2. LiveOK(i) /\ Window(i) /\ Untouched(i) /\ closes[i] <= 1
      BY Zenon DEF BusInv
    <2>l. Len(published') = Len(published) + 1
      BY <2>1
    <2>3. \A k \in 1..Len(published) : published'[k] = published[k]
      BY <2>1
    <2>4. published'[Len(published) + 1] = e
      BY <2>1
    <2>n. Len(published) \in Nat /\ Len(buf[i]) \in Nat /\ Len(taken[i]) \in Nat /\ since[i] \in Nat
      BY <2>1
    <2>u. since' = since /\ taken' = taken
      BY Zenon DEF Publish
    <2>5. CASE i \in subs \ Full
      <3>1. buf'[i] = Append(buf[i], e) /\ closes'[i] = closes[i] /\ Len(buf[i]) < bufferSize
        BY <2>1, <2>5, BufferAssumption DEF Publish, Full
      <3>l. Len(buf'[i]) = Len(buf[i]) + 1
        BY <2>1, <3>1
      <3>2. /\ buf'[i][Len(buf[i]) + 1] = e
            /\ \A k \in 1..Len(buf[i]) : buf'[i][k] = buf[i][k]
        BY <2>1, <3>1
      <3>3. Upto(i) = Len(published) /\ closes[i] = 0 /\ i < nextID
        BY <2>2, <2>5, Zenon DEF LiveOK
      <3>s. Upto(i)' = Upto(i) + 1
        <4>1. Upto(i)' = since[i] + Len(taken[i]) + (Len(buf[i]) + 1)
          BY <2>u, <3>l, Zenon DEF Upto
        <4> QED
          BY <2>n, <4>1, OneMore, Zenon DEF Upto
      <3>4. Upto(i)' = Len(published')
        BY <2>n, <2>l, <3>s, <3>3, Zenon
      <3>5. \A k \in 1..Len(buf'[i]) : buf'[i][k] = published'[since'[i] + Len(taken'[i]) + k]
        <4> SUFFICES ASSUME NEW k \in 1..Len(buf'[i])
                     PROVE buf'[i][k] = published'[since'[i] + Len(taken'[i]) + k]
          BY Zenon
        <4>1. CASE k = Len(buf[i]) + 1
          <5>2. since[i] + Len(taken[i]) + Len(buf[i]) = Len(published)
            BY <3>3, Zenon DEF Upto
          <5>3. since'[i] + Len(taken'[i]) + k = since[i] + Len(taken[i]) + (Len(buf[i]) + 1)
            BY <2>1, <4>1, Zenon
          <5>4. since[i] + Len(taken[i]) + (Len(buf[i]) + 1) = (since[i] + Len(taken[i]) + Len(buf[i])) + 1
            BY <2>n, OneMore, Zenon
          <5>1. since'[i] + Len(taken'[i]) + k = Len(published) + 1
            BY <5>2, <5>3, <5>4, Zenon
          <5> QED
            BY <2>4, <3>2, <4>1, <5>1, Zenon
        <4>2. CASE k \in 1..Len(buf[i])
          <5>1. since[i] + Len(taken[i]) + k \in 1..Len(published)
            BY <2>n, <3>3, <4>2 DEF Upto
          <5>2. buf[i][k] = published[since[i] + Len(taken[i]) + k]
            BY <2>2, <4>2, Zenon DEF Window
          <5>3. since'[i] + Len(taken'[i]) + k = since[i] + Len(taken[i]) + k
            BY <2>1, Zenon
          <5> QED
            BY <2>3, <3>2, <4>2, <5>1, <5>2, <5>3, Zenon
        <4> QED
          BY <2>n, <3>l, <4>1, <4>2
      <3> QED
        <4>1. LiveOK(i)'
          BY <2>1, <3>1, <3>3, <3>4, Zenon DEF LiveOK
        <4>2. Len(buf'[i]) <= bufferSize /\ Upto(i)' <= Len(published')
          BY <2>n, <2>l, <3>1, <3>l, <3>4, BufferAssumption
        <4>w. Window(i)'
          BY <4>2, <3>5, Zenon DEF Window
        <4>3. Untouched(i)' /\ closes'[i] <= 1
          BY <2>1, <3>1, <3>3 DEF Untouched
        <4> QED
          BY <4>1, <4>w, <4>3, Zenon
    <2>6. CASE i \notin subs \ Full
      <3>1. buf'[i] = buf[i] /\ Upto(i)' = Upto(i) /\ i \notin subs'
        BY <2>1, <2>6, Zenon DEF Publish, Upto
      <3>2. \A k \in 1..Len(buf[i]) : since[i] + Len(taken[i]) + k \in 1..Len(published)
        <4>1. Upto(i) <= Len(published)
          BY <2>2, Zenon DEF Window
        <4> QED
          BY <2>n, <4>1 DEF Upto
      <3>3. closes'[i] <= 1 /\ (i >= nextID => closes'[i] = 0)
        BY <2>1, <2>2 DEF Publish, LiveOK, Untouched
      <3> QED
        <4>1. LiveOK(i)'
          BY <3>1, Zenon DEF LiveOK
        <4>2. Len(buf'[i]) <= bufferSize /\ Upto(i)' <= Len(published')
          <5>1. Upto(i) \in Nat /\ Upto(i) <= Len(published)
            BY <2>n, <2>2 DEF Window, Upto
          <5>2. Len(buf'[i]) <= bufferSize
            BY <2>2, <3>1, Zenon DEF Window
          <5> QED
            BY <2>n, <2>l, <3>1, <5>1, <5>2
        <4>w. Window(i)'
          BY <2>2, <2>3, <2>u, <3>1, <3>2, <4>2, Zenon DEF Window
        <4>3. Untouched(i)' /\ closes'[i] <= 1
          BY <2>1, <2>2, <3>1, <3>3, Zenon DEF Untouched
        <4> QED
          BY <4>1, <4>w, <4>3, Zenon
    <2> QED
      BY <2>5, <2>6, Zenon
  <1> QED
    BY <1>1, <1>2, Zenon DEF BusInv

LEMMA CancelInv ==
    ASSUME NEW j \in Ids, BusInv, EnterCancel(j) \/ Cancel(j) PROVE BusInv'
  <1>1. /\ buf' = buf /\ taken' = taken /\ since' = since /\ published' = published
        /\ nextID' = nextID /\ subs' \subseteq subs
    BY Zenon DEF EnterCancel, Cancel
  <1>2. closes' \in [Ids -> Nat] /\ once' \in [Ids -> {"fresh", "running", "done"}]
    <2>1. CASE EnterCancel(j)
      BY <2>1, Zenon DEF BusInv, BusTypeOK, EnterCancel
    <2>2. CASE Cancel(j)
      <3>1. closes \in [Ids -> Nat] /\ once \in [Ids -> {"fresh", "running", "done"}]
        BY Zenon DEF BusInv, BusTypeOK
      <3> QED
        BY <2>2, <3>1 DEF Cancel
    <2> QED
      BY <2>1, <2>2, Zenon
  <1>3. BusTypeOK'
    BY <1>1, <1>2, Zenon DEF BusInv, BusTypeOK
  <1>4. ASSUME NEW i \in Ids
        PROVE (LiveOK(i) /\ Window(i) /\ Untouched(i) /\ closes[i] <= 1)'
    <2>1. LiveOK(i) /\ Window(i) /\ Untouched(i) /\ closes[i] <= 1
      BY Zenon DEF BusInv
    <2>2. \/ closes'[i] = closes[i]
          \/ closes'[i] = closes[i] + 1 /\ i \in subs /\ i \notin subs'
      BY Zenon DEF BusInv, BusTypeOK, EnterCancel, Cancel
    <2>3. closes[i] \in Nat /\ i \in Int /\ nextID \in Nat
      BY DEF BusInv, BusTypeOK, Ids
    <2> QED
      BY <1>1, <2>1, <2>2, <2>3 DEF LiveOK, Window, Untouched, Upto
  <1> QED
    BY <1>3, <1>4, Zenon DEF BusInv

LEMMA ReceiveInv == ASSUME NEW j \in Ids, BusInv, Receive(j) PROVE BusInv'
  <1>1. BusTypeOK'
    BY DEF BusInv, BusTypeOK, Receive
  <1>2. ASSUME NEW i \in Ids
        PROVE (LiveOK(i) /\ Window(i) /\ Untouched(i) /\ closes[i] <= 1)'
    <2>1. LiveOK(i) /\ Window(i) /\ Untouched(i) /\ closes[i] <= 1
      BY Zenon DEF BusInv
    <2>2. /\ buf[i] \in Seq(Events) /\ taken[i] \in Seq(Events) /\ since[i] \in Nat
          /\ i \in Int /\ nextID \in Nat
      BY DEF BusInv, BusTypeOK, Ids
    <2>3. /\ subs' = subs /\ nextID' = nextID /\ closes' = closes /\ published' = published
          /\ since' = since
      BY Zenon DEF Receive
    <2>4. CASE i = j
      <3>1. /\ buf[i] # <<>> /\ buf'[i] = Tail(buf[i])
            /\ taken'[i] = Append(taken[i], Head(buf[i]))
        BY <2>4, Zenon DEF BusInv, BusTypeOK, Receive
      <3>l. /\ Len(buf[i]) > 0 /\ Len(buf'[i]) = Len(buf[i]) - 1
            /\ Len(taken'[i]) = Len(taken[i]) + 1
        BY <2>2, <3>1
      <3>2. \A k \in 1..Len(buf'[i]) : buf'[i][k] = buf[i][k + 1] /\ k + 1 \in 1..Len(buf[i])
        BY <2>2, <3>1
      <3>n. /\ Len(buf[i]) \in Nat /\ Len(taken[i]) \in Nat /\ since[i] \in Nat
            /\ since' = since
        BY <2>2, <2>3
      <3>3. Upto(i)' = Upto(i)
        <4>1. Len(buf'[i]) \in Nat /\ Len(buf[i]) = Len(buf'[i]) + 1
          BY <3>n, <3>l
        <4>2. since[i] + Len(taken[i]) + (Len(buf'[i]) + 1) = since[i] + (Len(taken[i]) + 1) + Len(buf'[i])
          BY <3>n, <4>1, OneMoved, Zenon
        <4> QED
          BY <3>n, <3>l, <4>1, <4>2, Zenon DEF Upto
      <3>4. Window(i)'
        <4>1. \A k \in 1..Len(buf'[i]) :
                buf'[i][k] = published[since[i] + Len(taken[i]) + (k + 1)]
          BY <2>1, <3>2, Zenon DEF Window
        <4>2. ASSUME NEW k \in 1..Len(buf'[i])
              PROVE since[i] + Len(taken[i]) + (k + 1) = since'[i] + Len(taken'[i]) + k
          <5>1. k \in Nat
            BY <3>n, <3>l
          <5>2. since[i] + Len(taken[i]) + (k + 1) = since[i] + (Len(taken[i]) + 1) + k
            BY <5>1, <3>n, OneMoved, Zenon
          <5> QED
            BY <5>2, <3>n, <3>l, Zenon
        <4>3. Len(buf'[i]) <= bufferSize /\ Upto(i)' <= Len(published')
          BY <2>1, <2>3, <3>n, <3>l, <3>3, BufferAssumption DEF Window
        <4> QED
          BY <2>3, <4>1, <4>2, <4>3, Zenon DEF Window
      <3>5. i < nextID
        BY <2>1, <2>2, <3>1 DEF Untouched
      <3> QED
        BY <2>1, <2>2, <2>3, <3>3, <3>4, <3>5 DEF LiveOK, Untouched
    <2>5. CASE i # j
      <3>1. buf'[i] = buf[i] /\ taken'[i] = taken[i]
        BY <2>5, Zenon DEF BusInv, BusTypeOK, Receive
      <3> QED
        BY <2>1, <2>3, <3>1, Zenon DEF LiveOK, Window, Untouched, Upto
    <2> QED
      BY <2>4, <2>5, Zenon
  <1> QED
    BY <1>1, <1>2, Zenon DEF BusInv

LEMMA StepInv == BusInv /\ [BusNext]_busVars => BusInv'
  <1> SUFFICES ASSUME BusInv, [BusNext]_busVars PROVE BusInv'
    BY Zenon
  <1>1. CASE Subscribe
    BY <1>1, SubscribeInv, Zenon
  <1>2. CASE \E e \in Events : Publish(e)
    BY <1>2, PublishInv, Zenon
  <1>3. CASE \E i \in Ids : EnterCancel(i) \/ Cancel(i)
    BY <1>3, CancelInv, Zenon
  <1>4. CASE \E i \in Ids : Receive(i)
    BY <1>4, ReceiveInv, Zenon
  <1>5. CASE UNCHANGED busVars
    BY <1>5, Zenon DEF busVars, BusInv, BusTypeOK, LiveOK, Window, Untouched, Upto
  <1> QED
    BY <1>1, <1>2, <1>3, <1>4, <1>5, Zenon DEF BusNext

(* The bus keeps its invariant. *)
LEMMA Inductive == BusSpec => []BusInv
  BY InitInv, StepInv, PTL DEF BusSpec

(* No interleaving of Publish, cancel() and a context's end sends on a     *)
(* closed channel or closes one twice.                                     *)
THEOREM BusNeverPanics == BusSpec => []NoPanic
  <1>1. BusInv => NoPanic
    BY Zenon DEF BusInv, BusTypeOK, LiveOK, NoPanic
  <1> QED
    BY <1>1, Inductive, PTL

-----------------------------------------------------------------------------
LEMMA InitMaps == BusInit => Abstract!Init
  BY DEF BusInit, Abstract!Init, Phase, Upto, Ids

LEMMA SubscribeMaps == BusInv /\ Subscribe => Abstract!Begin(nextID)
  <1> SUFFICES ASSUME BusInv, Subscribe PROVE Abstract!Begin(nextID)
    BY Zenon
  <1>1. nextID \in Ids /\ nextID \notin subs /\ buf[nextID] = <<>> /\ taken[nextID] = <<>>
    BY DEF BusInv, BusTypeOK, Subscribe, LiveOK, Untouched, Ids
  <1>2. \A i \in Ids : Phase(i)' = IF i = nextID THEN "live" ELSE Phase(i)
    BY <1>1 DEF BusInv, BusTypeOK, Subscribe, Phase, Ids
  <1>3. \A i \in Ids : Upto(i)' = IF i = nextID THEN Len(published) ELSE Upto(i)
    BY <1>1, SMTT(40) DEF BusInv, BusTypeOK, Subscribe, Upto
  <1>4. Phase(nextID) = "new"
    BY <1>1 DEF Phase, BusInv, BusTypeOK
  <1> QED
    BY <1>1, <1>2, <1>3, <1>4, Zenon DEF Abstract!Begin, Subscribe, BusInv, BusTypeOK

LEMMA PublishMaps ==
    ASSUME NEW e \in Events, BusInv, Publish(e) PROVE Abstract!Publish(e, Full)
  <1>1. \A i \in subs : i \in Ids /\ i < nextID /\ Phase(i) = "live"
    BY DEF BusInv, BusTypeOK, LiveOK, Phase, Ids
  <1>2. \A i \in Ids : Phase(i)' = IF i \in Full THEN "over" ELSE Phase(i)
    BY <1>1, Zenon DEF BusInv, BusTypeOK, LiveOK, Publish, Full, Phase, Ids
  <1>3. \A i \in Ids : i \in subs <=> Phase(i) = "live"
    BY <1>1, Zenon DEF Phase
  <1>4. \A i \in Ids : Upto(i)' = IF i \in subs \ Full THEN Len(published) + 1 ELSE Upto(i)
    <2> SUFFICES ASSUME NEW i \in Ids
                 PROVE Upto(i)' = IF i \in subs \ Full THEN Len(published) + 1 ELSE Upto(i)
      BY Zenon
    <2>1. CASE i \in subs \ Full
      <3>1. buf[i] \in Seq(Events) /\ buf'[i] = Append(buf[i], e)
        BY <2>1, Zenon DEF BusInv, BusTypeOK, Publish
      <3>2. Len(buf'[i]) = Len(buf[i]) + 1 /\ Len(buf[i]) \in Nat
        BY <3>1
      <3>3. Upto(i) = Len(published) /\ since[i] \in Nat /\ Len(taken[i]) \in Nat
        BY <2>1 DEF BusInv, BusTypeOK, LiveOK
      <3>4. since' = since /\ taken' = taken
        BY Zenon DEF Publish
      <3>5. Upto(i)' = since[i] + Len(taken[i]) + (Len(buf[i]) + 1)
        BY <3>2, <3>4, Zenon DEF Upto
      <3>6. since[i] + Len(taken[i]) + (Len(buf[i]) + 1) = (since[i] + Len(taken[i]) + Len(buf[i])) + 1
        BY <3>2, <3>3, OneMore, Zenon
      <3>7. Upto(i)' = Len(published) + 1
        BY <3>3, <3>5, <3>6, Zenon DEF Upto
      <3> QED
        BY <2>1, <3>7, Zenon
    <2>2. CASE i \notin subs \ Full
      BY <2>2, Zenon DEF BusInv, BusTypeOK, Publish, Upto
    <2> QED
      BY <2>1, <2>2, Zenon
  <1>5. Full \subseteq Abstract!Lagging
    BY <1>1, <1>3, BufferAssumption
    DEF Full, Abstract!Lagging, Abstract!Live, BusInv, BusTypeOK, Upto
  <1>6. Abstract!Live = subs
    BY <1>1, <1>3, Zenon DEF Abstract!Live
  <1> QED
    BY <1>2, <1>4, <1>5, <1>6, Zenon DEF Abstract!Publish, Publish

LEMMA CancelMaps ==
    ASSUME NEW j \in Ids, BusInv, Cancel(j)
    PROVE Abstract!End(j) \/ UNCHANGED Abstract!vars
  <1>1. \A i \in Ids : Upto(i)' = Upto(i)
    BY Zenon DEF Cancel, Upto
  <1>2. CASE j \in subs
    <2>1. Phase(j) = "live" /\ \A i \in Ids : Phase(i)' = IF i = j THEN "over" ELSE Phase(i)
      BY <1>2 DEF BusInv, BusTypeOK, LiveOK, Cancel, Phase, Ids
    <2> QED
      BY <1>1, <2>1, Zenon DEF Abstract!End, Cancel
  <1>3. CASE j \notin subs
    <2>1. \A i \in Ids : Phase(i)' = Phase(i)
      BY <1>3, Zenon DEF Cancel, Phase
    <2> QED
      BY <1>1, <2>1, Zenon DEF Abstract!vars, Cancel
  <1> QED
    BY <1>2, <1>3, Zenon

LEMMA ReceiveMaps == ASSUME NEW j \in Ids, BusInv, Receive(j) PROVE Abstract!See(j)
  <1>1. /\ Len(buf[j]) > 0
        /\ Head(buf[j]) = published[since[j] + Len(taken[j]) + 1]
    BY DEF BusInv, BusTypeOK, Window, Receive
  <1>2. since[j] + Len(taken[j]) < Upto(j)
    BY <1>1 DEF BusInv, BusTypeOK, Upto
  <1>3. \A i \in Ids : Upto(i)' = Upto(i)
    BY <1>1 DEF BusInv, BusTypeOK, Receive, Upto
  <1>4. \A i \in Ids : Phase(i)' = Phase(i)
    BY Zenon DEF Receive, Phase
  <1> QED
    BY <1>1, <1>2, <1>3, <1>4, Zenon DEF Abstract!See, Receive, BusInv, BusTypeOK

LEMMA StepMaps == BusInv /\ [BusNext]_busVars => [Abstract!Next]_(Abstract!vars)
  <1> SUFFICES ASSUME BusInv, [BusNext]_busVars
               PROVE Abstract!Next \/ UNCHANGED Abstract!vars
    BY Zenon
  <1>1. CASE Subscribe
    BY <1>1, SubscribeMaps, Zenon DEF Abstract!Next, Subscribe
  <1>2. CASE \E e \in Events : Publish(e)
    <2>1. Full \in SUBSET Ids
      BY Zenon DEF Full, BusInv, BusTypeOK
    <2> QED
      BY <1>2, <2>1, PublishMaps, Zenon DEF Abstract!Next
  <1>3. CASE \E i \in Ids : Cancel(i)
    BY <1>3, CancelMaps, Zenon DEF Abstract!Next
  <1>4. CASE \E i \in Ids : Receive(i)
    BY <1>4, ReceiveMaps, Zenon DEF Abstract!Next
  <1>5. CASE (\E i \in Ids : EnterCancel(i)) \/ UNCHANGED busVars
    BY <1>5, Zenon DEF Abstract!vars, EnterCancel, busVars, Phase, Upto
  <1> QED
    BY <1>1, <1>2, <1>3, <1>4, <1>5, Zenon DEF BusNext

(* The bus implements Delivery: a subscriber sees a gapless run of events, *)
(* and Publish only drops one whose channel is full.                       *)
THEOREM BusDelivers == BusSpec => GaplessDelivery
  BY InitMaps, StepMaps, Inductive, PTL DEF BusSpec, GaplessDelivery, Abstract!Spec

-----------------------------------------------------------------------------
(* A handler that uses its subscription has one. *)
Subscribed ==
    /\ sub \in [Sessions -> Ids \cup {-1}]
    /\ hpc \in [Sessions ->
                  {"none", "accepted", "flushed", "loop", "write", "leave", "gone"}]
    /\ \A n \in Sessions : hpc[n] \in {"loop", "write", "leave"} => sub[n] \in Ids

LEMMA InitSubscribed == Init => Subscribed
  BY Zenon DEF Init, Subscribed

LEMMA StepSubscribed == Subscribed /\ [Next]_vars => Subscribed'
  <1> SUFFICES ASSUME Subscribed, [Next]_vars PROVE Subscribed'
    BY Zenon
  <1>1. CASE UNCHANGED <<hpc, sub>>
    BY <1>1, Zenon DEF Subscribed
  <1>2. ASSUME NEW n \in Sessions, StreamHandler(n) PROVE Subscribed'
    <2>1. CASE StreamSubscribe(n)
      BY <2>1, Zenon DEF Subscribed, StreamSubscribe, Subscribe, Goto
    <2>2. CASE newSSEWriter(n)
      BY <2>2, Zenon DEF Subscribed, newSSEWriter, Goto
    <2>3. CASE LoopDone(n) \/ LoopEvent(n) \/ LoopClosed(n)
      BY <2>3, Zenon DEF Subscribed, LoopDone, LoopEvent, LoopClosed, Goto
    <2>4. CASE WriteEvent(n) \/ Return(n)
      BY <2>4, Zenon DEF Subscribed, WriteEvent, Return, Goto
    <2> QED
      BY <1>2, <2>1, <2>2, <2>3, <2>4, Zenon DEF StreamHandler
  <1>3. CASE Dial
    BY <1>3, Zenon DEF Subscribed, Dial, Goto
  <1>4. CASE Connected \/ ReadFrame \/ Send \/ ReadEnds \/ Backoff
    BY <1>1, <1>4, Zenon DEF Connected, ReadFrame, Send, ReadEnds, Backoff, serverVars
  <1>5. CASE PublishEvent \/ OversizeFrame \/ Interrupt
    BY <1>1, <1>5, Zenon DEF PublishEvent, OversizeFrame, Interrupt, serverVars
  <1>6. ASSUME NEW n \in Sessions, CallCancel(n) \/ RunCancel(n) \/ Break(n)
        PROVE Subscribed'
    BY <1>1, <1>6, Zenon DEF CallCancel, RunCancel, Break, serverVars
  <1>7. CASE UNCHANGED vars
    BY <1>1, <1>7, Zenon DEF vars, serverVars
  <1> QED
    BY <1>2, <1>3, <1>4, <1>5, <1>6, <1>7, Zenon DEF Next, Client

LEMMA StepIsBusStep == Subscribed /\ [Next]_vars => [BusNext]_busVars
  <1> SUFFICES ASSUME Subscribed, [Next]_vars PROVE BusNext \/ UNCHANGED busVars
    BY Zenon
  <1>1. CASE PublishEvent
    <2>1. Len(published) + 1 \in DOMAIN Feed
      BY <1>1, FeedAssumption DEF PublishEvent
    <2> QED
      BY <1>1, <2>1, FeedAssumption, Zenon DEF PublishEvent, BusNext
  <1>2. ASSUME NEW n \in Sessions, StreamHandler(n) PROVE BusNext \/ UNCHANGED busVars
    <2>1. CASE StreamSubscribe(n)
      BY <2>1, Zenon DEF StreamSubscribe, BusNext
    <2>2. CASE LoopEvent(n)
      BY <2>2, Zenon DEF LoopEvent, Subscribed, BusNext
    <2>3. CASE newSSEWriter(n) \/ LoopDone(n) \/ LoopClosed(n) \/ WriteEvent(n) \/ Return(n)
      BY <2>3, Zenon DEF newSSEWriter, LoopDone, LoopClosed, WriteEvent, Return
    <2> QED
      BY <1>2, <2>1, <2>2, <2>3, Zenon DEF StreamHandler
  <1>3. CASE Client \/ OversizeFrame \/ Interrupt
    BY <1>3, Zenon DEF Client, Dial, Connected, ReadFrame, Send, ReadEnds, Backoff, OversizeFrame, Interrupt
  <1>4. ASSUME NEW n \in Sessions, CallCancel(n) \/ RunCancel(n)
        PROVE BusNext \/ UNCHANGED busVars
    <2>1. sub[n] \in Ids
      BY <1>4 DEF Subscribed, CallCancel, RunCancel
    <2> QED
      BY <1>4, <2>1, Zenon DEF CallCancel, RunCancel, BusNext
  <1>5. ASSUME NEW n \in Sessions, Break(n) PROVE UNCHANGED busVars
    BY <1>5, Zenon DEF Break
  <1>6. CASE UNCHANGED vars
    BY <1>6, Zenon DEF vars
  <1> QED
    BY <1>1, <1>2, <1>3, <1>4, <1>5, <1>6, Zenon DEF Next

(* The streaming endpoint uses the bus as the bus is meant to be used. *)
THEOREM StreamUsesBus == Spec => BusSpec
  <1>1. Init => BusInit
    BY Zenon DEF Init
  <1> QED
    BY <1>1, InitSubscribed, StepSubscribed, StepIsBusStep, PTL DEF Spec, BusSpec

(* Whatever the handlers, the notifier and the network do, no goroutine of *)
(* the streaming endpoint panics on a channel.                             *)
THEOREM StreamNeverPanics == Spec => []NoPanic
  BY StreamUsesBus, BusNeverPanics, Zenon

(* And what each handler reads from its channel is a gapless run of the    *)
(* published events.                                                       *)
THEOREM StreamDelivers == Spec => GaplessDelivery
  BY StreamUsesBus, BusDelivers, Zenon

-----------------------------------------------------------------------------
(* From the bus to the Slack channel: what the notifier reads follows what *)
(* it has seen, across sessions that overlap, break and are dropped.       *)

(* What the handler of session n has received from its channel, and what   *)
(* of it is written or lost: all but the event in its hand.                *)
Received(n) == since[sub[n]] + Len(taken[sub[n]])
Written(n) == IF hpc[n] = "write" THEN Received(n) - 1 ELSE Received(n)

(* The notifier has seen everything up to its mark, and a new session      *)
(* starts at the subscription if that is later.                            *)
Seen == IF mark > since[sub[conn]] THEN mark ELSE since[sub[conn]]

FeedPublished == \A k \in DOMAIN published : published[k] = Frame(k)

SessionsOK ==
    /\ broken \in [Sessions -> BOOLEAN] /\ wire \in [Sessions -> Seq(Events)]
    /\ writing \in [Sessions -> Events \cup {NoFrame}]
    /\ conn \in 0..MaxSubscriptions
    /\ npc \in {"dial", "await", "read", "post", "backoff", "stopped"}
    /\ npc \in {"await", "read", "post"} => conn > 0
    /\ \A n \in Sessions :
         /\ sub[n] < nextID
         /\ hpc[n] \in {"none", "accepted", "flushed"} => sub[n] = -1 /\ wire[n] = <<>>
         /\ hpc[n] \notin {"none", "accepted", "flushed"} => sub[n] >= 0
         /\ n > conn => hpc[n] = "none"
    /\ \A n, m \in Sessions : sub[n] = sub[m] /\ sub[n] >= 0 => n = m

(* The event in a handler's hand is the last one it received. *)
WritingLast ==
    \A n \in Sessions : hpc[n] = "write" =>
      /\ Len(taken[sub[n]]) > 0
      /\ writing[n] \in Events /\ writing[n] = Frame(Received(n))

(* The connection the notifier reads holds the run of frames that follows  *)
(* what it has seen, up to the last one written unless it is broken.       *)
WireFollows ==
    conn > 0 /\ sub[conn] >= 0 =>
      /\ Seen + Len(wire[conn]) <= Written(conn)
      /\ ~broken[conn] => Seen + Len(wire[conn]) = Written(conn)
      /\ \A j \in 1..Len(wire[conn]) : wire[conn][j] = Frame(Seen + j)

PostsUpToMark ==
    /\ mark \in 0..Len(published) /\ posted \in Seq(Nat)
    /\ \A j \in DOMAIN posted : posted[j] <= mark
    /\ npc = "post" => frame.at = mark /\ \A j \in DOMAIN posted : posted[j] < mark

LEMMA FrameFields == \A k : Frame(k).at = k /\ Frame(k).kind = Feed[k]
  BY Zenon DEF Frame

(* The histories of a subscription that began are final or only grow. *)
LEMMA SubscriptionsKept ==
    ASSUME BusInv, Subscribed, [Next]_vars
    PROVE  /\ nextID \in Nat /\ nextID' \in Nat /\ nextID' >= nextID
           /\ \A i \in Ids : i < nextID => since'[i] = since[i]
<1>1. BusNext \/ UNCHANGED busVars
  BY StepIsBusStep, Zenon
<1>2. nextID \in Nat /\ since \in [Ids -> Nat]
  BY SubscriptionsAssumption DEF BusInv, BusTypeOK
<1>3. CASE Subscribe
  BY <1>2, <1>3 DEF Subscribe, Ids
<1>4. UNCHANGED <<nextID, since>> \/ Subscribe
  BY <1>1, Zenon DEF BusNext, Publish, EnterCancel, Cancel, Receive, busVars
<1> QED
  BY <1>2, <1>3, <1>4

(* The part of a session that its handler's subscription is about. *)
LEMMA SessionBus ==
    ASSUME BusInv, Subscribed, NEW n \in Sessions, sub[n] >= 0
    PROVE  /\ sub[n] \in Ids /\ since[sub[n]] \in Nat /\ taken[sub[n]] \in Seq(Events)
           /\ buf[sub[n]] \in Seq(Events) /\ Len(taken[sub[n]]) \in Nat
           /\ Received(n) \in Nat /\ Received(n) + Len(buf[sub[n]]) <= Len(published)
<1>1. sub[n] \in Ids
  BY DEF Subscribed
<1>2. /\ since[sub[n]] \in Nat /\ taken[sub[n]] \in Seq(Events) /\ buf[sub[n]] \in Seq(Events)
  BY <1>1, Zenon DEF BusInv, BusTypeOK
<1>3. Upto(sub[n]) <= Len(published)
  BY <1>1, Zenon DEF BusInv, Window
<1> QED
  BY <1>1, <1>2, <1>3 DEF Upto, Received

LEMMA StepFeed ==
    ASSUME BusInv, FeedPublished, [Next]_vars
    PROVE  FeedPublished'
<1>1. CASE PublishEvent
  <2>1. published \in Seq(Events) /\ published' = Append(published, Frame(Len(published) + 1))
    BY <1>1, Zenon DEF PublishEvent, Publish, BusInv, BusTypeOK
  <2> HIDE DEF Frame
  <2>2. Len(published) + 1 \in DOMAIN Feed
    BY <1>1, <2>1, FeedAssumption DEF PublishEvent
  <2>3. Frame(Len(published) + 1) \in Events
    BY <2>2, FeedAssumption, Zenon
  <2> QED
    BY <2>1, <2>3 DEF FeedPublished
<1>2. CASE UNCHANGED published
  BY <1>2, Zenon DEF FeedPublished
<1>3. PublishEvent \/ UNCHANGED published
  <2>1. ASSUME NEW n \in Sessions, StreamHandler(n)
        PROVE  UNCHANGED published
    BY <2>1, Zenon DEF StreamHandler, newSSEWriter, StreamSubscribe, LoopDone, LoopEvent, LoopClosed,
       WriteEvent, Return, Subscribe, Receive, busVars
  <2>2. ASSUME NEW n \in Sessions, CallCancel(n) \/ RunCancel(n) \/ Break(n)
        PROVE  UNCHANGED published
    BY <2>2, Zenon DEF CallCancel, RunCancel, Break, EnterCancel, Cancel, busVars
  <2>3. CASE Client \/ OversizeFrame \/ Interrupt
    BY <2>3, Zenon DEF Client, Dial, Connected, ReadFrame, Send, ReadEnds, Backoff, OversizeFrame,
       Interrupt, busVars
  <2> QED
    BY <2>1, <2>2, <2>3, Zenon DEF Next, vars, busVars
<1> QED
  BY <1>1, <1>2, <1>3, Zenon

(* A session outside the handler that moves keeps its part of SessionsOK.   *)
LEMMA SessionsKept ==
    ASSUME BusInv, Subscribed, SessionsOK, [Next]_vars,
           UNCHANGED <<sub, hpc, wire, broken, writing, conn>>,
           npc' \in {"dial", "await", "read", "post", "backoff", "stopped"},
           npc' \in {"await", "read", "post"} => conn > 0
    PROVE  SessionsOK'
<1>1. nextID \in Nat /\ nextID' \in Nat /\ nextID' >= nextID
  BY SubscriptionsKept, Zenon
<1>2. \A n \in Sessions : sub[n] \in Int
  BY DEF Subscribed, Ids
<1> QED
  BY <1>1, <1>2 DEF SessionsOK

(* Closing the session the notifier reads. *)
LEMMA CloseSessions ==
    ASSUME SessionsOK, Subscribed, conn > 0, Close(conn), UNCHANGED <<sub, hpc, writing, conn, nextID>>,
           npc' \in {"backoff", "stopped"}
    PROVE  SessionsOK'
<1>1. conn \in Sessions
  BY SubscriptionsAssumption DEF SessionsOK, Sessions
<1>2. broken' \in [Sessions -> BOOLEAN] /\ wire' \in [Sessions -> Seq(Events)]
  BY <1>1 DEF SessionsOK, Close
<1>3. \A n \in Sessions : wire[n] = <<>> => wire'[n] = <<>>
  BY <1>1, Zenon DEF SessionsOK, Close
<1> QED
  BY <1>2, <1>3, Zenon DEF SessionsOK

(* A handler's step concerns its own session. *)
LEMMA SessionMoves ==
    ASSUME BusInv, Subscribed, SessionsOK, [Next]_vars, NEW n \in Sessions,
           UNCHANGED <<broken, conn, npc>>,
           wire' \in [Sessions -> Seq(Events)], writing' \in [Sessions -> Events \cup {NoFrame}],
           \A m \in Sessions : m # n => sub'[m] = sub[m] /\ hpc'[m] = hpc[m] /\ wire'[m] = wire[m],
           hpc[n] # "none", sub'[n] \in Int, sub'[n] < nextID', sub'[n] \in {sub[n], nextID},
           hpc'[n] \in {"none", "accepted", "flushed"} => sub'[n] = -1 /\ wire'[n] = <<>>,
           hpc'[n] \notin {"none", "accepted", "flushed"} => sub'[n] >= 0
    PROVE  SessionsOK'
<1>1. nextID \in Nat /\ nextID' \in Nat /\ nextID' >= nextID
  BY SubscriptionsKept, Zenon
<1>2. \A m \in Sessions : sub[m] \in Int /\ sub[m] < nextID
  BY DEF Subscribed, SessionsOK, Ids
<1>3. ASSUME NEW m \in Sessions
      PROVE  /\ sub'[m] < nextID'
             /\ hpc'[m] \in {"none", "accepted", "flushed"} => sub'[m] = -1 /\ wire'[m] = <<>>
             /\ hpc'[m] \notin {"none", "accepted", "flushed"} => sub'[m] >= 0
             /\ m > conn => hpc'[m] = "none"
  <2>1. CASE m = n
    BY <2>1, Zenon DEF SessionsOK
  <2>2. CASE m # n
    <3>1. sub'[m] = sub[m] /\ hpc'[m] = hpc[m] /\ wire'[m] = wire[m]
      BY <2>2, Zenon
    <3>2. /\ hpc[m] \in {"none", "accepted", "flushed"} => sub[m] = -1 /\ wire[m] = <<>>
          /\ hpc[m] \notin {"none", "accepted", "flushed"} => sub[m] >= 0
          /\ m > conn => hpc[m] = "none"
      BY Zenon DEF SessionsOK
    <3>3. sub'[m] < nextID'
      BY <1>1, <1>2, <3>1
    <3> QED
      BY <3>1, <3>2, <3>3, Zenon
  <2> QED
    BY <2>1, <2>2, Zenon
<1>4. ASSUME NEW m \in Sessions, NEW k \in Sessions, sub'[m] = sub'[k], sub'[m] >= 0
      PROVE  m = k
  <2>1. \A a, b \in Sessions : sub[a] = sub[b] /\ sub[a] >= 0 => a = b
    BY Zenon DEF SessionsOK
  <2>2. \A a \in Sessions : a # n => sub'[a] = sub[a] /\ sub[a] # nextID
    BY <1>1, <1>2
  <2>3. CASE m # n /\ k # n
    BY <1>4, <2>1, <2>2, <2>3, Zenon
  <2>4. CASE sub'[n] = nextID
    BY <1>4, <2>2, <2>3, <2>4, Zenon
  <2>5. CASE sub'[n] = sub[n]
    <3>1. sub'[m] = sub[m] /\ sub'[k] = sub[k]
      BY <2>2, <2>5, Zenon
    <3> QED
      BY <1>4, <2>1, <3>1, Zenon
  <2> QED
    BY <2>4, <2>5, Zenon
<1>5. /\ broken' \in [Sessions -> BOOLEAN] /\ conn' \in 0..MaxSubscriptions
      /\ npc' \in {"dial", "await", "read", "post", "backoff", "stopped"}
      /\ npc' \in {"await", "read", "post"} => conn' > 0
  BY Zenon DEF SessionsOK
<1> QED
  BY <1>3, <1>4, <1>5, Zenon DEF SessionsOK

LEMMA HandlerSessions ==
    ASSUME BusInv, Subscribed, SessionsOK, WritingLast, NEW n \in Sessions, StreamHandler(n)
    PROVE  SessionsOK'
<1>t. /\ hpc \in [Sessions -> {"none", "accepted", "flushed", "loop", "write", "leave", "gone"}]
      /\ sub \in [Sessions -> Ids \cup {-1}]
      /\ wire \in [Sessions -> Seq(Events)]
      /\ writing \in [Sessions -> Events \cup {NoFrame}]
      /\ nextID \in Nat /\ \A m \in Sessions : sub[m] \in Int
  BY SubscriptionsAssumption DEF SessionsOK, Subscribed, BusInv, BusTypeOK, Ids
<1>n. Next
  BY Zenon DEF Next
<1>s. /\ sub[n] < nextID
      /\ hpc[n] \in {"none", "accepted", "flushed"} => sub[n] = -1 /\ wire[n] = <<>>
      /\ hpc[n] \notin {"none", "accepted", "flushed"} => sub[n] >= 0
  BY Zenon DEF SessionsOK
<1>1. CASE newSSEWriter(n)
  <2>1. /\ hpc[n] = "accepted" /\ UNCHANGED <<sub, writing, wire, broken, conn, npc, nextID>>
        /\ hpc' = [hpc EXCEPT ![n] = "flushed"]
    BY <1>1, Zenon DEF newSSEWriter, Goto, busVars, clientVars, netVars
  <2> QED
    BY <1>t, <1>n, <1>s, <2>1, SessionMoves, Zenon
<1>2. CASE StreamSubscribe(n)
  <2>1. /\ hpc[n] = "flushed" /\ UNCHANGED <<writing, wire, broken, conn, npc>>
        /\ hpc' = [hpc EXCEPT ![n] = "loop"] /\ sub' = [sub EXCEPT ![n] = nextID]
        /\ nextID' = nextID + 1
    BY <1>2, Zenon DEF StreamSubscribe, Subscribe, Goto, clientVars, netVars
  <2>2. /\ hpc'[n] = "loop" /\ sub'[n] = nextID
        /\ \A m \in Sessions : m # n => sub'[m] = sub[m] /\ hpc'[m] = hpc[m]
    BY <1>t, <2>1, Zenon
  <2>3. sub'[n] \in Int /\ sub'[n] >= 0 /\ sub'[n] < nextID' /\ sub'[n] \in {sub[n], nextID}
    BY <1>t, <2>1, <2>2
  <2>4. /\ wire' \in [Sessions -> Seq(Events)] /\ writing' \in [Sessions -> Events \cup {NoFrame}]
        /\ \A m \in Sessions : m # n => wire'[m] = wire[m]
    BY <1>t, <2>1, Zenon
  <2>5. hpc[n] # "none" /\ hpc'[n] \notin {"none", "accepted", "flushed"}
    BY <2>1, <2>2, Zenon
  <2> QED
    BY <1>n, <2>1, <2>2, <2>3, <2>4, <2>5, SessionMoves, Zenon
<1>3. CASE LoopDone(n) \/ LoopClosed(n) \/ Return(n)
  <2>1. /\ hpc[n] \in {"loop", "leave"} /\ UNCHANGED <<sub, writing, wire, broken, conn, npc, nextID>>
        /\ hpc' = [hpc EXCEPT ![n] = "leave"] \/ hpc' = [hpc EXCEPT ![n] = "gone"]
    BY <1>3, Zenon DEF LoopDone, LoopClosed, Return, Goto, busVars, clientVars, netVars
  <2>2. /\ hpc'[n] \in {"leave", "gone"} /\ \A m \in Sessions : m # n => hpc'[m] = hpc[m]
    BY <1>t, <2>1, Zenon
  <2> QED
    BY <1>t, <1>n, <1>s, <2>1, <2>2, SessionMoves, Zenon
<1>4. CASE LoopEvent(n)
  <2>1. /\ hpc[n] = "loop" /\ UNCHANGED <<sub, wire, broken, conn, npc, nextID>>
        /\ hpc' = [hpc EXCEPT ![n] = "write"]
        /\ buf[sub[n]] # <<>> /\ writing' = [writing EXCEPT ![n] = Head(buf[sub[n]])]
    BY <1>4, Zenon DEF LoopEvent, Receive, Goto, clientVars, netVars
  <2>2. buf[sub[n]] \in Seq(Events)
    BY <2>1, Zenon DEF Subscribed, BusInv, BusTypeOK
  <2>3. Head(buf[sub[n]]) \in Events
    BY <2>1, <2>2
  <2>4. writing' \in [Sessions -> Events \cup {NoFrame}]
    BY <1>t, <2>1, <2>3, Zenon
  <2>5. hpc'[n] = "write" /\ \A m \in Sessions : m # n => hpc'[m] = hpc[m]
    BY <1>t, <2>1, Zenon
  <2> QED
    BY <1>t, <1>n, <1>s, <2>1, <2>4, <2>5, SessionMoves, Zenon
<1>5. CASE WriteEvent(n)
  <2>1. /\ hpc[n] = "write" /\ UNCHANGED <<sub, broken, conn, npc, nextID>>
        /\ hpc' = [hpc EXCEPT ![n] = "loop"] \/ hpc' = [hpc EXCEPT ![n] = "leave"]
        /\ writing' = [writing EXCEPT ![n] = NoFrame]
        /\ wire' = [wire EXCEPT ![n] = Append(@, writing[n])] \/ wire' = wire
    BY <1>5, Zenon DEF WriteEvent, Goto, busVars, clientVars
  <2>2. writing[n] \in Events
    BY <2>1, Zenon DEF WritingLast
  <2>3. Append(wire[n], writing[n]) \in Seq(Events)
    BY <1>t, <2>2
  <2>4. wire' \in [Sessions -> Seq(Events)] /\ \A m \in Sessions : m # n => wire'[m] = wire[m]
    BY <1>t, <2>1, <2>3, ZenonT(30)
  <2>5. writing' \in [Sessions -> Events \cup {NoFrame}]
    BY <1>t, <2>1, Zenon
  <2>6. /\ hpc'[n] \in {"loop", "leave"} /\ \A m \in Sessions : m # n => hpc'[m] = hpc[m]
    BY <1>t, <2>1, Zenon
  <2> QED
    BY <1>t, <1>n, <1>s, <2>1, <2>4, <2>5, <2>6, SessionMoves, Zenon
<1> QED
  BY <1>1, <1>2, <1>3, <1>4, <1>5, Zenon DEF StreamHandler

LEMMA StepSessions ==
    ASSUME BusInv, Subscribed, SessionsOK, WritingLast, [Next]_vars
    PROVE  SessionsOK'
<1>1. ASSUME NEW n \in Sessions, StreamHandler(n)
      PROVE  SessionsOK'
  BY <1>1, HandlerSessions, Zenon
<1>2. CASE Dial
  <2>t. /\ hpc \in [Sessions -> {"none", "accepted", "flushed", "loop", "write", "leave", "gone"}]
        /\ conn \in 0..MaxSubscriptions
    BY Zenon DEF Subscribed, SessionsOK
  <2>1. CASE conn' = conn
    <3>1. UNCHANGED <<sub, hpc, wire, broken, writing, conn>> /\ npc' = "backoff"
      BY <1>2, <2>t, <2>1 DEF Dial
    <3> QED
      BY <3>1, SessionsKept, Zenon
  <2>2. CASE conn' # conn
    <3>1. /\ conn < MaxSubscriptions /\ conn' = conn + 1 /\ npc' = "await"
          /\ hpc' = [hpc EXCEPT ![conn + 1] = "accepted"]
          /\ UNCHANGED <<sub, wire, broken, writing, nextID>>
      BY <1>2, <2>2, Zenon DEF Dial, Goto, busVars
    <3>2. conn + 1 \in Sessions /\ hpc[conn + 1] = "none"
      BY <2>t, <3>1, SubscriptionsAssumption DEF Sessions, SessionsOK
    <3>3. hpc'[conn + 1] = "accepted" /\ \A m \in Sessions : m # conn + 1 => hpc'[m] = hpc[m]
      BY <2>t, <3>1, <3>2, Zenon
    <3>4. ASSUME NEW m \in Sessions
          PROVE  /\ sub[m] < nextID
                 /\ hpc'[m] \in {"none", "accepted", "flushed"} => sub[m] = -1 /\ wire[m] = <<>>
                 /\ hpc'[m] \notin {"none", "accepted", "flushed"} => sub[m] >= 0
      BY <3>2, <3>3, Zenon DEF SessionsOK
    <3>5. ASSUME NEW m \in Sessions, m > conn + 1
          PROVE  hpc'[m] = "none"
      BY <2>t, <3>3, <3>5 DEF SessionsOK, Sessions
    <3>6. conn' \in 0..MaxSubscriptions /\ conn' > 0
      BY <2>t, <3>1, SubscriptionsAssumption
    <3> QED
      BY <3>1, <3>4, <3>5, <3>6, Zenon DEF SessionsOK
  <2> QED
    BY <2>1, <2>2, Zenon
<1>3. CASE Connected \/ Send \/ Backoff
  <2>1. UNCHANGED <<sub, hpc, wire, broken, writing, conn>> /\ npc' \in {"read", "backoff", "dial"}
    BY <1>3, Zenon DEF Connected, Send, Backoff, serverVars, netVars
  <2>2. npc' = "read" => npc \in {"await", "post"}
    BY <1>3, Zenon DEF Connected, Send, Backoff
  <2>3. npc' \in {"await", "read", "post"} => conn > 0
    BY <2>1, <2>2, Zenon DEF SessionsOK
  <2> QED
    BY <2>1, <2>3, SessionsKept, Zenon
<1>4. CASE ReadFrame
  <2>1. /\ npc = "read" /\ wire[conn] # <<>> /\ wire' = [wire EXCEPT ![conn] = Tail(@)]
        /\ npc' \in {"read", "post"} /\ UNCHANGED <<sub, hpc, broken, writing, conn, nextID>>
    BY <1>4, Zenon DEF ReadFrame, serverVars, busVars
  <2>2. conn \in Sessions /\ wire[conn] \in Seq(Events)
    BY <2>1, SubscriptionsAssumption DEF SessionsOK, Sessions
  <2>3. Tail(wire[conn]) \in Seq(Events)
    BY <2>1, <2>2
  <2>4. /\ wire' \in [Sessions -> Seq(Events)]
        /\ \A n \in Sessions : wire[n] = <<>> => wire'[n] = <<>>
    BY <2>1, <2>2, <2>3, Zenon DEF SessionsOK
  <2> QED
    BY <2>1, <2>4, Zenon DEF SessionsOK
<1>5. CASE OversizeFrame \/ (ReadEnds /\ broken[conn])
  <2>1. /\ npc = "read" /\ npc' = "backoff" /\ Close(conn)
        /\ UNCHANGED <<sub, hpc, writing, conn, nextID>>
    BY <1>5, Zenon DEF OversizeFrame, ReadEnds, serverVars, busVars
  <2>2. conn > 0
    BY <2>1, Zenon DEF SessionsOK
  <2> QED
    BY <2>1, <2>2, CloseSessions, Zenon
<1>6. CASE ReadEnds /\ ~broken[conn]
  <2>1. UNCHANGED <<sub, hpc, wire, broken, writing, conn>> /\ npc' = "dial"
    BY <1>6, Zenon DEF ReadEnds, serverVars
  <2> QED
    BY <2>1, SessionsKept, Zenon
<1>7. CASE Interrupt
  <2>1. npc' = "stopped" /\ UNCHANGED <<sub, hpc, writing, conn, nextID>>
    BY <1>7, Zenon DEF Interrupt, serverVars, busVars
  <2>2. CASE conn = 0
    <3>1. UNCHANGED <<wire, broken>>
      BY <1>7, <2>2, Zenon DEF Interrupt
    <3> QED
      BY <2>1, <3>1, SessionsKept, Zenon
  <2>3. CASE conn # 0
    <3>1. Close(conn)
      BY <1>7, <2>3, Zenon DEF Interrupt
    <3>2. conn > 0
      BY <2>3, SubscriptionsAssumption DEF SessionsOK
    <3> QED
      BY <2>1, <3>1, <3>2, CloseSessions, Zenon
  <2> QED
    BY <2>2, <2>3, Zenon
<1>8. CASE PublishEvent \/ (\E n \in Sessions : CallCancel(n) \/ RunCancel(n)) \/ UNCHANGED vars
  <2>1. UNCHANGED <<sub, hpc, wire, broken, writing, conn, npc>>
    BY <1>8, Zenon DEF PublishEvent, CallCancel, RunCancel, serverVars, clientVars, netVars, vars
  <2>2. /\ npc' \in {"dial", "await", "read", "post", "backoff", "stopped"}
        /\ npc' \in {"await", "read", "post"} => conn > 0
    BY <2>1, Zenon DEF SessionsOK
  <2> QED
    BY <2>1, <2>2, SessionsKept, Zenon
<1>9. ASSUME NEW n \in Sessions, Break(n)
      PROVE  SessionsOK'
  <2>1. /\ UNCHANGED <<sub, hpc, wire, writing, conn, npc, nextID>>
        /\ broken' = [broken EXCEPT ![n] = TRUE]
    BY <1>9, Zenon DEF Break, serverVars, clientVars, busVars
  <2>2. broken' \in [Sessions -> BOOLEAN]
    BY <2>1, Zenon DEF SessionsOK
  <2> QED
    BY <2>1, <2>2, Zenon DEF SessionsOK
<1> QED
  BY <1>1, <1>2, <1>3, <1>4, <1>5, <1>6, <1>7, <1>8, <1>9, Zenon DEF Next, Client

-----------------------------------------------------------------------------
LEMMA AppendedLength ==
    ASSUME NEW S, NEW q \in Seq(S), NEW e \in S
    PROVE  Len(Append(q, e)) = Len(q) + 1
  OBVIOUS

LEMMA HeadIsFirst ==
    ASSUME NEW S, NEW q \in Seq(S), q # <<>>
    PROVE  Len(q) \in Nat /\ Len(q) > 0 /\ Head(q) = q[1] /\ Head(q) \in S
  OBVIOUS

(* Receiving hands the next published event to the handler. *)
LEMMA LoopEventReceives ==
    ASSUME BusInv, Subscribed, FeedPublished, SessionsOK, NEW n \in Sessions, LoopEvent(n)
    PROVE  /\ hpc[n] = "loop" /\ sub[n] >= 0 /\ sub'[n] = sub[n] /\ hpc'[n] = "write"
           /\ since' = since /\ Len(taken'[sub[n]]) = Len(taken[sub[n]]) + 1
           /\ writing'[n] \in Events /\ writing'[n] = Frame(Received(n) + 1)
           /\ \A i \in Ids : i # sub[n] => taken'[i] = taken[i]
           /\ \A m \in Sessions : m # n => hpc'[m] = hpc[m] /\ writing'[m] = writing[m]
<1> DEFINE i == sub[n]
<1>1. /\ hpc[n] = "loop" /\ sub' = sub /\ hpc' = [hpc EXCEPT ![n] = "write"]
      /\ buf[i] # <<>> /\ taken' = [taken EXCEPT ![i] = Append(@, Head(buf[i]))]
      /\ since' = since /\ writing' = [writing EXCEPT ![n] = Head(buf[i])]
  BY Zenon DEF LoopEvent, Receive, Goto
<1>2. sub[n] >= 0
  BY <1>1, Zenon DEF SessionsOK
<1>3. /\ i \in Ids /\ since[i] \in Nat /\ taken[i] \in Seq(Events) /\ buf[i] \in Seq(Events)
      /\ Len(taken[i]) \in Nat /\ Received(n) \in Nat
      /\ Received(n) + Len(buf[i]) <= Len(published)
  BY <1>2, SessionBus, Zenon
<1>4. Len(buf[i]) \in Nat /\ Len(buf[i]) > 0 /\ Head(buf[i]) = buf[i][1] /\ Head(buf[i]) \in Events
  BY <1>1, <1>3, HeadIsFirst, Zenon
<1>5. Head(buf[i]) = Frame(Received(n) + 1)
  <2>1. buf[i][1] = published[Received(n) + 1]
    <3>1. \A k \in 1..Len(buf[i]) : buf[i][k] = published[since[i] + Len(taken[i]) + k]
      BY <1>3, Zenon DEF BusInv, Window
    <3>2. buf[i][1] = published[since[i] + Len(taken[i]) + 1]
      BY <1>4, <3>1
    <3> QED
      BY <3>2, Zenon DEF Received
  <2>2. Received(n) + 1 \in DOMAIN published
    BY <1>3, <1>4 DEF BusInv, BusTypeOK
  <2> HIDE DEF Frame
  <2> QED
    BY <1>4, <2>1, <2>2, Zenon DEF FeedPublished
<1>l. Len(Append(taken[i], Head(buf[i]))) = Len(taken[i]) + 1
  BY <1>3, <1>4, AppendedLength
<1>6. taken'[i] = Append(taken[i], Head(buf[i])) /\ \A j \in Ids : j # i => taken'[j] = taken[j]
  BY <1>1, <1>3, Zenon DEF BusInv, BusTypeOK
<1>7. Len(taken'[i]) = Len(taken[i]) + 1
  BY <1>6, <1>l, Zenon
<1>8. /\ hpc'[n] = "write" /\ writing'[n] = Head(buf[i])
      /\ \A m \in Sessions : m # n => hpc'[m] = hpc[m] /\ writing'[m] = writing[m]
  BY <1>1, Zenon DEF Subscribed, SessionsOK
<1> QED
  BY <1>1, <1>2, <1>4, <1>5, <1>6, <1>7, <1>8, Zenon

(* Only a handler that receives moves what was taken from a channel. *)
LEMMA TakenKept ==
    ASSUME [Next]_vars, \A n \in Sessions : ~LoopEvent(n)
    PROVE  taken' = taken
<1>1. ASSUME NEW n \in Sessions, StreamHandler(n)
      PROVE  taken' = taken
  BY <1>1, Zenon DEF StreamHandler, newSSEWriter, StreamSubscribe, LoopDone, LoopClosed, WriteEvent, Return,
     Subscribe, busVars
<1>2. ASSUME NEW n \in Sessions, CallCancel(n) \/ RunCancel(n) \/ Break(n)
      PROVE  taken' = taken
  BY <1>2, Zenon DEF CallCancel, RunCancel, Break, EnterCancel, Cancel, busVars
<1>3. CASE Client \/ OversizeFrame \/ Interrupt \/ PublishEvent
  BY <1>3, Zenon DEF Client, Dial, Connected, ReadFrame, Send, ReadEnds, Backoff, OversizeFrame, Interrupt,
     PublishEvent, Publish, busVars
<1> QED
  BY <1>1, <1>2, <1>3, Zenon DEF Next, vars, busVars

LEMMA StepWriting ==
    ASSUME BusInv, Subscribed, FeedPublished, SessionsOK, WritingLast, [Next]_vars
    PROVE  WritingLast'
<1> SUFFICES ASSUME NEW m \in Sessions, hpc'[m] = "write"
             PROVE  /\ Len(taken'[sub'[m]]) > 0 /\ writing'[m] \in Events
                    /\ writing'[m] = Frame(Received(m)')
  BY Zenon DEF WritingLast, Frame
<1> HIDE DEF Frame
<1>1. \A i \in Ids : i < nextID => since'[i] = since[i]
  BY SubscriptionsKept, Zenon
<1>2. ASSUME NEW n \in Sessions, LoopEvent(n), m = n
      PROVE  /\ Len(taken'[sub'[m]]) > 0 /\ writing'[m] \in Events
             /\ writing'[m] = Frame(Received(m)')
  <2>1. /\ sub[n] >= 0 /\ sub'[n] = sub[n] /\ since' = since
        /\ Len(taken'[sub[n]]) = Len(taken[sub[n]]) + 1
        /\ writing'[n] \in Events /\ writing'[n] = Frame(Received(n) + 1)
    BY <1>2, LoopEventReceives, Zenon
  <2>2. Len(taken[sub[n]]) \in Nat /\ since[sub[n]] \in Nat
    BY <2>1, SessionBus, Zenon
  <2>3. Received(n)' = Received(n) + 1
    BY <2>1, <2>2 DEF Received
  <2> QED
    BY <1>2, <2>1, <2>2, <2>3
<1>3. ASSUME hpc[m] = "write", writing'[m] = writing[m], sub'[m] = sub[m],
             taken'[sub[m]] = taken[sub[m]]
      PROVE  /\ Len(taken'[sub'[m]]) > 0 /\ writing'[m] \in Events
             /\ writing'[m] = Frame(Received(m)')
  <2>1. /\ Len(taken[sub[m]]) > 0 /\ writing[m] \in Events /\ writing[m] = Frame(Received(m))
    BY <1>3, Zenon DEF WritingLast
  <2>2. sub[m] >= 0 /\ sub[m] < nextID
    BY <1>3, Zenon DEF SessionsOK
  <2>3. sub[m] \in Ids
    BY <2>2, SessionBus, Zenon
  <2>4. Received(m)' = Received(m)
    BY <1>1, <1>3, <2>2, <2>3 DEF Received
  <2> QED
    BY <1>3, <2>1, <2>4, Zenon
<1>4. ASSUME NEW n \in Sessions, LoopEvent(n), m # n
      PROVE  /\ Len(taken'[sub'[m]]) > 0 /\ writing'[m] \in Events
             /\ writing'[m] = Frame(Received(m)')
  <2>1. /\ sub[n] >= 0 /\ \A i \in Ids : i # sub[n] => taken'[i] = taken[i]
        /\ hpc'[m] = hpc[m] /\ writing'[m] = writing[m]
    BY <1>4, LoopEventReceives, Zenon
  <2>2. sub' = sub
    BY <1>4, Zenon DEF LoopEvent
  <2>3. sub[m] >= 0 /\ sub[m] # sub[n]
    BY <1>4, <2>1, Zenon DEF SessionsOK
  <2>4. sub[m] \in Ids
    BY <2>3, SessionBus, Zenon
  <2> QED
    BY <1>3, <2>1, <2>2, <2>3, <2>4, Zenon
<1>5. ASSUME \A n \in Sessions : ~LoopEvent(n)
      PROVE  hpc[m] = "write" /\ writing'[m] = writing[m] /\ sub'[m] = sub[m]
  <2>1. ASSUME NEW n \in Sessions, StreamHandler(n)
        PROVE  hpc[m] = "write" /\ writing'[m] = writing[m] /\ sub'[m] = sub[m]
    <3>1. /\ hpc' \in { [hpc EXCEPT ![n] = l] : l \in {"flushed", "loop", "leave", "gone"} }
          /\ writing' = writing \/ writing' = [writing EXCEPT ![n] = NoFrame]
          /\ sub' = sub \/ sub' = [sub EXCEPT ![n] = nextID]
      BY <1>5, <2>1, Zenon DEF StreamHandler, newSSEWriter, StreamSubscribe, LoopDone, LoopClosed,
         WriteEvent, Return, Goto
    <3>2. m # n
      BY <3>1, Zenon DEF Subscribed
    <3> QED
      BY <3>1, <3>2 DEF Subscribed, SessionsOK
  <2>2. CASE Dial
    <3>1. /\ hpc' = hpc \/ (hpc' = [hpc EXCEPT ![conn + 1] = "accepted"])
          /\ UNCHANGED <<writing, sub>>
      BY <2>2, Zenon DEF Dial, Goto
    <3> QED
      BY <3>1, Zenon DEF Subscribed
  <2>3. CASE UNCHANGED <<hpc, writing, sub>>
    BY <2>3, Zenon
  <2> QED
    BY <2>1, <2>2, <2>3, Zenon DEF Next, Client, Connected, ReadFrame, Send, ReadEnds, Backoff, OversizeFrame,
       Interrupt, PublishEvent, CallCancel, RunCancel, Break, serverVars, vars
<1>6. CASE \A n \in Sessions : ~LoopEvent(n)
  <2>1. taken' = taken
    BY <1>6, TakenKept, Zenon
  <2> QED
    BY <1>3, <1>5, <1>6, <2>1, Zenon
<1> QED
  BY <1>2, <1>4, <1>6, Zenon

-----------------------------------------------------------------------------
(* WireFollows is about the session the notifier reads: it survives what   *)
(* leaves that session alone, or breaks it.                                *)
LEMMA WireKept ==
    ASSUME BusInv, Subscribed, SessionsOK, WireFollows, [Next]_vars,
           conn' = conn, mark' = mark, mark \in Nat, conn \in Sessions,
           sub'[conn] = sub[conn], hpc'[conn] = "write" <=> hpc[conn] = "write",
           sub[conn] >= 0 => taken'[sub[conn]] = taken[sub[conn]],
           broken[conn] => broken'[conn],
           wire'[conn] = wire[conn] \/ (wire'[conn] = <<>> /\ broken'[conn])
    PROVE  WireFollows'
<1> HIDE DEF Frame
<1> SUFFICES ASSUME sub[conn] >= 0
             PROVE  /\ Seen' + Len(wire'[conn]) <= Written(conn)'
                    /\ ~broken'[conn] => Seen' + Len(wire'[conn]) = Written(conn)'
                    /\ \A j \in 1..Len(wire'[conn]) : wire'[conn][j] = Frame(Seen' + j)
  BY Zenon DEF WireFollows, Seen, Written, Received, Frame
<1>1. /\ sub[conn] \in Ids /\ since[sub[conn]] \in Nat /\ Len(taken[sub[conn]]) \in Nat
      /\ wire[conn] \in Seq(Events) /\ sub[conn] < nextID
  BY SessionBus, Zenon DEF SessionsOK
<1>2. since'[sub[conn]] = since[sub[conn]]
  BY <1>1, SubscriptionsKept, Zenon
<1>3. Seen' = Seen /\ Written(conn)' = Written(conn)
  BY <1>2, Zenon DEF Seen, Written, Received
<1>4. /\ Seen + Len(wire[conn]) <= Written(conn)
      /\ ~broken[conn] => Seen + Len(wire[conn]) = Written(conn)
      /\ \A j \in 1..Len(wire[conn]) : wire[conn][j] = Frame(Seen + j)
  BY SubscriptionsAssumption DEF WireFollows, Sessions
<1>5. CASE wire'[conn] = wire[conn]
  BY <1>3, <1>4, <1>5, Zenon
<1>6. CASE wire'[conn] = <<>> /\ broken'[conn]
  <2>1. Len(wire'[conn]) = 0 /\ Len(wire[conn]) \in Nat
    BY <1>1, <1>6
  <2>2. 1..Len(wire'[conn]) = {}
    BY <2>1
  <2>3. Seen \in Int /\ Written(conn) \in Int
    BY <1>1 DEF Seen, Written, Received
  <2> QED
    BY <1>3, <1>4, <1>6, <2>1, <2>2, <2>3
<1> QED
  BY <1>5, <1>6, Zenon

LEMMA OneLess == \A a, b \in Nat : (a + (b + 1)) - 1 = a + b /\ (a + 1) + (b - 1) = a + b
  OBVIOUS

LEMMA OneAfter == \A a, b \in Nat : a + (b + 1) = (a + b) + 1
  OBVIOUS

(* The first read of a session: nothing the notifier has seen is after it. *)
LEMMA SubscribeWire ==
    ASSUME BusInv, Subscribed, SessionsOK, PostsUpToMark, StreamSubscribe(conn), conn \in Sessions
    PROVE  WireFollows'
<1> HIDE DEF Frame
<1>1. /\ hpc[conn] = "flushed" /\ hpc' = [hpc EXCEPT ![conn] = "loop"]
      /\ sub' = [sub EXCEPT ![conn] = nextID] /\ nextID \in Ids
      /\ since' = [since EXCEPT ![nextID] = Len(published)]
      /\ UNCHANGED <<taken, wire, broken, conn, mark>>
  BY Zenon DEF StreamSubscribe, Subscribe, Goto, clientVars, netVars
<1>2. /\ hpc'[conn] = "loop" /\ sub'[conn] = nextID /\ since'[nextID] = Len(published)
  BY <1>1, Zenon DEF Subscribed, BusInv, BusTypeOK
<1>3. taken[nextID] = <<>> /\ wire[conn] = <<>>
  BY <1>1 DEF BusInv, Untouched, SessionsOK, Ids
<1>4. Len(taken[nextID]) = 0 /\ Len(wire[conn]) = 0
  BY <1>3, Zenon
<1>5. mark \in Nat /\ Len(published) \in Nat /\ mark <= Len(published)
  BY DEF PostsUpToMark, BusInv, BusTypeOK
<1>6. Seen' = Len(published) /\ Written(conn)' = Len(published)
  BY <1>1, <1>2, <1>4, <1>5 DEF Seen, Written, Received
<1>7. Seen' + Len(wire'[conn]) = Written(conn)' /\ Written(conn)' \in Nat
  BY <1>1, <1>4, <1>5, <1>6
<1> QED
  BY <1>1, <1>4, <1>7 DEF WireFollows, Frame

(* Receiving an event writes nothing yet. *)
LEMMA LoopEventWire ==
    ASSUME BusInv, Subscribed, FeedPublished, SessionsOK, WireFollows, LoopEvent(conn),
           conn \in Sessions
    PROVE  WireFollows'
<1> HIDE DEF Frame
<1>1. /\ hpc[conn] = "loop" /\ sub[conn] >= 0 /\ sub'[conn] = sub[conn] /\ hpc'[conn] = "write"
      /\ since' = since /\ Len(taken'[sub[conn]]) = Len(taken[sub[conn]]) + 1
  BY LoopEventReceives, Zenon
<1>2. UNCHANGED <<wire, broken, conn, mark>>
  BY Zenon DEF LoopEvent, clientVars, netVars
<1>3. since[sub[conn]] \in Nat /\ Len(taken[sub[conn]]) \in Nat
  BY <1>1, SessionBus, Zenon
<1>4. Seen' = Seen
  BY <1>1, <1>2, Zenon DEF Seen
<1>5. Written(conn)' = Written(conn)
  <2>1. Written(conn)' = (since[sub[conn]] + (Len(taken[sub[conn]]) + 1)) - 1
    BY <1>1, <1>2, Zenon DEF Written, Received
  <2>2. Written(conn) = since[sub[conn]] + Len(taken[sub[conn]])
    BY <1>1, Zenon DEF Written, Received
  <2> QED
    BY <1>3, <2>1, <2>2, OneLess, Zenon
<1> QED
  BY <1>1, <1>2, <1>4, <1>5, Zenon DEF WireFollows, Frame

(* Writing appends the frame that follows, or loses it on a broken          *)
(* connection.                                                              *)
LEMMA WriteEventWire ==
    ASSUME BusInv, Subscribed, SessionsOK, WritingLast, WireFollows, mark \in Nat,
           WriteEvent(conn), conn \in Sessions
    PROVE  WireFollows'
<1> HIDE DEF Frame
<1>1. /\ hpc[conn] = "write" /\ UNCHANGED <<sub, since, taken, broken, conn, mark>>
      /\ hpc' = [hpc EXCEPT ![conn] = "loop"] \/ hpc' = [hpc EXCEPT ![conn] = "leave"]
  BY Zenon DEF WriteEvent, Goto, busVars, clientVars
<1>2. hpc'[conn] # "write"
  BY <1>1, Zenon DEF Subscribed
<1>3. sub[conn] >= 0 /\ wire[conn] \in Seq(Events)
  BY <1>1, Zenon DEF SessionsOK
<1>4. since[sub[conn]] \in Nat /\ Len(taken[sub[conn]]) \in Nat /\ Received(conn) \in Nat
  BY <1>3, SessionBus, Zenon
<1>5. writing[conn] \in Events /\ writing[conn] = Frame(Received(conn))
  BY <1>1, Zenon DEF WritingLast
<1>6. /\ Seen' = Seen /\ Seen \in Nat /\ Len(wire[conn]) \in Nat
      /\ Written(conn) = Received(conn) - 1 /\ Written(conn)' = Received(conn)
  BY <1>1, <1>2, <1>3, <1>4 DEF Seen, Written, Received
<1>7. /\ Seen + Len(wire[conn]) <= Written(conn)
      /\ ~broken[conn] => Seen + Len(wire[conn]) = Written(conn)
      /\ \A j \in 1..Len(wire[conn]) : wire[conn][j] = Frame(Seen + j)
  BY <1>3, SubscriptionsAssumption DEF WireFollows, Sessions
<1>8. CASE broken[conn]
  <2>1. wire' = wire
    BY <1>8, Zenon DEF WriteEvent
  <2>2. Seen + Len(wire[conn]) <= Received(conn)
    BY <1>4, <1>6, <1>7
  <2> QED
    BY <1>1, <1>6, <1>7, <1>8, <2>1, <2>2, Zenon DEF WireFollows, Frame
<1>9. CASE ~broken[conn]
  <2>1. wire' = [wire EXCEPT ![conn] = Append(@, writing[conn])]
    BY <1>9, Zenon DEF WriteEvent
  <2>2. wire'[conn] = Append(wire[conn], writing[conn])
    BY <2>1, Zenon DEF SessionsOK
  <2>3. /\ Len(wire'[conn]) = Len(wire[conn]) + 1 /\ wire'[conn][Len(wire[conn]) + 1] = writing[conn]
        /\ \A j \in 1..Len(wire[conn]) : wire'[conn][j] = wire[conn][j]
    BY <1>3, <1>5, <2>2
  <2>4. Seen + Len(wire'[conn]) = Received(conn) /\ Received(conn) = Seen + (Len(wire[conn]) + 1)
    <3>1. Received(conn) = Written(conn) + 1
      BY <1>4, <1>6
    <3>2. Seen + (Len(wire[conn]) + 1) = (Seen + Len(wire[conn])) + 1
      BY <1>6, OneAfter, Zenon
    <3>3. Seen + Len(wire[conn]) = Written(conn)
      BY <1>7, <1>9, Zenon
    <3>4. Seen + (Len(wire[conn]) + 1) = Received(conn)
      BY <3>1, <3>2, <3>3, Zenon
    <3> QED
      BY <2>3, <3>4, Zenon
  <2>5. ASSUME NEW j \in 1..Len(wire'[conn])
        PROVE  wire'[conn][j] = Frame(Seen + j)
    <3>1. CASE j = Len(wire[conn]) + 1
      BY <1>5, <2>3, <2>4, <3>1, Zenon
    <3>2. CASE j # Len(wire[conn]) + 1
      <4>1. j \in 1..Len(wire[conn])
        BY <1>6, <2>3, <3>2
      <4> QED
        BY <1>7, <2>3, <4>1, Zenon
    <3> QED
      BY <3>1, <3>2, Zenon
  <2> QED
    BY <1>1, <1>4, <1>6, <2>4, <2>5 DEF WireFollows, Frame
<1> QED
  BY <1>8, <1>9, Zenon

(* Reading takes the frame that follows what was seen. *)
LEMMA ReadFrameNext ==
    ASSUME BusInv, Subscribed, SessionsOK, WireFollows, mark \in Nat, ReadFrame
    PROVE  /\ conn \in Sessions /\ sub[conn] >= 0 /\ Seen \in Nat /\ Seen >= mark
           /\ Head(wire[conn]) = Frame(Seen + 1) /\ mark' = Seen + 1
           /\ mark' <= Len(published) /\ WireFollows'
<1> HIDE DEF Frame
<1>1. /\ npc = "read" /\ wire[conn] # <<>> /\ wire' = [wire EXCEPT ![conn] = Tail(@)]
      /\ mark' = Head(wire[conn]).at /\ UNCHANGED <<hpc, sub, since, taken, broken, conn>>
  BY Zenon DEF ReadFrame, busVars, serverVars
<1>2. conn > 0 /\ conn \in Sessions /\ wire[conn] \in Seq(Events)
  BY <1>1, SubscriptionsAssumption DEF SessionsOK, Sessions
<1>3. sub[conn] >= 0
  BY <1>1, <1>2, Zenon DEF SessionsOK
<1>4. /\ since[sub[conn]] \in Nat /\ Len(taken[sub[conn]]) \in Nat /\ Received(conn) \in Nat
      /\ Len(buf[sub[conn]]) \in Nat /\ Received(conn) + Len(buf[sub[conn]]) <= Len(published)
  BY <1>2, <1>3, SessionBus
<1>5. Seen \in Nat /\ Seen >= mark /\ Seen >= since[sub[conn]]
  BY <1>4 DEF Seen
<1>6. /\ Written(conn) \in Int /\ Written(conn) <= Received(conn)
      /\ Written(conn)' = Written(conn)
  BY <1>1, <1>4 DEF Written, Received
<1>7. /\ Seen + Len(wire[conn]) <= Written(conn)
      /\ ~broken[conn] => Seen + Len(wire[conn]) = Written(conn)
      /\ \A j \in 1..Len(wire[conn]) : wire[conn][j] = Frame(Seen + j)
  BY <1>2, <1>3, Zenon DEF WireFollows
<1>8. /\ Len(wire[conn]) \in Nat /\ Len(wire[conn]) > 0 /\ Head(wire[conn]) = wire[conn][1]
      /\ Len(Tail(wire[conn])) = Len(wire[conn]) - 1
      /\ \A j \in 1..Len(Tail(wire[conn])) :
           Tail(wire[conn])[j] = wire[conn][j + 1] /\ j + 1 \in 1..Len(wire[conn])
  BY <1>1, <1>2
<1>9. Head(wire[conn]) = Frame(Seen + 1)
  BY <1>7, <1>8
<1>10. mark' = Seen + 1
  BY <1>1, <1>9, FrameFields, Zenon
<1>11. mark' <= Len(published)
  <2>1. Len(published) \in Nat
    BY DEF BusInv, BusTypeOK
  <2>2. Received(conn) <= Len(published)
    BY <1>4, <2>1
  <2>3. Seen + Len(wire[conn]) <= Written(conn)
    BY <1>7, Zenon
  <2>4. Seen + Len(wire[conn]) <= Len(published)
    BY <1>4, <1>5, <1>6, <1>8, <2>1, <2>2, <2>3
  <2>5. Seen + 1 <= Len(published)
    BY <1>5, <1>8, <2>1, <2>4
  <2> QED
    BY <1>10, <2>5, Zenon
<1>12. Seen' = Seen + 1
  BY <1>1, <1>4, <1>5, <1>10 DEF Seen
<1>13. wire'[conn] = Tail(wire[conn])
  BY <1>1, <1>2, Zenon DEF SessionsOK
<1>14. /\ Seen' + Len(wire'[conn]) <= Written(conn)'
       /\ ~broken[conn] => Seen' + Len(wire'[conn]) = Written(conn)'
  <2>1. Seen' + Len(wire'[conn]) = (Seen + 1) + (Len(wire[conn]) - 1)
    BY <1>8, <1>12, <1>13, Zenon
  <2>2. Seen' + Len(wire'[conn]) = Seen + Len(wire[conn])
    BY <1>5, <1>8, <2>1, OneLess, Zenon
  <2> QED
    BY <1>6, <1>7, <2>2, Zenon
<1>15. ASSUME NEW j \in 1..Len(wire'[conn])
       PROVE  wire'[conn][j] = Frame(Seen' + j)
  <2>1. wire'[conn][j] = Frame(Seen + (j + 1))
    BY <1>7, <1>8, <1>13, Zenon
  <2>2. Seen + (j + 1) = Seen' + j
    BY <1>5, <1>12
  <2> QED
    BY <2>1, <2>2, Zenon
<1>16. WireFollows'
  BY <1>1, <1>14, <1>15, Zenon DEF WireFollows, Frame
<1> QED
  BY <1>2, <1>3, <1>5, <1>9, <1>10, <1>11, <1>16, Zenon

(* A session the step is not about. *)
LEMMA OtherSessionWire ==
    ASSUME BusInv, Subscribed, FeedPublished, SessionsOK, WireFollows, mark \in Nat,
           conn \in Sessions, NEW n \in Sessions, n # conn, StreamHandler(n)
    PROVE  WireFollows'
<1>1. UNCHANGED <<broken, conn, mark>>
  BY Zenon DEF StreamHandler, newSSEWriter, StreamSubscribe, LoopDone, LoopEvent, LoopClosed, WriteEvent,
     Return, clientVars, netVars
<1>2. /\ hpc' \in { [hpc EXCEPT ![n] = l] : l \in {"flushed", "loop", "write", "leave", "gone"} }
      /\ sub' = sub \/ sub' = [sub EXCEPT ![n] = nextID]
      /\ wire' = wire \/ wire' = [wire EXCEPT ![n] = Append(@, writing[n])]
  BY Zenon DEF StreamHandler, newSSEWriter, StreamSubscribe, LoopDone, LoopEvent, LoopClosed, WriteEvent,
     Return, Goto, netVars
<1>3. hpc'[conn] = hpc[conn] /\ sub'[conn] = sub[conn] /\ wire'[conn] = wire[conn]
  BY <1>2 DEF Subscribed, SessionsOK
<1>4. ASSUME sub[conn] >= 0
      PROVE  taken'[sub[conn]] = taken[sub[conn]]
  <2>1. sub[conn] \in Ids
    BY <1>4, SessionBus, Zenon
  <2>2. CASE LoopEvent(n)
    <3>1. sub[n] >= 0 /\ \A i \in Ids : i # sub[n] => taken'[i] = taken[i]
      BY <2>2, LoopEventReceives, Zenon
    <3>2. sub[conn] # sub[n]
      BY <1>4, Zenon DEF SessionsOK
    <3> QED
      BY <2>1, <3>1, <3>2, Zenon
  <2>3. CASE ~LoopEvent(n)
    BY <2>3, Zenon DEF StreamHandler, newSSEWriter, StreamSubscribe, LoopDone, LoopClosed, WriteEvent, Return,
       Subscribe, busVars
  <2> QED
    BY <2>2, <2>3, Zenon
<1>5. Next
  BY Zenon DEF Next
<1> QED
  BY <1>1, <1>3, <1>4, <1>5, WireKept, Zenon

LEMMA StepWire ==
    ASSUME BusInv, Subscribed, FeedPublished, SessionsOK, WritingLast, WireFollows, PostsUpToMark,
           [Next]_vars
    PROVE  WireFollows'
<1>m. mark \in Nat /\ conn \in Nat
  BY SubscriptionsAssumption DEF PostsUpToMark, SessionsOK, BusInv, BusTypeOK
<1>0. CASE conn = 0 /\ conn' = conn
  BY <1>0 DEF WireFollows
<1>c. ASSUME conn # 0
      PROVE  conn \in Sessions
  BY <1>c, SubscriptionsAssumption DEF SessionsOK, Sessions
<1>1. ASSUME NEW n \in Sessions, StreamHandler(n), conn \in Sessions
      PROVE  WireFollows'
  <2>1. CASE n # conn
    BY <1>m, <1>1, <2>1, OtherSessionWire, Zenon
  <2>2. CASE StreamSubscribe(conn)
    BY <1>1, <2>2, SubscribeWire, Zenon
  <2>3. CASE LoopEvent(conn)
    BY <1>1, <2>3, LoopEventWire, Zenon
  <2>4. CASE WriteEvent(conn)
    BY <1>m, <1>1, <2>4, WriteEventWire, Zenon
  <2>5. CASE newSSEWriter(conn) \/ LoopDone(conn) \/ LoopClosed(conn) \/ Return(conn)
    <3>1. /\ UNCHANGED <<sub, taken, wire, broken, conn, mark>> /\ hpc[conn] # "write"
          /\ hpc' \in { [hpc EXCEPT ![conn] = l] : l \in {"flushed", "leave", "gone"} }
      BY <2>5, Zenon DEF newSSEWriter, LoopDone, LoopClosed, Return, Goto, busVars, clientVars, netVars
    <3>2. hpc'[conn] # "write"
      BY <1>1, <3>1, Zenon DEF Subscribed
    <3> QED
      BY <1>m, <1>1, <3>1, <3>2, WireKept, Zenon
  <2> QED
    BY <1>1, <2>1, <2>2, <2>3, <2>4, <2>5, Zenon DEF StreamHandler
<1>2. CASE ReadFrame
  BY <1>m, <1>2, ReadFrameNext, Zenon
<1>3. CASE Dial
  <2>1. CASE conn' = conn
    <3>1. UNCHANGED <<hpc, sub, taken, wire, broken, mark>>
      BY <1>m, <1>3, <2>1 DEF Dial, busVars
    <3> QED
      BY <1>m, <1>0, <1>c, <2>1, <3>1, WireKept, Zenon
  <2>2. CASE conn' # conn
    <3>1. /\ conn < MaxSubscriptions /\ conn' = conn + 1 /\ UNCHANGED sub
      BY <1>3, <2>2, Zenon DEF Dial
    <3>2. conn + 1 \in Sessions /\ conn + 1 > conn
      BY <1>m, <3>1, SubscriptionsAssumption DEF Sessions
    <3>3. sub[conn + 1] = -1
      BY <3>2, Zenon DEF SessionsOK
    <3> QED
      BY <3>1, <3>3 DEF WireFollows
  <2> QED
    BY <2>1, <2>2, Zenon
<1>4. CASE PublishEvent \/ (\E n \in Sessions : CallCancel(n) \/ RunCancel(n)) \/ UNCHANGED vars
           \/ Connected \/ Send \/ Backoff
  <2>1. UNCHANGED <<hpc, sub, taken, wire, broken, conn, mark>>
    BY <1>4, Zenon DEF PublishEvent, Publish, CallCancel, RunCancel, EnterCancel, Cancel, Connected, Send,
       Backoff, busVars, serverVars, clientVars, netVars, vars
  <2> QED
    BY <1>m, <1>0, <1>c, <2>1, WireKept, Zenon
<1>5. CASE OversizeFrame \/ ReadEnds \/ Interrupt
  <2>1. /\ UNCHANGED <<hpc, sub, taken, conn, mark>>
        /\ UNCHANGED <<wire, broken>> \/ Close(conn)
    BY <1>5, Zenon DEF OversizeFrame, ReadEnds, Interrupt, busVars, serverVars
  <2>2. ASSUME conn \in Sessions
        PROVE  /\ broken[conn] => broken'[conn]
               /\ wire'[conn] = wire[conn] \/ (wire'[conn] = <<>> /\ broken'[conn])
    BY <2>1, <2>2, Zenon DEF Close, SessionsOK
  <2> QED
    BY <1>m, <1>0, <1>c, <2>1, <2>2, WireKept, Zenon
<1>6. ASSUME NEW n \in Sessions, Break(n)
      PROVE  WireFollows'
  <2>1. /\ UNCHANGED <<hpc, sub, taken, wire, conn, mark>> /\ broken' = [broken EXCEPT ![n] = TRUE]
    BY <1>6, Zenon DEF Break, busVars, serverVars, clientVars
  <2>2. conn \in Sessions => (broken[conn] => broken'[conn])
    BY <2>1, Zenon DEF SessionsOK
  <2> QED
    BY <1>m, <1>0, <1>c, <2>1, <2>2, WireKept, Zenon
<1>7. ASSUME NEW n \in Sessions, StreamHandler(n)
      PROVE  WireFollows'
  <2>1. conn' = conn
    BY <1>7, Zenon DEF StreamHandler, newSSEWriter, StreamSubscribe, LoopDone, LoopEvent, LoopClosed,
       WriteEvent, Return, clientVars
  <2> QED
    BY <1>0, <1>c, <1>1, <1>7, <2>1, Zenon
<1> QED
  BY <1>2, <1>3, <1>4, <1>5, <1>6, <1>7, Zenon DEF Next, Client

-----------------------------------------------------------------------------
PostsOK == PostsUpToMark /\ PostsInOrder /\ NothingSkipped

(* What neither dispatches a frame, nor posts one, nor begins the session   *)
(* the notifier reads.                                                      *)
LEMMA PostsKept ==
    ASSUME BusInv, Subscribed, SessionsOK, PostsOK, [Next]_vars,
           UNCHANGED <<mark, posted, unsent>>,
           npc' = "post" <=> npc = "post", npc = "post" => frame' = frame,
           \/ conn' = conn /\ (conn > 0 => sub'[conn] = sub[conn])
           \/ sub'[conn'] = -1
    PROVE  PostsOK'
<1>1. /\ Len(published) \in Nat /\ Len(published') \in Nat /\ Len(published') >= Len(published)
      /\ \A k \in 1..Len(published) : published'[k] = published[k]
  <2>1. published \in Seq(Events)
    BY Zenon DEF BusInv, BusTypeOK
  <2>2. published' = published \/ \E e \in Events : published' = Append(published, e)
    <3>1. BusNext \/ UNCHANGED busVars
      BY StepIsBusStep, Zenon
    <3> QED
      BY <3>1, Zenon DEF BusNext, Subscribe, Publish, EnterCancel, Cancel, Receive, busVars
  <2>3. CASE published' = published
    BY <2>1, <2>3
  <2>4. ASSUME NEW e \in Events, published' = Append(published, e)
        PROVE  /\ Len(published) \in Nat /\ Len(published') = Len(published) + 1
               /\ \A k \in 1..Len(published) : published'[k] = published[k]
    BY <2>1, <2>4
  <2> QED
    BY <2>2, <2>3, <2>4
<1>2. mark \in Nat /\ mark <= Len(published)
  BY <1>1 DEF PostsOK, PostsUpToMark
<1>3. PostsUpToMark'
  <2>1. mark' = mark /\ posted' = posted /\ mark' \in 0..Len(published')
    BY <1>1, <1>2
  <2> QED
    BY <2>1, Zenon DEF PostsOK, PostsUpToMark
<1>4. PostsInOrder'
  BY Zenon DEF PostsOK, PostsInOrder
<1>5. Posted' = Posted /\ Posting' = Posting
  BY Zenon DEF Posted, Posting
<1>6. NothingSkipped'
  <2>1. CASE sub'[conn'] = -1
    BY <2>1 DEF NothingSkipped
  <2>2. CASE conn' = conn /\ (conn > 0 => sub'[conn] = sub[conn])
    <3> SUFFICES ASSUME conn > 0, sub[conn] >= 0,
                        NEW k \in (since'[sub[conn]] + 1)..mark, published'[k].kind = "opened"
                 PROVE  k \in Posted \cup unsent \cup Posting
      BY <1>5, <2>2, Zenon DEF NothingSkipped
    <3>1. conn \in Sessions
      BY SubscriptionsAssumption DEF SessionsOK, Sessions
    <3>2. sub[conn] \in Ids /\ sub[conn] < nextID /\ since[sub[conn]] \in Nat
      BY <3>1, SessionBus, Zenon DEF SessionsOK
    <3>3. since'[sub[conn]] = since[sub[conn]]
      BY <3>2, SubscriptionsKept, Zenon
    <3>4. k \in 1..Len(published) /\ k \in (since[sub[conn]] + 1)..mark
      BY <1>1, <1>2, <3>2, <3>3
    <3> QED
      BY <1>1, <3>4, Zenon DEF PostsOK, NothingSkipped
  <2> QED
    BY <2>1, <2>2, Zenon
<1> QED
  BY <1>3, <1>4, <1>6, Zenon DEF PostsOK

LEMMA SubscribePosts ==
    ASSUME BusInv, Subscribed, SessionsOK, PostsOK, NEW n \in Sessions, StreamSubscribe(n)
    PROVE  PostsOK'
<1>1. /\ UNCHANGED <<mark, posted, unsent, npc, frame, conn, published>>
      /\ hpc[n] = "flushed" /\ nextID \in Ids
      /\ sub' = [sub EXCEPT ![n] = nextID] /\ since' = [since EXCEPT ![nextID] = Len(published)]
  BY Zenon DEF StreamSubscribe, Subscribe, clientVars
<1>2. CASE conn # n
  <2>1. conn > 0 => sub'[conn] = sub[conn]
    BY <1>1, <1>2 DEF Subscribed
  <2>2. Next
    BY Zenon DEF Next, StreamHandler
  <2> QED
    BY <1>1, <2>1, <2>2, PostsKept, Zenon
<1>3. CASE conn = n
  <2>1. sub'[conn] = nextID /\ since'[nextID] = Len(published)
    BY <1>1, <1>3, Zenon DEF Subscribed, BusInv, BusTypeOK
  <2>2. mark \in Nat /\ mark <= Len(published) /\ Len(published) \in Nat
    BY DEF PostsOK, PostsUpToMark, BusInv, BusTypeOK
  <2>3. (since'[sub'[conn]] + 1)..mark = {}
    BY <2>1, <2>2
  <2>4. NothingSkipped'
    BY <1>1, <2>3, Zenon DEF NothingSkipped
  <2> QED
    BY <1>1, <2>4, Zenon DEF PostsOK, PostsUpToMark, PostsInOrder
<1> QED
  BY <1>2, <1>3, Zenon

LEMMA ReadPosts ==
    ASSUME BusInv, Subscribed, FeedPublished, SessionsOK, WireFollows, PostsOK, ReadFrame
    PROVE  PostsOK'
<1> HIDE DEF Frame
<1>m. mark \in Nat /\ mark <= Len(published) /\ Len(published) \in Nat
  BY DEF PostsOK, PostsUpToMark, BusInv, BusTypeOK
<1>1. /\ conn \in Sessions /\ sub[conn] >= 0 /\ Seen \in Nat /\ Seen >= mark
      /\ Head(wire[conn]) = Frame(Seen + 1) /\ mark' = Seen + 1 /\ mark' <= Len(published)
  BY <1>m, ReadFrameNext, Zenon
<1> DEFINE f == Head(wire[conn])
<1>2. /\ npc = "read" /\ UNCHANGED <<published, since, sub, conn, posted, unsent>>
      /\ f.kind = "opened" => npc' = "post" /\ frame' = f
      /\ f.kind # "opened" => npc' = "read"
  BY Zenon DEF ReadFrame, busVars, serverVars
<1>3. f.at = mark'
  BY <1>1, FrameFields, Zenon
<1>4. \A j \in DOMAIN posted : posted[j] \in Nat /\ posted[j] <= mark
  BY DEF PostsOK, PostsUpToMark
<1>5. PostsUpToMark'
  <2>1. mark' \in 0..Len(published') /\ posted' \in Seq(Nat)
    BY <1>m, <1>1, <1>2 DEF PostsOK, PostsUpToMark
  <2>2. \A j \in DOMAIN posted : posted[j] < mark'
    BY <1>m, <1>1, <1>4
  <2>3. \A j \in DOMAIN posted : posted[j] <= mark'
    BY <1>m, <1>1, <1>4
  <2> QED
    BY <1>2, <1>3, <2>1, <2>2, <2>3, Zenon DEF PostsUpToMark
<1>6. NothingSkipped'
  <2> SUFFICES ASSUME NEW k \in (since[sub[conn]] + 1)..mark', published[k].kind = "opened"
               PROVE  k \in Posted \cup unsent \cup Posting'
    BY <1>2, Zenon DEF NothingSkipped, Posted
  <2>s. since[sub[conn]] \in Nat
    BY <1>1, SessionBus, Zenon
  <2>1. CASE k = mark'
    <3>1. k \in DOMAIN published
      BY <1>m, <1>1, <2>s, <2>1 DEF BusInv, BusTypeOK
    <3>2. published[k] = f
      BY <1>1, <2>1, <3>1, Zenon DEF FeedPublished
    <3> QED
      BY <1>2, <1>3, <2>1, <3>2, Zenon DEF Posting
  <2>2. CASE k # mark'
    <3>1. k \in (since[sub[conn]] + 1)..mark
      BY <1>m, <1>1, <2>s, <2>2 DEF Seen
    <3>2. conn > 0
      BY <1>1 DEF Sessions
    <3>3. k \in Posted \cup unsent \cup Posting
      BY <1>1, <3>1, <3>2, Zenon DEF PostsOK, NothingSkipped
    <3> QED
      BY <1>2, <3>3, Zenon DEF Posting
  <2> QED
    BY <2>1, <2>2, Zenon
<1> QED
  BY <1>2, <1>5, <1>6, Zenon DEF PostsOK, PostsInOrder

LEMMA SendPosts ==
    ASSUME BusInv, Subscribed, SessionsOK, PostsOK, Send
    PROVE  PostsOK'
<1>1. /\ npc = "post" /\ npc' = "read" /\ UNCHANGED <<published, since, sub, conn, mark>>
      /\ \/ posted' = Append(posted, frame.at) /\ unsent' = unsent
         \/ unsent' = unsent \cup {frame.at} /\ posted' = posted
  BY Zenon DEF Send, busVars, serverVars
<1>2. /\ frame.at = mark /\ mark \in Nat /\ mark \in 0..Len(published) /\ posted \in Seq(Nat)
      /\ \A j \in DOMAIN posted : posted[j] \in Nat /\ posted[j] < mark
      /\ \A j, k \in DOMAIN posted : j < k => posted[j] < posted[k]
  BY <1>1 DEF PostsOK, PostsUpToMark, PostsInOrder
<1>3. CASE unsent' = unsent \cup {frame.at} /\ posted' = posted
  <2>1. NothingSkipped'
    BY <1>1, <1>3, Zenon DEF PostsOK, NothingSkipped, Posting, Posted
  <2> QED
    BY <1>1, <1>3, <2>1, Zenon DEF PostsOK, PostsUpToMark, PostsInOrder
<1>4. CASE posted' = Append(posted, frame.at) /\ unsent' = unsent
  <2>1. /\ DOMAIN posted = 1..Len(posted) /\ Len(posted) \in Nat /\ posted' \in Seq(Nat)
        /\ DOMAIN posted' = 1..(Len(posted) + 1) /\ posted'[Len(posted) + 1] = mark
        /\ \A j \in DOMAIN posted : posted'[j] = posted[j]
    BY <1>2, <1>4
  <2>2. ASSUME NEW j \in DOMAIN posted', j # Len(posted) + 1
        PROVE  j \in DOMAIN posted /\ posted'[j] = posted[j]
    BY <2>1, <2>2
  <2>3. \A j \in DOMAIN posted' : posted'[j] <= mark
    BY <1>2, <2>1, <2>2
  <2>4. PostsUpToMark'
    BY <1>1, <1>2, <2>1, <2>3, Zenon DEF PostsUpToMark
  <2>5. ASSUME NEW j \in DOMAIN posted', NEW k \in DOMAIN posted', j < k
        PROVE  posted'[j] < posted'[k]
    <3>1. j # Len(posted) + 1
      BY <2>1, <2>5
    <3>2. j \in DOMAIN posted /\ posted'[j] = posted[j]
      BY <2>2, <3>1, Zenon
    <3>3. CASE k = Len(posted) + 1
      BY <1>2, <2>1, <3>2, <3>3, Zenon
    <3>4. CASE k # Len(posted) + 1
      <4>1. k \in DOMAIN posted /\ posted'[k] = posted[k]
        BY <2>2, <3>4, Zenon
      <4> QED
        BY <1>2, <2>5, <3>2, <4>1, Zenon
    <3> QED
      BY <3>3, <3>4, Zenon
  <2>6. Posted \subseteq Posted' /\ frame.at \in Posted'
    <3>1. \A j \in DOMAIN posted : j \in DOMAIN posted'
      BY <2>1
    <3>2. Len(posted) + 1 \in DOMAIN posted'
      BY <2>1
    <3> QED
      BY <1>2, <2>1, <3>1, <3>2, Zenon DEF Posted
  <2>7. NothingSkipped'
    BY <1>1, <1>4, <2>6, Zenon DEF PostsOK, NothingSkipped, Posting
  <2> QED
    BY <2>4, <2>5, <2>7, Zenon DEF PostsOK, PostsInOrder
<1> QED
  BY <1>1, <1>3, <1>4, Zenon

LEMMA InterruptPosts ==
    ASSUME PostsOK, Interrupt
    PROVE  PostsOK'
<1>1. /\ npc' = "stopped" /\ UNCHANGED <<published, since, sub, conn, mark, posted>>
      /\ unsent' = IF npc = "post" THEN unsent \cup {frame.at} ELSE unsent
  BY Zenon DEF Interrupt, busVars, serverVars
<1>2. NothingSkipped'
  <2>1. unsent \cup Posting \subseteq unsent'
    BY <1>1, Zenon DEF Posting
  <2>2. Posted' = Posted
    BY <1>1, Zenon DEF Posted
  <2> QED
    BY <1>1, <2>1, <2>2, Zenon DEF PostsOK, NothingSkipped
<1> QED
  BY <1>1, <1>2, Zenon DEF PostsOK, PostsUpToMark, PostsInOrder

LEMMA StepPosts ==
    ASSUME BusInv, Subscribed, FeedPublished, SessionsOK, WireFollows, PostsOK, [Next]_vars
    PROVE  PostsOK'
<1>1. ASSUME NEW n \in Sessions, StreamHandler(n)
      PROVE  PostsOK'
  <2>1. CASE StreamSubscribe(n)
    BY <2>1, SubscribePosts, Zenon
  <2>2. CASE ~StreamSubscribe(n)
    <3>1. UNCHANGED <<sub, conn, npc, frame, mark, posted, unsent>>
      BY <1>1, <2>2, Zenon DEF StreamHandler, newSSEWriter, LoopDone, LoopEvent, LoopClosed, WriteEvent,
         Return, clientVars
    <3> QED
      BY <3>1, PostsKept, Zenon
  <2> QED
    BY <2>1, <2>2, Zenon
<1>2. CASE Dial
  <2>1. UNCHANGED <<sub, frame, mark, posted, unsent>> /\ npc = "dial" /\ npc' \in {"await", "backoff"}
    BY <1>2, Zenon DEF Dial
  <2>2. conn' = conn \/ sub'[conn'] = -1
    <3>1. CASE conn' # conn
      <4>1. conn < MaxSubscriptions /\ conn' = conn + 1
        BY <1>2, <3>1, Zenon DEF Dial
      <4>2. conn + 1 \in Sessions /\ conn + 1 > conn
        BY <4>1, SubscriptionsAssumption DEF Sessions, SessionsOK
      <4> QED
        BY <2>1, <4>1, <4>2, Zenon DEF SessionsOK
    <3> QED
      BY <3>1, Zenon
  <2> QED
    BY <2>1, <2>2, PostsKept, Zenon
<1>3. CASE Connected \/ ReadEnds \/ Backoff \/ OversizeFrame
  <2>1. /\ UNCHANGED <<sub, conn, frame, mark, posted, unsent>>
        /\ npc # "post" /\ npc' # "post"
    BY <1>3, Zenon DEF Connected, ReadEnds, Backoff, OversizeFrame, serverVars
  <2> QED
    BY <2>1, PostsKept, Zenon
<1>4. CASE PublishEvent \/ (\E n \in Sessions : CallCancel(n) \/ RunCancel(n) \/ Break(n)) \/ UNCHANGED vars
  <2>1. UNCHANGED <<sub, conn, npc, frame, mark, posted, unsent>>
    BY <1>4, Zenon DEF PublishEvent, CallCancel, RunCancel, Break, serverVars, clientVars, vars
  <2> QED
    BY <2>1, PostsKept, Zenon
<1> QED
  BY <1>1, <1>2, <1>3, <1>4, ReadPosts, SendPosts, InterruptPosts, Zenon DEF Next, Client

NotifierInv ==
    /\ BusInv /\ Subscribed
    /\ FeedPublished /\ SessionsOK /\ WritingLast /\ WireFollows /\ PostsOK

LEMMA NotifierInvariant == Spec => []NotifierInv
<1>1. Init => NotifierInv
  <2> SUFFICES ASSUME Init
               PROVE  NotifierInv
    BY Zenon
  <2>1. BusInv /\ Subscribed
    BY InitInv, InitSubscribed, Zenon DEF Init
  <2>2. FeedPublished
    BY DEF Init, BusInit, FeedPublished
  <2>3. SessionsOK
    BY SubscriptionsAssumption DEF Init, BusInit, SessionsOK, Sessions
  <2>4. WritingLast /\ WireFollows
    BY DEF Init, WritingLast, WireFollows
  <2>5. PostsOK
    BY DEF Init, BusInit, PostsOK, PostsUpToMark, PostsInOrder, NothingSkipped
  <2> QED
    BY <2>1, <2>2, <2>3, <2>4, <2>5, Zenon DEF NotifierInv
<1>2. NotifierInv /\ [Next]_vars => NotifierInv'
  <2> SUFFICES ASSUME NotifierInv, [Next]_vars
               PROVE  NotifierInv'
    BY Zenon
  <2>1. BusInv' /\ Subscribed'
    BY StepInv, StepIsBusStep, StepSubscribed, Zenon DEF NotifierInv
  <2>2. FeedPublished' /\ SessionsOK' /\ WritingLast'
    BY StepFeed, StepSessions, StepWriting, Zenon DEF NotifierInv
  <2>3. WireFollows' /\ PostsOK'
    BY StepWire, StepPosts, Zenon DEF NotifierInv, PostsOK
  <2> QED
    BY <2>1, <2>2, <2>3, Zenon DEF NotifierInv
<1> QED
  BY <1>1, <1>2, PTL DEF Spec

(* However often the notifier reconnects, whichever session its frames     *)
(* come from and whoever closed it, Slack never gets an incident twice nor *)
(* out of the order the engine opened them in.                             *)
THEOREM SlackInOrder == Spec => []PostsInOrder
<1>1. NotifierInv => PostsInOrder
  BY Zenon DEF NotifierInv, PostsOK
<1> QED
  BY <1>1, NotifierInvariant, PTL

(* Within a session, every incident.opened up to the last frame dispatched *)
(* was posted, is being posted, or its failed post was logged: a buffer    *)
(* that overflows or a connection that breaks cuts the tail of a session,  *)
(* never its middle.                                                       *)
THEOREM SlackSkipsNothing == Spec => []NothingSkipped
<1>1. NotifierInv => NothingSkipped
  BY Zenon DEF NotifierInv, PostsOK
<1> QED
  BY <1>1, NotifierInvariant, PTL
=============================================================================
