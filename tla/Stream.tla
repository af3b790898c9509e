------------------------------- MODULE Stream -------------------------------
(***************************************************************************)
(* GET /v1/stream from the event bus to a Slack channel: the SSE handlers  *)
(* (Server.Stream, streamLoop) subscribe to the bus and write frames to a  *)
(* connection; the slack-notifier (receiver.Client.Run) reads them, posts  *)
(* every incident.opened to a webhook, and reconnects for ever.            *)
(***************************************************************************)
EXTENDS EventBus, FiniteSets

CONSTANTS
    Feed,           \* the kinds of the events the engine publishes, in order:
                    \* "opened" for incident.opened, "other"
    WireCapacity,   \* frames the connection holds before a write blocks
    MaxFaults       \* bound: connections lost, calls refused, posts failed,
                    \* oversize frames

(* One session per request to /v1/stream, numbered as the notifier opens   *)
(* them.  The handler of a lost session may outlive the next one's start.  *)
Sessions == 1..MaxSubscriptions
Frame(k) == [at |-> k, kind |-> Feed[k]]

ASSUME FeedAssumption == Feed \in Seq(STRING) /\ \A k \in DOMAIN Feed : Frame(k) \in Events

VARIABLES
    hpc,        \* where each session's handler is
    sub,        \* its subscription id, -1 before Subscribe
    writing,    \* the event it is writing
    wire,       \* frames written and not yet read by the client
    broken,     \* the connection is lost or closed by the client
    npc,        \* where the notifier is
    conn,       \* its current session, 0 before the first
    frame,      \* the frame its handler is posting
    mark,       \* history: position of the last frame dispatched
    posted,     \* history: positions posted to Slack, in order
    unsent,     \* history: positions whose post failed
    faults

serverVars == <<hpc, sub, writing>>
clientVars == <<npc, conn, frame, mark, posted, unsent>>
netVars == <<wire, broken, faults>>
vars == <<busVars, serverVars, clientVars, netVars>>

NoFrame == [at |-> 0, kind |-> "other"]

Init ==
    /\ BusInit
    /\ hpc = [n \in Sessions |-> "none"]
    /\ sub = [n \in Sessions |-> -1]
    /\ writing = [n \in Sessions |-> NoFrame]
    /\ wire = [n \in Sessions |-> <<>>]
    /\ broken = [n \in Sessions |-> FALSE]
    /\ npc = "dial" /\ conn = 0 /\ frame = NoFrame
    /\ mark = 0 /\ posted = <<>> /\ unsent = {} /\ faults = 0

Goto(n, l) == hpc' = [hpc EXCEPT ![n] = l]

(* An engine handler publishes. *)
PublishEvent ==
    /\ Len(published) < Len(Feed)
    /\ Publish(Frame(Len(published) + 1))
    /\ UNCHANGED <<serverVars, clientVars, netVars>>

-----------------------------------------------------------------------------
(* newSSEWriter commits and flushes the 200 before Stream subscribes: the  *)
(* client is connected while nothing is buffered for it yet.               *)
newSSEWriter(n) ==
    /\ hpc[n] = "accepted"
    /\ Goto(n, "flushed")
    /\ UNCHANGED <<busVars, sub, writing, clientVars, netVars>>

StreamSubscribe(n) ==
    /\ hpc[n] = "flushed"
    /\ Subscribe
    /\ sub' = [sub EXCEPT ![n] = nextID]
    /\ Goto(n, "loop")
    /\ UNCHANGED <<writing, clientVars, netVars>>

(* The select of streamLoop: the context is done, or a heartbeat cannot be *)
(* written (one that can be changes nothing); an event; the channel is     *)
(* closed and drained.                                                     *)
LoopDone(n) ==
    /\ hpc[n] = "loop" /\ broken[n]
    /\ Goto(n, "leave")
    /\ UNCHANGED <<busVars, sub, writing, clientVars, netVars>>

LoopEvent(n) ==
    /\ hpc[n] = "loop"
    /\ Receive(sub[n])
    /\ writing' = [writing EXCEPT ![n] = Head(buf[sub[n]])]
    /\ Goto(n, "write")
    /\ UNCHANGED <<sub, clientVars, netVars>>

LoopClosedUndrained(n) ==
    /\ hpc[n] = "loop"
    /\ closes[sub[n]] > 0
    /\ Goto(n, "leave")
    /\ UNCHANGED <<busVars, sub, writing, clientVars, netVars>>

LoopClosed(n) ==
    /\ hpc[n] = "loop"
    /\ buf[sub[n]] = <<>> /\ closes[sub[n]] > 0
    /\ Goto(n, "leave")
    /\ UNCHANGED <<busVars, sub, writing, clientVars, netVars>>

(* WriteEvent blocks while the connection is full; on a broken connection  *)
(* the frame is lost, and the write may or may not report it.              *)
WriteEventOrDrop(n) ==
    /\ hpc[n] = "write"
    /\ wire' = [wire EXCEPT ![n] =
                  IF broken[n] \/ Len(@) = WireCapacity THEN @ ELSE Append(@, writing[n])]
    /\ Goto(n, IF broken[n] THEN "leave" ELSE "loop")
    /\ writing' = [writing EXCEPT ![n] = NoFrame]
    /\ UNCHANGED <<busVars, sub, clientVars, broken, faults>>

WriteEvent(n) ==
    /\ hpc[n] = "write"
    /\ \/ /\ ~broken[n] /\ Len(wire[n]) < WireCapacity
          /\ wire' = [wire EXCEPT ![n] = Append(@, writing[n])]
          /\ Goto(n, "loop")
       \/ /\ broken[n]
          /\ wire' = wire
          /\ Goto(n, "loop") \/ Goto(n, "leave")
    /\ writing' = [writing EXCEPT ![n] = NoFrame]
    /\ UNCHANGED <<busVars, sub, clientVars, broken, faults>>

(* cancel() is called by the handler as it returns and by the goroutine    *)
(* that waits for the request's context; the handler returns once it ran.  *)
CallCancel(n) ==
    /\ sub[n] >= 0
    /\ hpc[n] = "leave" \/ broken[n]
    /\ EnterCancel(sub[n])
    /\ UNCHANGED <<serverVars, clientVars, netVars>>

RunCancel(n) ==
    /\ sub[n] >= 0
    /\ Cancel(sub[n])
    /\ UNCHANGED <<serverVars, clientVars, netVars>>

Return(n) ==
    /\ hpc[n] = "leave" /\ once[sub[n]] = "done"
    /\ Goto(n, "gone")
    /\ UNCHANGED <<busVars, sub, writing, clientVars, netVars>>

StreamHandler(n) ==
    \/ newSSEWriter(n) \/ StreamSubscribe(n)
    \/ LoopDone(n) \/ LoopEvent(n) \/ LoopClosed(n) \/ WriteEvent(n)
    \/ Return(n)

-----------------------------------------------------------------------------
(* receiver.Client.once: the request is sent, or refused. *)
Dial ==
    /\ npc = "dial"
    /\ \/ /\ conn < MaxSubscriptions
          /\ conn' = conn + 1 /\ npc' = "await"
          /\ Goto(conn + 1, "accepted")
          /\ faults' = faults
       \/ /\ faults < MaxFaults
          /\ faults' = faults + 1 /\ npc' = "backoff"
          /\ UNCHANGED <<conn, hpc>>
    /\ UNCHANGED <<busVars, sub, writing, frame, mark, posted, unsent, wire, broken>>

(* The headers arrive, or the call fails. *)
Connected ==
    /\ npc = "await"
    /\ \/ hpc[conn] # "accepted" /\ npc' = "read"
       \/ broken[conn] /\ npc' = "backoff"
    /\ UNCHANGED <<busVars, serverVars, conn, frame, mark, posted, unsent, netVars>>

(* The connection goes, and with it the frames nobody will read. *)
Close(n) ==
    /\ broken' = [broken EXCEPT ![n] = TRUE]
    /\ wire' = [wire EXCEPT ![n] = <<>>]

(* ReadStream assembles the next frame and hands it to main's handler,     *)
(* which ignores all but incident.opened.                                  *)
ReadFrame ==
    /\ npc = "read" /\ wire[conn] # <<>>
    /\ wire' = [wire EXCEPT ![conn] = Tail(@)]
    /\ LET f == Head(wire[conn])
       IN  /\ mark' = f.at
           /\ IF f.kind = "opened" THEN npc' = "post" /\ frame' = f
              ELSE UNCHANGED <<npc, frame>>
    /\ UNCHANGED <<busVars, serverVars, conn, posted, unsent, broken, faults>>

(* A line over 1 MiB ends the scan with an error; once closes the body. *)
OversizeFrame ==
    /\ npc = "read" /\ wire[conn] # <<>> /\ faults < MaxFaults
    /\ faults' = faults + 1
    /\ npc' = "backoff"
    /\ Close(conn)
    /\ UNCHANGED <<busVars, serverVars, conn, frame, mark, posted, unsent>>

(* Sender.Send: posted, or the error is logged and the frame forgotten. *)
Send ==
    /\ npc = "post"
    /\ npc' = "read" /\ frame' = NoFrame
    /\ \/ posted' = Append(posted, frame.at) /\ UNCHANGED <<unsent, faults>>
       \/ /\ faults < MaxFaults /\ faults' = faults + 1
          /\ unsent' = unsent \cup {frame.at} /\ posted' = posted
    /\ UNCHANGED <<busVars, serverVars, conn, mark, wire, broken>>

(* A read error backs off for a second, a clean EOF reconnects at once. *)
ReadEnds ==
    /\ npc = "read"
    /\ \/ broken[conn] /\ npc' = "backoff" /\ Close(conn)
       \/ /\ ~broken[conn] /\ wire[conn] = <<>> /\ hpc[conn] = "gone"
          /\ npc' = "dial" /\ UNCHANGED <<wire, broken>>
    /\ UNCHANGED <<busVars, serverVars, conn, frame, mark, posted, unsent, faults>>

Backoff ==
    /\ npc = "backoff"
    /\ npc' = "dial"
    /\ UNCHANGED <<busVars, serverVars, conn, frame, mark, posted, unsent, netVars>>

Client == Dial \/ Connected \/ ReadFrame \/ Send \/ ReadEnds \/ Backoff

(* The notifier gets SIGTERM: a post in progress fails with its context.   *)
Interrupt ==
    /\ npc # "stopped"
    /\ npc' = "stopped"
    /\ unsent' = IF npc = "post" THEN unsent \cup {frame.at} ELSE unsent
    /\ frame' = NoFrame
    /\ IF conn = 0 THEN UNCHANGED <<wire, broken>> ELSE Close(conn)
    /\ UNCHANGED <<busVars, serverVars, conn, mark, posted, faults>>

(* The network loses a connection. *)
Break(n) ==
    /\ hpc[n] # "none" /\ ~broken[n] /\ faults < MaxFaults
    /\ faults' = faults + 1
    /\ broken' = [broken EXCEPT ![n] = TRUE]
    /\ UNCHANGED <<busVars, serverVars, clientVars, wire>>

Next ==
    \/ PublishEvent
    \/ \E n \in Sessions : StreamHandler(n) \/ CallCancel(n) \/ RunCancel(n) \/ Break(n)
    \/ Client
    \/ OversizeFrame
    \/ Interrupt

(* Goroutines run, channels that can be received from are (select picks    *)
(* among ready cases at random), timers fire, and a Send has a timeout.    *)
(* Nobody has to publish, to break a connection or to stop the notifier.   *)
Fairness ==
    /\ \A n \in Sessions :
         WF_vars(StreamHandler(n)) /\ WF_vars(CallCancel(n)) /\ WF_vars(RunCancel(n))
    /\ WF_vars(Client)

Spec == Init /\ [][Next]_vars /\ Fairness

-----------------------------------------------------------------------------
(* Slack sees incidents in the order the engine opened them, and none      *)
(* twice, although the notifier reconnects to sessions that overlap.       *)
PostsInOrder == \A j, k \in DOMAIN posted : j < k => posted[j] < posted[k]

(* Inside a session nothing is skipped: up to the last frame dispatched,   *)
(* every incident.opened published since the handler subscribed was posted *)
(* or its post failed and was logged.                                      *)
Posting == IF npc = "post" THEN {frame.at} ELSE {}
Posted == { posted[k] : k \in DOMAIN posted }

NothingSkipped ==
    conn > 0 /\ sub[conn] >= 0 =>
      \A k \in (since[sub[conn]] + 1)..mark :
        published[k].kind = "opened" => k \in Posted \cup unsent \cup Posting

(* What the bus has buffered for a session reaches the notifier, even when *)
(* Publish has dropped the session since (a closed channel is drained      *)
(* first), unless the connection is lost.                                  *)
Buffered(n, k) ==
    sub[n] >= 0 /\ \E j \in DOMAIN buf[sub[n]] : buf[sub[n]][j].at = k

BufferedIsHandled ==
    \A n \in Sessions, k \in DOMAIN Feed :
      Buffered(n, k) ~> (mark >= k \/ broken[n])

(* A lost connection does not leak: its handler returns, and its           *)
(* subscription is out of the map and closed.                              *)
SubscribersReleased ==
    \A n \in Sessions :
      broken[n] ~> (hpc[n] = "gone" /\ sub[n] \notin subs /\ closes[sub[n]] = 1)
=============================================================================
