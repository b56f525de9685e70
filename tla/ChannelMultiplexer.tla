------------------------- MODULE ChannelMultiplexer -------------------------
(***************************************************************************)
(* One relay channel of an SSH (or WSL) connection, as the main process    *)
(* sees it: requests and settled notifications multiplexed over a byte     *)
(* transport, a writer with three lanes that stops while the transport is  *)
(* full, and one health timer that sends keepalives and decides when a     *)
(* link that delivers nothing is lost.                                     *)
(*                                                                         *)
(* Time is counted in ticks of the health timer.  Sequence numbers appear  *)
(* only through the timestamps kept for them: unacked holds the ages of    *)
(* the unacknowledged frames that have one, in sequence order, and a frame *)
(* carries the number of them that are not newer than itself.              *)
(* The transport is a Node stream (ssh2 channel or child stdin): a write   *)
(* is called back when its bytes left, in order, and drain comes just      *)
(* before the last callback.  The relay at the other end is external.      *)
(***************************************************************************)
EXTENDS Naturals, Sequences, FiniteSets

CONSTANTS
    Requests,     \* requests the application makes
    Chunks,       \* pty.data notifications whose write it wants settled
    Timeout,      \* TIMEOUT_MS, in ticks
    OrdinaryMax,  \* frames retained in the ordinary lane
    ControlMax,   \* frames retained in the control and liveness lanes
    ControlBurst, \* CONTROL_WRITES_BEFORE_ORDINARY
    MaxUnacked,   \* MAX_UNACKED_TIMESTAMPS
    MaxWakes      \* bound: how often the process is suspended

ASSUME ChannelAssumption ==
    /\ {Timeout, OrdinaryMax, ControlMax, ControlBurst} \subseteq Nat \ {0}
    /\ MaxUnacked \in Nat \ {0, 1}
    /\ MaxWakes \in Nat

VARIABLES
    queue,      \* the lanes: frames that wait for the writer
    buffer,     \* frames handed to the transport and not called back, in order
    saturated,  \* the writer waits for a drain
    pumping,    \* a drain is handled, up to the next callback: nothing else runs
    burst,      \* controlWritesSinceOrdinary, up to ControlBurst
    unacked,    \* unackedTimestamps, as ages
    ackable,    \* how many of them the relay may acknowledge
    silence,    \* ticks since lastReceivedAt
    paused,     \* the decoder holds frames back and reads are paused
    closed,     \* disposeReason, or open
    status,     \* what the caller of each request knows
    outcome,    \* what the caller of each settled notification knows
    probing,    \* a liveness probe waits for a frame
    cut,        \* external: the link is dead
    host,       \* external: what the relay does for each request
    reached,    \* history: chunks that were handed to the transport
    passed,     \* history: control frames written while an ordinary one waits
    wakes

writer == <<queue, buffer, saturated, pumping, burst>>
clocks == <<unacked, ackable, silence>>
callers == <<status, outcome, probing>>
link == <<cut, host>>
history == <<reached, passed>>
vars == <<writer, clocks, paused, closed, callers, link, history, wakes>>

KeepAlive == <<"keepalive">>
Reply == <<"reply">>
Request(r) == <<"request", r>>
Cancel(r) == <<"cancel", r>>
Data(c) == <<"data", c>>
Bodies ==
    {KeepAlive, Reply} \cup {Request(r) : r \in Requests}
        \cup {Cancel(r) : r \in Requests} \cup {Data(c) : c \in Chunks}

\* The lanes that queue.  A keepalive does not: the queues are empty unless
\* the writer waits for a drain, and then it bypasses them.
Lanes == {"ordinary", "control"}

\* messageLane, and the lane sendKeepAlive names.
UrgentCancelLane(body) ==
    IF body[1] = "data" THEN "ordinary"
    ELSE IF body[1] \in {"keepalive", "cancel"} THEN "liveness" ELSE "control"
Lane(body) ==
    IF body[1] = "data" THEN "ordinary"
    ELSE IF body = KeepAlive THEN "liveness" ELSE "control"

Ages == 0..(Timeout + 1)
Older(age) == IF age > Timeout THEN age ELSE age + 1
Frames == [body : Bodies, newest : 0..MaxUnacked]

\* Type correctness.
TypeOK ==
    /\ queue \in [Lanes -> Seq(Frames)]
    /\ buffer \in Seq(Frames)
    /\ saturated \in BOOLEAN /\ pumping \in BOOLEAN
    /\ burst \in 0..ControlBurst
    /\ unacked \in Seq(Ages) /\ Len(unacked) <= MaxUnacked
    /\ ackable \in 0..Len(unacked)
    /\ silence \in Ages
    /\ paused \in BOOLEAN
    /\ closed \in {"open", "shutdown", "connection_lost"}
    /\ status \in [Requests -> {"new", "pending", "answered", "abandoned", "lost"}]
    /\ outcome \in [Chunks -> {"none", "waiting", "accepted", "refused", "unverifiable"}]
    /\ probing \in BOOLEAN
    /\ cut \in BOOLEAN
    /\ host \in [Requests -> {"none", "running", "done", "orphaned"}]
    /\ reached \subseteq Chunks
    /\ passed \in Nat
    /\ wakes \in 0..MaxWakes

Init ==
    /\ queue = [lane \in Lanes |-> <<>>] /\ buffer = <<>>
    /\ saturated = FALSE /\ pumping = FALSE /\ burst = 0
    /\ unacked = <<>> /\ ackable = 0 /\ silence = 0
    /\ paused = FALSE /\ closed = "open"
    /\ status = [r \in Requests |-> "new"]
    /\ outcome = [c \in Chunks |-> "none"]
    /\ probing = FALSE
    /\ cut = FALSE /\ host = [r \in Requests |-> "none"]
    /\ reached = {} /\ passed = 0 /\ wakes = 0

Idle == closed = "open" /\ ~pumping

-----------------------------------------------------------------------------
(* Timestamps.  Operators with arguments st and out go on from what their  *)
(* caller has already made of status and outcome, and from clocks rebased. *)

\* trackOutgoingTimestamp: the last place is reserved for a keepalive.
OneMoreUnacked(body) == IF body = KeepAlive THEN MaxUnacked + 1 ELSE MaxUnacked
UnackedLimit(body) == IF body = KeepAlive THEN MaxUnacked ELSE MaxUnacked - 1
Track(ages, body) ==
    IF Len(ages) < UnackedLimit(body) THEN Append(ages, 0) ELSE ages

Aged(ages) == [i \in DOMAIN ages |-> Older(ages[i])]

\* rebaseHealthClocks, together with silence' = 0.
Rebased(ages) == [i \in DOMAIN ages |-> 0]

\* The relay acknowledges the n oldest timestamps.
Drop(frames, n) ==
    [i \in DOMAIN frames |->
        [frames[i] EXCEPT !.newest = IF @ < n THEN 0 ELSE @ - n]]
Acknowledge(n) ==
    /\ ackable' = ackable - n
    /\ queue' = [lane \in Lanes |-> Drop(queue[lane], n)]
    /\ buffer' = Drop(buffer, n)
Remaining(n) == SubSeq(unacked, n + 1, Len(unacked))

-----------------------------------------------------------------------------
(* The end of the channel.                                                 *)

\* The requests dispose finds in its map; one whose deadline is being handled
\* is still there while rpc.cancel is sent.
Unanswered(st) == {r \in Requests : st[r] \in {"pending", "timing_out"}}

\* The writer's release of an entry: bytes handed over may have left.
RefuseAlike(handed, c) == "refused"
Release(handed, c) ==
    IF \E i \in DOMAIN handed : handed[i].body = Data(c) THEN "unverifiable" ELSE "refused"

\* SshChannelMultiplexer.dispose with the writer's dispose: every caller is
\* told, and nothing is kept.
Dispose(reason, handed, st, out) ==
    /\ closed' = reason
    /\ queue' = [lane \in Lanes |-> <<>>] /\ buffer' = <<>>
    /\ saturated' = FALSE /\ pumping' = FALSE /\ burst' = 0
    /\ unacked' = <<>> /\ ackable' = 0 /\ paused' = FALSE
    /\ status' = [r \in Requests |-> IF r \in Unanswered(st) THEN "lost" ELSE st[r]]
    /\ outcome' = [c \in Chunks |-> IF out[c] = "waiting" THEN Release(handed, c) ELSE out[c]]
    /\ UNCHANGED passed

\* Its loop over the liveness probes: p is whether one waits.
LeaveWaiter(p) == probing' = p
FailWaiter(p) == probing' = (p /\ closed' = "open")

-----------------------------------------------------------------------------
(* The writer.                                                             *)

Count(frames, lanes) == Cardinality({i \in DOMAIN frames : Lane(frames[i].body) \in lanes})

\* admissionError.
Admits(lane) ==
    IF lane = "ordinary"
    THEN Len(queue.ordinary) + Count(buffer, {"ordinary"}) < OrdinaryMax
    ELSE Len(queue.control) + Count(buffer, {"control", "liveness"}) < ControlMax

\* What write returns.  A keepalive alone never fills the transport.
WriteResults(body) ==
    {"taken"} \cup (IF body = KeepAlive /\ buffer = <<>> THEN {} ELSE {"full"})

HasQueued(q) == \E lane \in Lanes : q[lane] /= <<>>

Published(st) ==
    [r \in Requests |-> IF st[r] = "timing_out" THEN "abandoned" ELSE st[r]]

\* writeEntry: the write is taken, fills the transport, or throws.
Write(frame, waiting, st, out) ==
    LET lane == Lane(frame.body) IN
    /\ reached' = reached \cup {c \in Chunks : frame.body = Data(c)}
    /\ \/ Dispose("connection_lost", Append(buffer, frame), st, out)
       \/ /\ buffer' = Append(buffer, frame)
          /\ \E result \in WriteResults(frame.body) :
                saturated' = (saturated \/ result = "full")
          /\ burst' = CASE lane = "control" -> IF burst < ControlBurst THEN burst + 1 ELSE burst
                        [] lane = "ordinary" -> 0
                        [] OTHER -> burst
          /\ passed' = CASE lane = "control" /\ waiting -> passed + 1
                         [] lane = "liveness" /\ waiting -> passed
                         [] OTHER -> 0
          /\ status' = Published(st) /\ outcome' = out
          /\ UNCHANGED <<paused, closed>>

\* sendMessage with enqueue.  A frame that is not admitted closes the channel.
Send(ages, body, st, out) ==
    LET tracked == Track(ages, body)
        frame == [body |-> body, newest |-> Len(tracked)]
        lane == Lane(body)
    IN IF ~Admits(lane)
       THEN Dispose("connection_lost", buffer, st, out) /\ UNCHANGED reached
       ELSE IF saturated /\ lane /= "liveness"
       THEN /\ queue' = [queue EXCEPT ![lane] = Append(@, frame)]
            /\ unacked' = tracked
            /\ status' = Published(st) /\ outcome' = out
            /\ UNCHANGED <<buffer, saturated, pumping, burst, ackable, paused, closed, history>>
       ELSE /\ Write(frame, queue.ordinary /= <<>>, st, out)
            /\ closed' = "open" =>
                  unacked' = tracked /\ UNCHANGED <<queue, pumping, ackable>>

\* scheduler.select: the lane whose first frame is next.
ControlFirst == IF queue.control /= <<>> THEN "control" ELSE "ordinary"
Select ==
    IF queue.control /= <<>> /\ (queue.ordinary = <<>> \/ burst < ControlBurst)
    THEN "control" ELSE "ordinary"

\* One turn of the pump loop, which a drain starts.
CanPump == ~saturated /\ HasQueued(queue)
PumpNext ==
    /\ pumping /\ CanPump
    /\ LET rest == [queue EXCEPT ![Select] = Tail(@)] IN
       /\ Write(Head(queue[Select]), rest.ordinary /= <<>>, status, outcome)
       /\ closed' = "open" =>
             queue' = rest /\ UNCHANGED <<pumping, unacked, ackable>>
    /\ FailWaiter(probing)
    /\ UNCHANGED <<silence, link, wakes>>

-----------------------------------------------------------------------------
(* The application's calls.  After dispose they are answered at once.      *)

MakeRequest(r) ==
    /\ status[r] = "new" /\ ~pumping
    /\ IF closed = "open"
       THEN Send(unacked, Request(r), [status EXCEPT ![r] = "pending"], outcome)
       ELSE /\ status' = [status EXCEPT ![r] = "lost"]
            /\ UNCHANGED <<writer, unacked, ackable, paused, closed, outcome, history>>
    /\ FailWaiter(probing)
    /\ UNCHANGED <<silence, link, wakes>>

NotifyWithSettlement(c) ==
    /\ outcome[c] = "none" /\ ~pumping
    /\ IF closed = "open"
       THEN Send(unacked, Data(c), status, [outcome EXCEPT ![c] = "waiting"])
       ELSE /\ outcome' = [outcome EXCEPT ![c] = "refused"]
            /\ UNCHANGED <<writer, unacked, ackable, paused, closed, status, history>>
    /\ FailWaiter(probing)
    /\ UNCHANGED <<silence, link, wakes>>

\* The caller's signal and the request's deadline: the relay is told to stop.
\* The deadline handler removes the request only after it has told it.
TimeOutSilently(r) ==
    /\ Idle /\ status[r] = "pending"
    /\ status' = [status EXCEPT ![r] = "abandoned"]
    /\ UNCHANGED <<writer, clocks, paused, closed, outcome, probing, link, history, wakes>>
TimeOut(r) ==
    /\ Idle /\ status[r] = "pending"
    /\ Send(unacked, Cancel(r), [status EXCEPT ![r] = "timing_out"], outcome)
    /\ FailWaiter(probing)
    /\ UNCHANGED <<silence, link, wakes>>

Abort(r) ==
    /\ Idle /\ status[r] = "pending"
    /\ Send(unacked, Cancel(r), [status EXCEPT ![r] = "abandoned"], outcome)
    /\ FailWaiter(probing)
    /\ UNCHANGED <<silence, link, wakes>>

\* sendKeepAlive: not while one is outstanding in the writer.
SendKeepAlive(ages) ==
    IF Count(buffer, {"liveness"}) > 0
    THEN /\ unacked' = ages
         /\ UNCHANGED <<writer, ackable, paused, closed, status, outcome, history>>
    ELSE Send(ages, KeepAlive, status, outcome)

\* probeLiveness: its waiter is there before the keepalive is sent.
Probe ==
    /\ Idle /\ ~probing
    /\ SendKeepAlive(unacked)
    /\ FailWaiter(TRUE)
    /\ UNCHANGED <<silence, link, wakes>>

ProbeTimesOut ==
    /\ Idle /\ probing
    /\ probing' = FALSE
    /\ UNCHANGED <<writer, clocks, paused, closed, status, outcome, link, history, wakes>>

\* The handler of a request of the relay returned; bound: one reply unsent, and
\* only while it has to queue.  A handler that outlives the channel finds the
\* writer closed.
SendReply ==
    /\ Idle /\ saturated
    /\ \A i \in DOMAIN buffer : buffer[i].body /= Reply
    /\ \A i \in DOMAIN queue.control : queue.control[i].body /= Reply
    /\ Send(unacked, Reply, status, outcome)
    /\ FailWaiter(probing)
    /\ UNCHANGED <<silence, link, wakes>>

-----------------------------------------------------------------------------
(* The transport.                                                          *)

\* What the relay makes of a frame that reaches it.
Arrived(body) ==
    [r \in Requests |->
        CASE body = Request(r) -> "running"
          [] body = Cancel(r) /\ host[r] = "running" -> "done"
          [] body = Cancel(r) /\ host[r] = "none" -> "orphaned"
          [] OTHER -> host[r]]

\* A saturated transport emptied: the clocks start again and the pump loop
\* runs.  drain comes before the callback of the last write it waited for (of
\* the last few, when the transport takes several writes at once), so frames
\* that left are still unsettled while the loop writes on.  A link that is cut
\* still takes bytes, which go nowhere, but once full it never drains.
Drain ==
    /\ Idle /\ saturated /\ ~cut
    /\ saturated' = FALSE /\ pumping' = TRUE
    /\ unacked' = Rebased(unacked) /\ silence' = 0
    /\ UNCHANGED <<queue, buffer, burst, ackable, paused, closed, callers, link, history, wakes>>

\* The oldest bytes left, and their write is called back and settles; after a
\* drain, as soon as the loop stops.
Flush ==
    LET frame == Head(buffer) IN
    /\ closed = "open" /\ buffer /= <<>> /\ (pumping => ~CanPump)
    /\ saturated => ~cut /\ Len(buffer) > 1
    /\ buffer' = Tail(buffer) /\ pumping' = FALSE
    /\ host' = IF cut THEN host ELSE Arrived(frame.body)
    /\ ackable' = IF frame.newest > ackable THEN frame.newest ELSE ackable
    /\ outcome' = [c \in Chunks |-> IF frame.body = Data(c) THEN "accepted" ELSE outcome[c]]
    /\ UNCHANGED <<queue, saturated, burst, unacked, silence, paused, closed, status, probing,
                   cut, history, wakes>>

\* A write is called back with an error; the transport closes; the session is
\* shut down.
Close(reason) ==
    /\ Dispose(reason, buffer, status, outcome)
    /\ FailWaiter(probing)
    /\ UNCHANGED <<silence, link, reached, wakes>>
FlushFails == Idle /\ buffer /= <<>> /\ Close("connection_lost")
TransportCloses == Idle /\ Close("connection_lost")
Shutdown == Idle /\ Close("shutdown")

\* The link dies without a close: nothing arrives in either direction.
Cut ==
    /\ Idle /\ ~cut
    /\ cut' = TRUE
    /\ UNCHANGED <<writer, clocks, paused, closed, callers, host, history, wakes>>

-----------------------------------------------------------------------------
(* handleFrame: the acknowledgment, then the message.  It answers a request *)
(* (which may have been given up), is none of this model's concern, or does *)
(* not parse.                                                              *)

Answer ==
    \/ UNCHANGED <<status, host>>
    \/ \E r \in Requests :
          /\ host[r] = "running"
          /\ host' = [host EXCEPT ![r] = "done"]
          /\ status' = [status EXCEPT ![r] = IF @ = "pending" THEN "answered" ELSE @]

\* Data from the transport.  Any frame answers a waiting probe.  A chunk with
\* more frames than one turn decodes pauses the reads; bound: one more frame.
Receive ==
    /\ Idle /\ ~cut /\ ~paused
    /\ silence' = 0 /\ probing' = FALSE
    /\ \/ \E n \in 0..ackable : Acknowledge(n) /\ unacked' = Remaining(n)
          /\ paused' \in BOOLEAN
          /\ Answer
          /\ UNCHANGED <<saturated, pumping, burst, closed, outcome, passed>>
       \/ Dispose("connection_lost", buffer, status, outcome) /\ UNCHANGED host
    /\ UNCHANGED <<cut, reached, wakes>>

\* The decoder's continuation: the frame held back, then resumeDecoderReads.
Continue ==
    /\ Idle /\ paused
    /\ silence' = 0 /\ probing' = FALSE
    /\ \/ \E n \in 0..ackable : Acknowledge(n) /\ unacked' = Rebased(Remaining(n))
          /\ paused' = FALSE
          /\ Answer
          /\ UNCHANGED <<saturated, pumping, burst, closed, outcome, passed>>
       \/ Dispose("connection_lost", buffer, status, outcome) /\ UNCHANGED host
    /\ UNCHANGED <<cut, reached, wakes>>

-----------------------------------------------------------------------------
(* The health timer.                                                       *)

IsLost(ages, quiet) == quiet > Timeout /\ \E i \in DOMAIN ages : ages[i] > Timeout

\* The check is not made on the first tick after a suspension, nor while the
\* decoder holds frames back.  A saturated writer does not suppress it.
SuppressedBySaturation(woke) == woke \/ paused \/ saturated
Suppressed(woke) == woke \/ paused

\* A tick sends a keepalive, then checks.  A tick that is late by more than
\* WAKE_GAP_MS first starts the clocks again.
Tick(woke) ==
    LET ages == IF woke THEN Rebased(unacked) ELSE Aged(unacked)
        quiet == IF woke THEN 0 ELSE Older(silence)
    IN /\ Idle
       /\ silence' = quiet
       /\ IF IsLost(ages, quiet) /\ ~Suppressed(woke)
          THEN Dispose("connection_lost", buffer, status, outcome) /\ UNCHANGED reached
          ELSE SendKeepAlive(ages)
       /\ FailWaiter(probing)
       /\ IF woke THEN wakes < MaxWakes /\ wakes' = wakes + 1 ELSE UNCHANGED wakes
       /\ UNCHANGED link

Next ==
    \/ \E r \in Requests : MakeRequest(r) \/ TimeOut(r) \/ Abort(r)
    \/ \E c \in Chunks : NotifyWithSettlement(c)
    \/ \E woke \in BOOLEAN : Tick(woke)
    \/ PumpNext \/ Probe \/ ProbeTimesOut \/ SendReply
    \/ Drain \/ Flush \/ FlushFails \/ TransportCloses \/ Shutdown \/ Cut
    \/ Receive \/ Continue

Spec == Init /\ [][Next]_vars

\* The loops of the main process run on, the health timer fires, and bytes
\* leave over a link that is not cut.  Nothing else is promised: not an
\* answer, not a deadline, not one more frame of the relay.
LiveSpec ==
    /\ Spec
    /\ WF_vars(PumpNext) /\ WF_vars(Continue) /\ WF_vars(Tick(FALSE))
    /\ WF_vars(Drain) /\ WF_vars(Flush /\ ~cut)

-----------------------------------------------------------------------------
(* Properties.                                                             *)

\* The verdict on a settled notification is honest: refused, which its caller
\* may repeat, means that no byte of it was handed over, and the other two
\* mean that some were.
SettlesHonestly ==
    \A c \in Chunks :
        /\ outcome[c] = "refused" => c \notin reached
        /\ outcome[c] \in {"accepted", "unverifiable"} => c \in reached

\* Nobody waits for a channel that is closed, whatever closed it and in the
\* middle of what.
NobodyWaitsOnAClosedChannel ==
    closed /= "open" =>
        /\ \A r \in Requests : status[r] /= "pending"
        /\ \A c \in Chunks : outcome[c] /= "waiting"
        /\ ~probing

\* The relay never gets rpc.cancel before the request it is to stop, although
\* lanes overtake each other.
CancelFollowsItsRequest == \A r \in Requests : host[r] /= "orphaned"

\* Nothing is stuck in the writer: a frame is queued only behind bytes that are
\* still to be called back, while a drain is awaited or being handled, and a
\* waiting ordinary frame is passed by ControlBurst control frames at most.
QueuedFramesAreServed ==
    /\ HasQueued(queue) => buffer /= <<>> /\ (pumping \/ saturated)
    /\ passed <= ControlBurst

\* A link that dies without a close is declared lost, even if the writer is
\* saturated, the reads are paused or the process sleeps when it dies.  It
\* takes a timestamp for every keepalive: the code keeps 4096.
DeadLinkIsDeclared ==
    [](Len(unacked) < MaxUnacked) => (cut ~> closed /= "open")

\* A request that its caller gave up is not left running at the relay: the
\* rpc.cancel is under way until it arrives or the channel ends.
AbandonedWorkIsStopped ==
    \A r \in Requests :
        status[r] = "abandoned" /\ host[r] \in {"none", "running"} /\ closed = "open" =>
            \/ \E i \in DOMAIN queue.control : queue.control[i].body = Cancel(r)
            \/ \E i \in DOMAIN buffer : buffer[i].body = Cancel(r)
            \/ cut
=============================================================================
