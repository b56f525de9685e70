--------------------------- MODULE ChannelProofs ---------------------------
(***************************************************************************)
(* Proofs about ChannelMultiplexer, for every set of requests and chunks   *)
(* and every size of the lanes and of the timestamp map: type correctness, *)
(* no caller left waiting on a closed channel, nothing stuck or starved in *)
(* the writer, honest verdicts on settled notifications, and requests that *)
(* stay ahead of the rpc.cancel that stops them.                           *)
(***************************************************************************)
EXTENDS ChannelMultiplexer, SequenceTheorems, TLAPS

Reasons == {"shutdown", "connection_lost"}
Statuses == {"new", "pending", "answered", "abandoned", "lost"}
Outcomes == {"none", "waiting", "accepted", "refused", "unverifiable"}

\* A frame carries no more timestamps than there are.
Ranged(frames) == \A i \in DOMAIN frames : frames[i].newest <= Len(unacked)

\* The writer: what waits has somebody to serve it.
Served ==
    /\ saturated \/ pumping => buffer /= <<>>
    /\ HasQueued(queue) => pumping \/ saturated
    /\ closed = "open" => passed <= burst
    /\ passed <= ControlBurst

\* A closed channel has told everybody.
Told ==
    closed /= "open" =>
        /\ ~pumping
        /\ \A r \in Requests : status[r] /= "pending"
        /\ \A c \in Chunks : outcome[c] /= "waiting"

\* What a send, a write and the end of the channel change.
Core ==
    /\ queue \in [Lanes -> Seq(Frames)]
    /\ buffer \in Seq(Frames)
    /\ saturated \in BOOLEAN /\ pumping \in BOOLEAN
    /\ burst \in 0..ControlBurst /\ passed \in Nat
    /\ unacked \in Seq(Ages) /\ Len(unacked) <= MaxUnacked
    /\ ackable \in 0..Len(unacked)
    /\ paused \in BOOLEAN
    /\ closed \in {"open"} \cup Reasons
    /\ status \in [Requests -> Statuses]
    /\ outcome \in [Chunks -> Outcomes]
    /\ Ranged(buffer)
    /\ \A lane \in Lanes :
          /\ Ranged(queue[lane])
          /\ \A i \in DOMAIN queue[lane] : Lane(queue[lane][i].body) = lane
    /\ Served
    /\ Told

\* The rest.
Around ==
    /\ silence \in Ages
    /\ probing \in BOOLEAN /\ (probing => closed = "open")
    /\ cut \in BOOLEAN
    /\ host \in [Requests -> {"none", "running", "done", "orphaned"}]
    /\ reached \subseteq Chunks
    /\ wakes \in 0..MaxWakes

ChannelInv == Core /\ Around

\* What a handler may have made of status before it sends.
Midway == [Requests -> Statuses \cup {"timing_out"}]

-----------------------------------------------------------------------------
(* Sequences of frames and of ages.                                        *)

LEMMA MapIsSeq ==
    ASSUME NEW S, NEW n \in Nat, NEW f \in [1..n -> S]
    PROVE  f \in Seq(S) /\ Len(f) = n
<1>1. f \in Seq(S)
    BY SeqDef
<1> QED
    BY <1>1, LenProperties

LEMMA BodyFacts ==
    /\ KeepAlive \in Bodies /\ Reply \in Bodies
    /\ KeepAlive[1] = "keepalive" /\ Reply[1] = "reply"
    /\ \A r \in Requests : Request(r) \in Bodies /\ Request(r)[1] = "request" /\ Request(r)[2] = r
    /\ \A r \in Requests : Cancel(r) \in Bodies /\ Cancel(r)[1] = "cancel" /\ Cancel(r)[2] = r
    /\ \A c \in Chunks : Data(c) \in Bodies /\ Data(c)[1] = "data" /\ Data(c)[2] = c
BY DEF Bodies, KeepAlive, Reply, Request, Cancel, Data

LEMMA LaneTyped == \A body : Lane(body) \in {"ordinary", "control", "liveness"}
BY DEF Lane

LEMMA Bounds ==
    /\ Timeout \in Nat /\ OrdinaryMax \in Nat /\ ControlMax \in Nat
    /\ ControlBurst \in Nat \ {0}
    /\ MaxUnacked \in Nat /\ MaxUnacked >= 2 /\ MaxWakes \in Nat
BY ChannelAssumption

LEMMA DropTyped ==
    ASSUME NEW s \in Seq(Frames), NEW n \in Nat
    PROVE  /\ Drop(s, n) \in Seq(Frames)
           /\ Len(Drop(s, n)) = Len(s)
           /\ DOMAIN Drop(s, n) = 1..Len(s)
           /\ \A i \in 1..Len(s) :
                 /\ Drop(s, n)[i].body = s[i].body
                 /\ Drop(s, n)[i].newest = IF s[i].newest < n THEN 0 ELSE s[i].newest - n
<1>1. Len(s) \in Nat /\ DOMAIN s = 1..Len(s) /\ \A i \in 1..Len(s) : s[i] \in Frames
    BY LenProperties, ElementOfSeq
<1>2. \A i \in 1..Len(s) :
        /\ Drop(s, n)[i] = [s[i] EXCEPT !.newest = IF @ < n THEN 0 ELSE @ - n]
        /\ Drop(s, n)[i] \in Frames
        /\ Drop(s, n)[i].body = s[i].body
        /\ Drop(s, n)[i].newest = IF s[i].newest < n THEN 0 ELSE s[i].newest - n
    BY <1>1, Bounds DEF Drop, Frames
<1>3. Drop(s, n) \in [1..Len(s) -> Frames]
    BY <1>1, <1>2 DEF Drop
<1> QED
    BY <1>1, <1>2, <1>3, MapIsSeq

LEMMA AgedTyped ==
    ASSUME NEW s \in Seq(Ages)
    PROVE  /\ Aged(s) \in Seq(Ages) /\ Len(Aged(s)) = Len(s)
           /\ Rebased(s) \in Seq(Ages) /\ Len(Rebased(s)) = Len(s)
<1>1. Len(s) \in Nat /\ DOMAIN s = 1..Len(s) /\ \A i \in 1..Len(s) : s[i] \in Ages
    BY LenProperties, ElementOfSeq
<1>2. \A age \in Ages : Older(age) \in Ages
    BY Bounds DEF Ages, Older
<1>3. Aged(s) \in [1..Len(s) -> Ages]
    BY <1>1, <1>2 DEF Aged
<1>4. Rebased(s) \in [1..Len(s) -> Ages]
    BY <1>1, Bounds DEF Rebased, Ages
<1> QED
    BY <1>1, <1>3, <1>4, MapIsSeq

LEMMA RemainingTyped ==
    ASSUME unacked \in Seq(Ages), NEW n \in 0..Len(unacked)
    PROVE  Remaining(n) \in Seq(Ages) /\ Len(Remaining(n)) = Len(unacked) - n
<1>1. Len(unacked) \in Nat
    BY LenProperties
<1>2. \A i \in n+1..Len(unacked) : unacked[i] \in Ages
    BY <1>1, ElementOfSeq
<1> QED
    BY <1>1, <1>2, SubSeqProperties DEF Remaining

LEMMA TrackTyped ==
    ASSUME NEW ages \in Seq(Ages), Len(ages) <= MaxUnacked, NEW body
    PROVE  /\ Track(ages, body) \in Seq(Ages)
           /\ Len(Track(ages, body)) <= MaxUnacked
           /\ Len(Track(ages, body)) >= Len(ages)
           /\ Len(Track(ages, body)) \in Nat
<1>1. Len(ages) \in Nat
    BY LenProperties
<1>2. 0 \in Ages
    BY Bounds DEF Ages
<1>3. Append(ages, 0) \in Seq(Ages) /\ Len(Append(ages, 0)) = Len(ages) + 1
    BY <1>2
<1>4. Len(ages) < UnackedLimit(body) => Len(ages) + 1 <= MaxUnacked
    BY <1>1, Bounds DEF UnackedLimit
<1> QED
    BY <1>1, <1>3, <1>4, Bounds DEF Track

LEMMA AppendFacts ==
    ASSUME NEW S, NEW s \in Seq(S), NEW x \in S
    PROVE  /\ Append(s, x) \in Seq(S)
           /\ Len(Append(s, x)) = Len(s) + 1
           /\ DOMAIN Append(s, x) = 1..(Len(s) + 1)
           /\ DOMAIN s = 1..Len(s)
           /\ Len(s) \in Nat
           /\ \A i \in 1..Len(s) : Append(s, x)[i] = s[i]
           /\ Append(s, x)[Len(s) + 1] = x
           /\ Append(s, x) /= <<>>
OBVIOUS

LEMMA TailFacts ==
    ASSUME NEW S, NEW s \in Seq(S), s /= <<>>
    PROVE  /\ Head(s) = s[1] /\ Head(s) \in S
           /\ Tail(s) \in Seq(S)
           /\ Len(s) \in Nat \ {0}
           /\ Len(Tail(s)) = Len(s) - 1
           /\ DOMAIN s = 1..Len(s)
           /\ DOMAIN Tail(s) = 1..(Len(s) - 1)
           /\ \A i \in 1..(Len(s) - 1) : Tail(s)[i] = s[i + 1]
<1>1. Len(s) \in Nat \ {0} /\ DOMAIN s = 1..Len(s)
    BY EmptySeq, LenProperties
<1>2. Tail(s) \in Seq(S) /\ Len(Tail(s)) = Len(s) - 1 /\ Head(s) \in S
    BY HeadTailProperties
<1> QED
    BY <1>1, <1>2, HeadTailProperties, LenProperties

-----------------------------------------------------------------------------
(* The end of the channel, a write and a send.                             *)

LEMMA DisposeCore ==
    ASSUME passed \in Nat, passed <= ControlBurst,
           NEW reason \in Reasons, NEW handed, NEW st \in Midway, NEW out \in [Chunks -> Outcomes],
           Dispose(reason, handed, st, out)
    PROVE  Core'
<1>1. status' \in [Requests -> Statuses] /\ \A r \in Requests : status'[r] /= "pending"
    BY DEF Dispose, Midway, Statuses, Unanswered
<1>2. outcome' \in [Chunks -> Outcomes] /\ \A c \in Chunks : outcome'[c] /= "waiting"
    BY DEF Dispose, Outcomes, Release
<1>3. \A lane \in Lanes : queue'[lane] = <<>>
    BY DEF Dispose
<1>4. queue' \in [Lanes -> Seq(Frames)] /\ buffer' = <<>> /\ buffer' \in Seq(Frames)
    BY <1>3 DEF Dispose
<1>5. ~HasQueued(queue)'
    BY <1>3 DEF HasQueued
<1>6. unacked' = <<>> /\ unacked' \in Seq(Ages) /\ Len(unacked') = 0
    BY DEF Dispose
<1>7. /\ saturated' = FALSE /\ pumping' = FALSE /\ burst' = 0 /\ passed' = passed
      /\ ackable' = 0 /\ paused' = FALSE /\ closed' = reason
    BY DEF Dispose
<1>8. reason /= "open"
    BY DEF Reasons
<1>9. Ranged(buffer)' /\ \A lane \in Lanes :
          Ranged(queue[lane])' /\ \A i \in DOMAIN queue'[lane] : Lane(queue'[lane][i].body) = lane
    BY <1>3, <1>4 DEF Ranged
<1>10. Served'
    BY <1>5, <1>7, <1>8 DEF Served
<1>11. Told'
    BY <1>1, <1>2, <1>7 DEF Told
<1>12. /\ burst' \in 0..ControlBurst /\ ackable' \in 0..Len(unacked') /\ passed' \in Nat
       /\ Len(unacked') <= MaxUnacked
    BY <1>6, <1>7, Bounds
<1>13. /\ saturated' \in BOOLEAN /\ pumping' \in BOOLEAN /\ paused' \in BOOLEAN
       /\ closed' \in {"open"} \cup Reasons
    BY <1>7
<1> QED
    BY <1>1, <1>2, <1>4, <1>6, <1>9, <1>10, <1>11, <1>12, <1>13, Zenon DEF Core

\* A write that does not end the channel.
Written(frame, waiting, st, out) ==
    /\ buffer' = Append(buffer, frame)
    /\ saturated' \in BOOLEAN /\ (saturated => saturated')
    /\ burst' \in 0..ControlBurst /\ passed' \in Nat
    /\ (waiting /\ Lane(frame.body) = "control" => burst < ControlBurst) => passed' <= burst'
    /\ status' = Published(st) /\ outcome' = out
    /\ paused' = paused /\ closed' = closed

LEMMA WriteFacts ==
    ASSUME Core, closed = "open", NEW frame, NEW waiting \in BOOLEAN, NEW st, NEW out,
           Write(frame, waiting, st, out)
    PROVE  \/ Dispose("connection_lost", Append(buffer, frame), st, out)
           \/ Written(frame, waiting, st, out)
<1> SUFFICES ASSUME ~Dispose("connection_lost", Append(buffer, frame), st, out)
             PROVE  Written(frame, waiting, st, out)
    OBVIOUS
<1>1. /\ buffer' = Append(buffer, frame)
      /\ \E result \in WriteResults(frame.body) : saturated' = (saturated \/ result = "full")
      /\ status' = Published(st) /\ outcome' = out /\ paused' = paused /\ closed' = closed
    BY DEF Write
<1>2. saturated' \in BOOLEAN /\ (saturated => saturated')
    BY <1>1 DEF Core
<1>3. burst \in 0..ControlBurst /\ passed \in Nat /\ passed <= burst
    BY DEF Core, Served
<1>4. CASE Lane(frame.body) = "control"
    <2>1. burst' = IF burst < ControlBurst THEN burst + 1 ELSE burst
        BY <1>4 DEF Write
    <2>2. passed' = IF waiting THEN passed + 1 ELSE 0
        BY <1>4 DEF Write
    <2> QED
        BY <1>1, <1>2, <1>3, <1>4, <2>1, <2>2, Bounds DEF Written
<1>5. CASE Lane(frame.body) = "ordinary"
    <2>1. burst' = 0 /\ passed' = 0
        BY <1>5 DEF Write
    <2> QED
        BY <1>1, <1>2, <1>3, <1>5, <2>1, Bounds DEF Written
<1>6. CASE Lane(frame.body) = "liveness"
    <2>1. burst' = burst /\ passed' = IF waiting THEN passed ELSE 0
        BY <1>6 DEF Write
    <2> QED
        BY <1>1, <1>2, <1>3, <1>6, <2>1, Bounds DEF Written
<1> QED
    BY <1>4, <1>5, <1>6, LaneTyped

LEMMA PublishedTyped ==
    ASSUME NEW st \in Midway
    PROVE  Published(st) \in [Requests -> Statuses]
BY DEF Midway, Published, Statuses

\* A send that queues its frame behind a full transport.
Queued(ages, body, st, out) ==
    LET tracked == Track(ages, body) IN
    /\ saturated /\ Lane(body) \in Lanes
    /\ queue' = [queue EXCEPT ![Lane(body)] =
                    Append(@, [body |-> body, newest |-> Len(tracked)])]
    /\ unacked' = tracked
    /\ status' = Published(st) /\ outcome' = out
    /\ UNCHANGED <<buffer, saturated, pumping, burst, ackable, paused, closed, history>>

\* A send that hands its frame over.
Handed(ages, body, st, out) ==
    LET tracked == Track(ages, body)
        frame == [body |-> body, newest |-> Len(tracked)]
    IN /\ ~saturated \/ Lane(body) = "liveness"
       /\ Written(frame, queue.ordinary /= <<>>, st, out)
       /\ unacked' = tracked
       /\ reached' = reached \cup {c \in Chunks : body = Data(c)}
       /\ UNCHANGED <<queue, pumping, ackable>>

\* A send that ends the channel, its frame refused or handed over.
Refused(st, out) == Dispose("connection_lost", buffer, st, out) /\ reached' = reached
Broken(ages, body, st, out) ==
    LET frame == [body |-> body, newest |-> Len(Track(ages, body))] IN
    /\ ~saturated \/ Lane(body) = "liveness"
    /\ Dispose("connection_lost", Append(buffer, frame), st, out)
    /\ reached' = reached \cup {c \in Chunks : body = Data(c)}

LEMMA SendCases ==
    ASSUME Core, closed = "open", NEW ages, NEW body, NEW st, NEW out,
           Send(ages, body, st, out)
    PROVE  \/ Refused(st, out) \/ Broken(ages, body, st, out)
           \/ Queued(ages, body, st, out) \/ Handed(ages, body, st, out)
<1> DEFINE tracked == Track(ages, body)
           frame == [body |-> body, newest |-> Len(tracked)]
<1>1. CASE ~Admits(Lane(body))
    BY <1>1 DEF Send, Refused
<1>2. CASE Admits(Lane(body)) /\ saturated /\ Lane(body) /= "liveness"
    BY <1>2, LaneTyped DEF Send, Queued, Lanes
<1>3. CASE Admits(Lane(body)) /\ ~(saturated /\ Lane(body) /= "liveness")
    <2>1. /\ Write(frame, queue.ordinary /= <<>>, st, out)
          /\ closed' = "open" => unacked' = tracked /\ UNCHANGED <<queue, pumping, ackable>>
        BY <1>3 DEF Send
    <2>2. reached' = reached \cup {c \in Chunks : body = Data(c)}
        BY <2>1 DEF Write
    <2>3. \/ Dispose("connection_lost", Append(buffer, frame), st, out)
          \/ Written(frame, queue.ordinary /= <<>>, st, out)
        BY <2>1, WriteFacts
    <2>4. Written(frame, queue.ordinary /= <<>>, st, out) => closed' = "open"
        BY DEF Written
    <2> QED
        BY <1>3, <2>1, <2>2, <2>3, <2>4 DEF Broken, Handed
<1> QED
    BY <1>1, <1>2, <1>3

\* Frames stay in range while timestamps are only added.
LEMMA StillRanged ==
    ASSUME NEW s \in Seq(Frames), Ranged(s), Len(unacked) \in Nat, Len(unacked') \in Nat,
           Len(unacked) <= Len(unacked')
    PROVE  \A i \in 1..Len(s) : s[i] \in Frames /\ s[i].newest <= Len(unacked')
<1>1. \A i \in 1..Len(s) : s[i] \in Frames /\ s[i].newest <= Len(unacked)
    BY LenProperties, ElementOfSeq DEF Ranged
<1>2. \A f \in Frames : f.newest \in Nat
    BY Bounds DEF Frames
<1> QED
    BY <1>1, <1>2

LEMMA QueuedCore ==
    ASSUME Core, closed = "open", ~pumping,
           NEW ages \in Seq(Ages), Len(ages) = Len(unacked), NEW body \in Bodies,
           NEW st \in Midway, NEW out \in [Chunks -> Outcomes],
           Queued(ages, body, st, out)
    PROVE  Core'
<1> DEFINE tracked == Track(ages, body)
           frame == [body |-> body, newest |-> Len(tracked)]
<1>1. /\ tracked \in Seq(Ages) /\ Len(tracked) <= MaxUnacked /\ Len(tracked) >= Len(unacked)
      /\ Len(tracked) \in Nat /\ Len(unacked) \in Nat
    BY TrackTyped, LenProperties DEF Core
<1>2. frame \in Frames
    BY <1>1, Bounds DEF Frames
<1>3. /\ saturated /\ Lane(body) \in Lanes /\ unacked' = tracked
      /\ queue' = [queue EXCEPT ![Lane(body)] = Append(@, frame)]
      /\ status' = Published(st) /\ outcome' = out
      /\ UNCHANGED <<buffer, saturated, pumping, burst, ackable, paused, closed, passed>>
    BY DEF Queued, history
<1>4. queue' \in [Lanes -> Seq(Frames)]
    <2>1. Append(queue[Lane(body)], frame) \in Seq(Frames)
        BY <1>2, <1>3, AppendFacts DEF Core
    <2> QED
        BY <1>3, <2>1 DEF Core
<1>5. Ranged(buffer)'
    <2>1. buffer \in Seq(Frames) /\ Ranged(buffer) /\ DOMAIN buffer = 1..Len(buffer)
        BY LenProperties DEF Core
    <2> QED
        BY <1>1, <1>3, <2>1, StillRanged DEF Ranged
<1>6. ASSUME NEW lane \in Lanes
      PROVE  Ranged(queue[lane])' /\ \A i \in DOMAIN queue'[lane] : Lane(queue'[lane][i].body) = lane
    <2>1. /\ queue[lane] \in Seq(Frames) /\ Ranged(queue[lane])
          /\ DOMAIN queue[lane] = 1..Len(queue[lane]) /\ Len(queue[lane]) \in Nat
          /\ \A i \in DOMAIN queue[lane] : Lane(queue[lane][i].body) = lane
        BY LenProperties DEF Core
    <2>2. \A i \in 1..Len(queue[lane]) : queue[lane][i].newest <= Len(unacked')
        BY <1>1, <1>3, <2>1, StillRanged
    <2>3. CASE lane /= Lane(body)
        <3>1. queue'[lane] = queue[lane]
            BY <1>3, <2>3 DEF Core
        <3> QED
            BY <2>1, <2>2, <3>1 DEF Ranged
    <2>4. CASE lane = Lane(body)
        <3>1. queue'[lane] = Append(queue[lane], frame)
            BY <1>3, <2>4 DEF Core
        <3>2. /\ DOMAIN queue'[lane] = 1..(Len(queue[lane]) + 1)
              /\ \A i \in 1..Len(queue[lane]) : queue'[lane][i] = queue[lane][i]
              /\ queue'[lane][Len(queue[lane]) + 1] = frame
            BY <1>2, <2>1, <3>1, AppendFacts
        <3>3. frame.newest <= Len(unacked') /\ Lane(frame.body) = lane
            BY <1>1, <1>3, <2>4
        <3>4. \A i \in DOMAIN queue'[lane] : i \in 1..Len(queue[lane]) \/ i = Len(queue[lane]) + 1
            BY <2>1, <3>2
        <3> HIDE DEF frame
        <3>5. ASSUME NEW i \in DOMAIN queue'[lane]
              PROVE  queue'[lane][i].newest <= Len(unacked') /\ Lane(queue'[lane][i].body) = lane
            <4>1. CASE i \in 1..Len(queue[lane])
                BY <2>1, <2>2, <3>2, <4>1
            <4>2. CASE i = Len(queue[lane]) + 1
                BY <3>2, <3>3, <4>2
            <4> QED
                BY <3>4, <4>1, <4>2
        <3> QED
            BY <3>5 DEF Ranged
    <2> QED
        BY <2>3, <2>4
<1>7. Served'
    BY <1>3 DEF Core, Served
<1>8. Told'
    BY <1>3 DEF Core, Told
<1>9. status' \in [Requests -> Statuses] /\ outcome' \in [Chunks -> Outcomes]
    BY <1>3, PublishedTyped
<1>10. ackable' \in 0..Len(unacked') /\ unacked' \in Seq(Ages) /\ Len(unacked') <= MaxUnacked
    BY <1>1, <1>3 DEF Core
<1>11. UNCHANGED <<buffer, saturated, pumping, burst, paused, closed, passed>>
    BY <1>3
<1> QED
    BY <1>4, <1>5, <1>6, <1>7, <1>8, <1>9, <1>10, <1>11 DEF Core

LEMMA HandedCore ==
    ASSUME Core, closed = "open", ~pumping,
           NEW ages \in Seq(Ages), Len(ages) = Len(unacked), NEW body \in Bodies,
           NEW st \in Midway, NEW out \in [Chunks -> Outcomes],
           Handed(ages, body, st, out)
    PROVE  Core'
<1> DEFINE tracked == Track(ages, body)
           frame == [body |-> body, newest |-> Len(tracked)]
<1>1. /\ tracked \in Seq(Ages) /\ Len(tracked) <= MaxUnacked /\ Len(tracked) >= Len(unacked)
      /\ Len(tracked) \in Nat /\ Len(unacked) \in Nat
    BY TrackTyped, LenProperties DEF Core
<1>2. frame \in Frames
    BY <1>1, Bounds DEF Frames
<1>3. /\ ~saturated \/ Lane(body) = "liveness"
      /\ Written(frame, queue.ordinary /= <<>>, st, out) /\ unacked' = tracked
      /\ UNCHANGED <<queue, pumping, ackable>>
    BY DEF Handed
<1>4. /\ buffer' = Append(buffer, frame)
      /\ saturated' \in BOOLEAN /\ (saturated => saturated')
      /\ burst' \in 0..ControlBurst /\ passed' \in Nat
      /\ status' = Published(st) /\ outcome' = out /\ paused' = paused /\ closed' = closed
    BY <1>3 DEF Written
<1>5. /\ buffer' \in Seq(Frames) /\ buffer' /= <<>>
      /\ DOMAIN buffer' = 1..(Len(buffer) + 1) /\ Len(buffer) \in Nat
      /\ \A i \in 1..Len(buffer) : buffer'[i] = buffer[i]
      /\ buffer'[Len(buffer) + 1] = frame
    BY <1>2, <1>4, AppendFacts DEF Core
<1>6. Ranged(buffer)'
    <2>1. buffer \in Seq(Frames) /\ Ranged(buffer)
        BY DEF Core
    <2>2. \A i \in 1..Len(buffer) : buffer'[i].newest <= Len(unacked')
        BY <1>1, <1>3, <1>5, <2>1, StillRanged
    <2>3. frame.newest <= Len(unacked')
        BY <1>1, <1>3
    <2>4. \A i \in DOMAIN buffer' : i \in 1..Len(buffer) \/ i = Len(buffer) + 1
        BY <1>5
    <2> QED
        BY <1>5, <2>2, <2>3, <2>4 DEF Ranged
<1>7. ASSUME NEW lane \in Lanes
      PROVE  Ranged(queue[lane])' /\ \A i \in DOMAIN queue'[lane] : Lane(queue'[lane][i].body) = lane
    <2>1. /\ queue[lane] \in Seq(Frames) /\ Ranged(queue[lane])
          /\ DOMAIN queue[lane] = 1..Len(queue[lane])
          /\ \A i \in DOMAIN queue[lane] : Lane(queue[lane][i].body) = lane
        BY LenProperties DEF Core
    <2>2. \A i \in 1..Len(queue[lane]) : queue[lane][i].newest <= Len(unacked')
        BY <1>1, <1>3, <2>1, StillRanged
    <2>3. queue'[lane] = queue[lane]
        BY <1>3
    <2> QED
        BY <2>1, <2>2, <2>3 DEF Ranged
<1>8. passed' <= burst'
    <2>1. Lane(body) = "control" => queue.ordinary = <<>>
        BY <1>3 DEF Core, Served, HasQueued, Lanes
    <2> QED
        BY <1>3, <2>1 DEF Written
<1>9. Served'
    <2>1. HasQueued(queue)' => saturated'
        BY <1>3, <1>4 DEF Core, Served, HasQueued
    <2>2. passed' <= ControlBurst
        BY <1>4, <1>8, Bounds
    <2>3. ~pumping'
        BY <1>3
    <2> QED
        BY <1>5, <1>8, <2>1, <2>2, <2>3, Zenon DEF Served
<1>10. Told'
    BY <1>4 DEF Told
<1>11. status' \in [Requests -> Statuses] /\ outcome' \in [Chunks -> Outcomes]
    BY <1>4, PublishedTyped
<1>12. ackable' \in 0..Len(unacked') /\ unacked' \in Seq(Ages) /\ Len(unacked') <= MaxUnacked
    BY <1>1, <1>3 DEF Core
<1>13. queue' = queue /\ pumping' = pumping /\ paused' = paused /\ closed' = closed
    BY <1>3, <1>4
<1> QED
    BY <1>4, <1>5, <1>6, <1>7, <1>9, <1>10, <1>11, <1>12, <1>13 DEF Core

LEMMA SendCore ==
    ASSUME Core, closed = "open", ~pumping, reached \subseteq Chunks,
           NEW ages \in Seq(Ages), Len(ages) = Len(unacked), NEW body \in Bodies,
           NEW st \in Midway, NEW out \in [Chunks -> Outcomes],
           Send(ages, body, st, out)
    PROVE  Core' /\ reached' \subseteq Chunks
<1>1. passed \in Nat /\ passed <= ControlBurst /\ "connection_lost" \in Reasons
    BY DEF Core, Served, Reasons
<1>2. CASE Refused(st, out)
    BY <1>1, <1>2, DisposeCore DEF Refused
<1>3. CASE Broken(ages, body, st, out)
    <2>1. reached' \subseteq Chunks
        BY <1>3 DEF Broken
    <2> QED
        BY <1>1, <1>3, <2>1, DisposeCore DEF Broken
<1>4. CASE Queued(ages, body, st, out)
    <2>1. reached' = reached
        BY <1>4 DEF Queued, history
    <2> QED
        BY <1>4, <2>1, QueuedCore
<1>5. CASE Handed(ages, body, st, out)
    <2>1. reached' \subseteq Chunks
        BY <1>5 DEF Handed
    <2> QED
        BY <1>5, <2>1, HandedCore
<1> QED
    BY <1>2, <1>3, <1>4, <1>5, SendCases

LEMMA SendKeepAliveCore ==
    ASSUME Core, closed = "open", ~pumping, reached \subseteq Chunks,
           NEW ages \in Seq(Ages), Len(ages) = Len(unacked), SendKeepAlive(ages)
    PROVE  Core' /\ reached' \subseteq Chunks
<1>1. CASE Send(ages, KeepAlive, status, outcome)
    <2>1. status \in Midway /\ outcome \in [Chunks -> Outcomes] /\ KeepAlive \in Bodies
        BY BodyFacts DEF Core, Midway
    <2> QED
        BY <1>1, <2>1, SendCore
<1>2. CASE /\ unacked' = ages
           /\ UNCHANGED <<writer, ackable, paused, closed, status, outcome, history>>
    <2>1. UNCHANGED <<queue, buffer, saturated, pumping, burst, ackable, paused, closed, status,
                      outcome, passed, reached>>
        BY <1>2 DEF writer, history
    <2>2. \A s : Ranged(s) => Ranged(s)'
        BY <1>2 DEF Ranged
    <2> QED
        BY <1>2, <2>1, <2>2 DEF Core, Served, Told, HasQueued, Ranged
<1> QED
    BY <1>1, <1>2 DEF SendKeepAlive

-----------------------------------------------------------------------------
(* The writer's loop.                                                      *)

\* The loop has a frame to write, and only an ordinary frame that the control
\* lane may not keep waiting any longer is passed over.
LEMMA Selected ==
    ASSUME Core, pumping, CanPump
    PROVE  /\ closed = "open" /\ ~saturated
           /\ Select \in Lanes /\ queue[Select] \in Seq(Frames) /\ queue[Select] /= <<>>
           /\ Select = "control" /\ queue.ordinary /= <<>> => burst < ControlBurst
<1>1. closed = "open" /\ ~saturated /\ HasQueued(queue)
    BY DEF Core, Told, CanPump
<1>2. queue.control /= <<>> \/ queue.ordinary /= <<>>
    BY <1>1 DEF HasQueued, Lanes
<1>3. Select \in Lanes /\ queue[Select] /= <<>>
    BY <1>2 DEF Select, Lanes
<1>4. queue[Select] \in Seq(Frames)
    BY <1>3 DEF Core
<1>5. Select = "control" /\ queue.ordinary /= <<>> => burst < ControlBurst
    BY DEF Select
<1> QED
    BY <1>1, <1>3, <1>4, <1>5

LEMMA RestTyped ==
    ASSUME Core, pumping, CanPump, NEW rest, rest = [queue EXCEPT ![Select] = Tail(@)]
    PROVE  /\ Head(queue[Select]) \in Frames
           /\ Head(queue[Select]).newest <= Len(unacked)
           /\ Lane(Head(queue[Select]).body) = Select
           /\ rest \in [Lanes -> Seq(Frames)]
           /\ \A lane \in Lanes :
                 /\ Ranged(rest[lane])
                 /\ \A i \in DOMAIN rest[lane] : Lane(rest[lane][i].body) = lane
<1> DEFINE s == queue[Select]
<1>1. Select \in Lanes /\ s \in Seq(Frames) /\ s /= <<>>
    BY Selected
<1>2. /\ Head(s) = s[1] /\ Head(s) \in Frames /\ Tail(s) \in Seq(Frames)
      /\ Len(s) \in Nat \ {0} /\ DOMAIN s = 1..Len(s)
      /\ DOMAIN Tail(s) = 1..(Len(s) - 1)
      /\ \A i \in 1..(Len(s) - 1) : Tail(s)[i] = s[i + 1]
    BY <1>1, TailFacts
<1>3. Ranged(s) /\ \A i \in DOMAIN s : Lane(s[i].body) = Select
    BY <1>1 DEF Core
<1>4. rest \in [Lanes -> Seq(Frames)]
    BY <1>1, <1>2 DEF Core
<1>5. 1 \in DOMAIN s
    BY <1>2
<1>6. ASSUME NEW lane \in Lanes
      PROVE  Ranged(rest[lane]) /\ \A i \in DOMAIN rest[lane] : Lane(rest[lane][i].body) = lane
    <2>1. CASE lane = Select
        <3>1. rest[lane] = Tail(s)
            BY <1>1, <2>1 DEF Core
        <3> HIDE DEF s
        <3>2. \A i \in 1..(Len(s) - 1) : i + 1 \in DOMAIN s /\ Tail(s)[i] = s[i + 1]
            BY <1>2
        <3> QED
            BY <1>2, <1>3, <2>1, <3>1, <3>2 DEF Ranged
    <2>2. CASE lane /= Select
        <3>1. rest[lane] = queue[lane]
            BY <2>2 DEF Core
        <3> QED
            BY <3>1 DEF Core
    <2> QED
        BY <2>1, <2>2
<1> QED
    BY <1>2, <1>3, <1>4, <1>5, <1>6 DEF Ranged

LEMMA PumpCore ==
    ASSUME Core, reached \subseteq Chunks, PumpNext
    PROVE  Core' /\ reached' \subseteq Chunks
<1> DEFINE rest == [queue EXCEPT ![Select] = Tail(@)]
           frame == Head(queue[Select])
           waiting == rest.ordinary /= <<>>
<1>1. /\ pumping /\ CanPump /\ Write(frame, waiting, status, outcome)
      /\ closed' = "open" =>
            queue' = rest /\ UNCHANGED <<pumping, unacked, ackable>>
    BY DEF PumpNext
<1>2. /\ closed = "open" /\ ~saturated /\ Select \in Lanes
      /\ queue[Select] \in Seq(Frames) /\ queue[Select] /= <<>>
      /\ Select = "control" /\ queue.ordinary /= <<>> => burst < ControlBurst
    BY <1>1, Selected
<1>3. /\ frame \in Frames /\ frame.newest <= Len(unacked) /\ Lane(frame.body) = Select
      /\ rest \in [Lanes -> Seq(Frames)]
      /\ \A lane \in Lanes : Ranged(rest[lane]) /\ \A i \in DOMAIN rest[lane] : Lane(rest[lane][i].body) = lane
    BY <1>1, RestTyped
<1>4. reached' \subseteq Chunks
    BY <1>1 DEF Write
<1>5. CASE Dispose("connection_lost", Append(buffer, frame), status, outcome)
    <2>1. /\ passed \in Nat /\ passed <= ControlBurst /\ "connection_lost" \in Reasons
          /\ status \in Midway /\ outcome \in [Chunks -> Outcomes]
        BY DEF Core, Served, Reasons, Midway
    <2> QED
        BY <1>4, <1>5, <2>1, DisposeCore
<1>6. CASE Written(frame, waiting, status, outcome)
    <2>1. /\ buffer' = Append(buffer, frame)
          /\ saturated' \in BOOLEAN /\ burst' \in 0..ControlBurst /\ passed' \in Nat
          /\ status' = Published(status) /\ outcome' = outcome /\ paused' = paused
          /\ closed' = closed
          /\ (waiting /\ Lane(frame.body) = "control" => burst < ControlBurst) => passed' <= burst'
        BY <1>6 DEF Written
    <2>2. /\ queue' = rest /\ pumping' = pumping
          /\ unacked' = unacked /\ ackable' = ackable
        BY <1>1, <1>2, <2>1
    <2>3. /\ buffer' \in Seq(Frames) /\ buffer' /= <<>>
          /\ DOMAIN buffer' = 1..(Len(buffer) + 1) /\ Len(buffer) \in Nat
          /\ DOMAIN buffer = 1..Len(buffer)
          /\ \A i \in 1..Len(buffer) : buffer'[i] = buffer[i]
          /\ buffer'[Len(buffer) + 1] = frame
        BY <1>3, <2>1, AppendFacts DEF Core
    <2>4. Ranged(buffer)'
        <3>1. Ranged(buffer)
            BY DEF Core
        <3> HIDE DEF frame
        <3>2. \A i \in DOMAIN buffer' : i \in 1..Len(buffer) \/ i = Len(buffer) + 1
            BY <2>3
        <3> QED
            BY <1>3, <2>2, <2>3, <3>1, <3>2 DEF Ranged
    <2>5. waiting /\ Lane(frame.body) = "control" => burst < ControlBurst
        <3>1. Select = "control" => rest.ordinary = queue.ordinary
            BY DEF Core, Lanes
        <3> QED
            BY <1>2, <1>3, <3>1
    <2>6. passed' <= burst'
        BY <2>1, <2>5
    <2>7. passed' <= ControlBurst
        BY <2>1, <2>6, Bounds
    <2> HIDE DEF rest, frame, waiting
    <2>9. Served'
        BY <1>1, <2>2, <2>3, <2>6, <2>7, Zenon DEF Served
    <2>10. Told'
        BY <1>2, <2>1 DEF Told
    <2>11. status' \in [Requests -> Statuses] /\ outcome' \in [Chunks -> Outcomes]
        <3>1. status \in Midway
            BY DEF Core, Midway
        <3> QED
            BY <2>1, <3>1, PublishedTyped DEF Core
    <2>12. pumping' \in BOOLEAN
        BY <1>1, <2>2
    <2>13. \A lane \in Lanes :
              Ranged(queue[lane])' /\ \A i \in DOMAIN queue'[lane] : Lane(queue'[lane][i].body) = lane
        BY <1>3, <2>2 DEF Ranged
    <2>14. queue' \in [Lanes -> Seq(Frames)]
        BY <1>3, <2>2
    <2>15. /\ ackable' \in 0..Len(unacked') /\ unacked' \in Seq(Ages) /\ Len(unacked') <= MaxUnacked
           /\ paused' \in BOOLEAN /\ closed' \in {"open"} \cup Reasons
        BY <2>1, <2>2 DEF Core
    <2> QED
        BY <1>4, <2>1, <2>3, <2>4, <2>9, <2>10, <2>11, <2>12, <2>13, <2>14, <2>15, Zenon DEF Core
<1> QED
    BY <1>1, <1>2, <1>5, <1>6, WriteFacts

-----------------------------------------------------------------------------
(* The transport's callbacks and the frames of the relay.                  *)

LEMMA AcknowledgeCore ==
    ASSUME Core, NEW n \in 0..ackable, Acknowledge(n),
           unacked' \in Seq(Ages), Len(unacked') = Len(unacked) - n,
           status' \in [Requests -> Statuses], paused' \in BOOLEAN, closed = "open",
           UNCHANGED <<saturated, pumping, burst, closed, outcome, passed>>
    PROVE  Core'
<1>1. /\ ackable \in 0..Len(unacked) /\ Len(unacked) \in Nat /\ Len(unacked) <= MaxUnacked
      /\ n \in Nat
    BY LenProperties DEF Core
<1>2. /\ ackable' = ackable - n /\ buffer' = Drop(buffer, n)
      /\ queue' = [lane \in Lanes |-> Drop(queue[lane], n)]
    BY DEF Acknowledge
<1>3. ASSUME NEW s \in Seq(Frames), Ranged(s)
      PROVE  /\ Drop(s, n) \in Seq(Frames) /\ Len(Drop(s, n)) = Len(s) /\ Len(s) \in Nat
             /\ DOMAIN Drop(s, n) = 1..Len(s) /\ DOMAIN s = 1..Len(s)
             /\ \A i \in 1..Len(s) : Drop(s, n)[i].body = s[i].body
             /\ \A i \in 1..Len(s) : Drop(s, n)[i].newest <= Len(unacked')
             /\ Drop(s, n) = <<>> <=> s = <<>>
    <2>1. /\ Drop(s, n) \in Seq(Frames) /\ Len(Drop(s, n)) = Len(s)
          /\ DOMAIN Drop(s, n) = 1..Len(s)
          /\ \A i \in 1..Len(s) :
                /\ Drop(s, n)[i].body = s[i].body
                /\ Drop(s, n)[i].newest = IF s[i].newest < n THEN 0 ELSE s[i].newest - n
        BY <1>1, DropTyped
    <2>2. Len(s) \in Nat /\ DOMAIN s = 1..Len(s) /\ \A i \in 1..Len(s) : s[i] \in Frames
        BY LenProperties, ElementOfSeq
    <2>3. ASSUME NEW i \in 1..Len(s)
          PROVE  s[i].newest \in Nat /\ s[i].newest <= Len(unacked)
        <3>1. s[i] \in Frames /\ i \in DOMAIN s
            BY <2>2
        <3>2. s[i].newest \in 0..MaxUnacked
            BY <3>1 DEF Frames
        <3>3. s[i].newest <= Len(unacked)
            BY <1>3, <3>1 DEF Ranged
        <3> QED
            BY <3>2, <3>3
    <2>4. \A i \in 1..Len(s) : Drop(s, n)[i].newest <= Len(unacked')
        <3> SUFFICES ASSUME NEW i \in 1..Len(s) PROVE Drop(s, n)[i].newest <= Len(unacked')
            OBVIOUS
        <3>1. /\ s[i].newest \in Nat /\ s[i].newest <= Len(unacked)
              /\ Drop(s, n)[i].newest = IF s[i].newest < n THEN 0 ELSE s[i].newest - n
            BY <2>1, <2>3
        <3> QED
            BY <1>1, <3>1
    <2>5. Drop(s, n) = <<>> <=> s = <<>>
        BY <2>1, EmptySeq
    <2> QED
        BY <2>1, <2>2, <2>4, <2>5
<1>4. buffer \in Seq(Frames) /\ Ranged(buffer)
    BY DEF Core
<1>5. buffer' \in Seq(Frames) /\ Ranged(buffer)' /\ (buffer' = <<>> <=> buffer = <<>>)
    BY <1>2, <1>3, <1>4 DEF Ranged
<1>6. ASSUME NEW lane \in Lanes
      PROVE  /\ queue'[lane] \in Seq(Frames) /\ Ranged(queue[lane])'
             /\ \A i \in DOMAIN queue'[lane] : Lane(queue'[lane][i].body) = lane
             /\ queue'[lane] = <<>> <=> queue[lane] = <<>>
    <2>1. /\ queue[lane] \in Seq(Frames) /\ Ranged(queue[lane])
          /\ \A i \in DOMAIN queue[lane] : Lane(queue[lane][i].body) = lane
        BY DEF Core
    <2> DEFINE s == queue[lane]
               s2 == Drop(s, n)
    <2>2. queue'[lane] = s2
        BY <1>2
    <2>3. /\ s2 \in Seq(Frames) /\ (s2 = <<>> <=> s = <<>>)
          /\ DOMAIN s2 = 1..Len(s) /\ DOMAIN s = 1..Len(s)
          /\ \A i \in 1..Len(s) : s2[i].body = s[i].body
          /\ \A i \in 1..Len(s) : s2[i].newest <= Len(unacked')
        BY <1>3, <2>1
    <2>4. \A i \in 1..Len(s) : Lane(s[i].body) = lane
        BY <2>1, <2>3
    <2> HIDE DEF s2
    <2>5. \A i \in DOMAIN queue'[lane] : Lane(queue'[lane][i].body) = lane
        BY <2>2, <2>3, <2>4
    <2>6. Ranged(queue[lane])'
        BY <2>2, <2>3 DEF Ranged
    <2> QED
        BY <2>2, <2>3, <2>5, <2>6
<1>7. queue' \in [Lanes -> Seq(Frames)]
    BY <1>2, <1>6
<1>8. HasQueued(queue)' <=> HasQueued(queue)
    BY <1>6 DEF HasQueued
<1>9. Served'
    BY <1>5, <1>8 DEF Core, Served
<1>10. Told'
    BY DEF Told
<1>11. ackable' \in 0..Len(unacked') /\ Len(unacked') <= MaxUnacked
    BY <1>1, <1>2, Bounds
<1>12. UNCHANGED <<saturated, pumping, burst, closed, outcome, passed>>
    OBVIOUS
<1> QED
    BY <1>5, <1>6, <1>7, <1>9, <1>10, <1>11, <1>12 DEF Core

LEMMA DrainCore ==
    ASSUME Core, Drain
    PROVE  Core'
<1>1. /\ closed = "open" /\ saturated /\ saturated' = FALSE /\ pumping' = TRUE
      /\ unacked' = Rebased(unacked)
      /\ UNCHANGED <<queue, buffer, burst, ackable, paused, closed, status, outcome, passed>>
    BY DEF Drain, Idle, callers, history
<1>2. unacked' \in Seq(Ages) /\ Len(unacked') = Len(unacked)
    BY <1>1, AgedTyped DEF Core
<1>3. Served'
    BY <1>1 DEF Core, Served, HasQueued
<1>4. Told'
    BY <1>1 DEF Told
<1> QED
    BY <1>1, <1>2, <1>3, <1>4 DEF Core, Ranged

LEMMA FlushCore ==
    ASSUME Core, Flush
    PROVE  Core'
<1> DEFINE frame == Head(buffer)
<1>1. /\ closed = "open" /\ buffer /= <<>> /\ (pumping => ~CanPump)
      /\ saturated => Len(buffer) > 1
      /\ buffer' = Tail(buffer) /\ pumping' = FALSE
      /\ ackable' = IF frame.newest > ackable THEN frame.newest ELSE ackable
      /\ outcome' = [c \in Chunks |-> IF frame.body = Data(c) THEN "accepted" ELSE outcome[c]]
      /\ UNCHANGED <<queue, saturated, unacked, burst, paused, closed, status, passed>>
    BY DEF Flush, history
<1>2. /\ buffer \in Seq(Frames) /\ Ranged(buffer) /\ unacked \in Seq(Ages)
      /\ Len(unacked) \in Nat /\ Len(unacked) <= MaxUnacked /\ ackable \in 0..Len(unacked)
    BY LenProperties DEF Core
<1>3. /\ frame = buffer[1] /\ frame \in Frames /\ Tail(buffer) \in Seq(Frames)
      /\ Len(buffer) \in Nat \ {0} /\ Len(Tail(buffer)) = Len(buffer) - 1
      /\ DOMAIN buffer = 1..Len(buffer) /\ DOMAIN Tail(buffer) = 1..(Len(buffer) - 1)
      /\ \A i \in 1..(Len(buffer) - 1) : Tail(buffer)[i] = buffer[i + 1]
    BY <1>1, <1>2, TailFacts
<1>4. frame.newest \in Nat /\ frame.newest <= Len(unacked)
    <2>1. 1 \in DOMAIN buffer
        BY <1>3
    <2>2. buffer[1].newest \in Nat
        BY <1>3, Bounds DEF Frames
    <2> QED
        BY <1>2, <1>3, <2>1, <2>2 DEF Ranged
<1>5. /\ unacked' \in Seq(Ages) /\ Len(unacked') = Len(unacked)
      /\ saturated' \in BOOLEAN /\ pumping' \in BOOLEAN
    BY <1>1, <1>2 DEF Core
<1> HIDE DEF frame
<1>6. Ranged(buffer)'
    <2>1. \A i \in 1..(Len(buffer) - 1) : i + 1 \in DOMAIN buffer
        BY <1>3
    <2> QED
        BY <1>1, <1>2, <1>3, <1>5, <2>1 DEF Ranged
<1>7. \A lane \in Lanes :
          Ranged(queue[lane])' /\ \A i \in DOMAIN queue'[lane] : Lane(queue'[lane][i].body) = lane
    BY <1>1, <1>5 DEF Core, Ranged
<1>8. ackable' \in 0..Len(unacked') /\ Len(unacked') <= MaxUnacked
    BY <1>1, <1>2, <1>4, <1>5
<1>9. outcome' \in [Chunks -> Outcomes]
    BY <1>1 DEF Core, Outcomes
<1>10. Served'
    <2>1. HasQueued(queue)' <=> HasQueued(queue)
        BY <1>1 DEF HasQueued
    <2>2. saturated' => buffer' /= <<>>
        <3>1. saturated => Len(buffer') > 0
            BY <1>1, <1>3
        <3> QED
            BY <1>1, <3>1
    <2> QED
        BY <1>1, <2>1, <2>2 DEF Core, Served, CanPump
<1>11. Told'
    BY <1>1 DEF Told
<1>12. buffer' \in Seq(Frames)
    BY <1>1, <1>3
<1> QED
    BY <1>1, <1>5, <1>6, <1>7, <1>8, <1>9, <1>10, <1>11, <1>12 DEF Core

\* The frame of the relay that a handler has taken in.
LEMMA AnswerTyped ==
    ASSUME status \in [Requests -> Statuses],
           host \in [Requests -> {"none", "running", "done", "orphaned"}], Answer
    PROVE  /\ status' \in [Requests -> Statuses]
           /\ host' \in [Requests -> {"none", "running", "done", "orphaned"}]
BY DEF Answer, Statuses

LEMMA ReceiveCore ==
    ASSUME Core, Around, Receive \/ Continue
    PROVE  Core'
<1>1. /\ closed = "open" /\ passed \in Nat /\ passed <= ControlBurst
      /\ "connection_lost" \in Reasons /\ status \in Midway /\ outcome \in [Chunks -> Outcomes]
      /\ unacked \in Seq(Ages) /\ Len(unacked) \in Nat /\ ackable \in 0..Len(unacked)
    BY LenProperties DEF Receive, Continue, Idle, Core, Served, Reasons, Midway
<1>2. CASE Dispose("connection_lost", buffer, status, outcome)
    BY <1>1, <1>2, DisposeCore
<1>3. ASSUME NEW n \in 0..ackable, Acknowledge(n),
             unacked' = Remaining(n) \/ unacked' = Rebased(Remaining(n)),
             paused' \in BOOLEAN, Answer,
             UNCHANGED <<saturated, pumping, burst, closed, outcome, passed>>
      PROVE  Core'
    <2>1. n \in 0..Len(unacked)
        BY <1>1
    <2>2. Remaining(n) \in Seq(Ages) /\ Len(Remaining(n)) = Len(unacked) - n
        BY <1>1, <2>1, RemainingTyped
    <2>3. unacked' \in Seq(Ages) /\ Len(unacked') = Len(unacked) - n
        BY <1>3, <2>2, AgedTyped
    <2>4. status' \in [Requests -> Statuses]
        BY <1>3, AnswerTyped DEF Core, Around
    <2> QED
        BY <1>1, <1>3, <2>3, <2>4, AcknowledgeCore
<1>4. \/ Dispose("connection_lost", buffer, status, outcome)
      \/ /\ \E n \in 0..ackable :
               Acknowledge(n) /\ (unacked' = Remaining(n) \/ unacked' = Rebased(Remaining(n)))
         /\ paused' \in BOOLEAN /\ Answer
         /\ UNCHANGED <<saturated, pumping, burst, closed, outcome, passed>>
    BY DEF Receive, Continue
<1> QED
    BY <1>2, <1>3, <1>4

-----------------------------------------------------------------------------
(* Every action keeps the invariant.                                       *)

LEMMA AroundCall ==
    ASSUME Around, NEW p \in BOOLEAN, FailWaiter(p), silence' \in Ages, UNCHANGED link,
           wakes' \in 0..MaxWakes, reached' \subseteq Chunks
    PROVE  Around'
<1>1. probing' \in BOOLEAN /\ (probing' => closed' = "open")
    BY DEF FailWaiter
<1>2. UNCHANGED <<cut, host>>
    BY DEF link
<1> QED
    BY <1>1, <1>2 DEF Around

LEMMA InvInit == Init => ChannelInv
<1> SUFFICES ASSUME Init PROVE ChannelInv
    OBVIOUS
<1>1. /\ \A lane \in Lanes : queue[lane] = <<>>
      /\ queue \in [Lanes -> Seq(Frames)] /\ buffer = <<>> /\ unacked = <<>>
      /\ buffer \in Seq(Frames) /\ unacked \in Seq(Ages)
    BY DEF Init
<1>2. /\ saturated = FALSE /\ pumping = FALSE /\ burst = 0 /\ passed = 0 /\ ackable = 0
      /\ paused = FALSE /\ closed = "open"
    BY DEF Init
<1>3. Served
    BY <1>1, <1>2, Bounds DEF Served, HasQueued
<1>4. Told
    BY <1>2 DEF Told
<1>5. /\ Len(unacked) = 0 /\ Len(unacked) <= MaxUnacked /\ ackable \in 0..Len(unacked)
      /\ burst \in 0..ControlBurst /\ passed \in Nat
    BY <1>1, <1>2, Bounds
<1>6. status \in [Requests -> Statuses] /\ outcome \in [Chunks -> Outcomes]
    BY DEF Init, Statuses, Outcomes
<1>7. Ranged(buffer) /\ \A lane \in Lanes :
          Ranged(queue[lane]) /\ \A i \in DOMAIN queue[lane] : Lane(queue[lane][i].body) = lane
    BY <1>1 DEF Ranged
<1>8. Core
    BY <1>1, <1>2, <1>3, <1>4, <1>5, <1>6, <1>7 DEF Core
<1>9. Around
    <2>1. silence = 0 /\ wakes = 0 /\ reached = {} /\ probing = FALSE /\ cut = FALSE
        BY DEF Init
    <2>2. host \in [Requests -> {"none", "running", "done", "orphaned"}]
        BY DEF Init
    <2>3. silence \in Ages /\ wakes \in 0..MaxWakes
        BY <2>1, Bounds DEF Ages
    <2> QED
        BY <2>1, <2>2, <2>3 DEF Around
<1> QED
    BY <1>8, <1>9 DEF ChannelInv

\* A call of the application that finds the channel closed.
LEMMA ClosedCall ==
    ASSUME Core, closed /= "open",
           UNCHANGED <<writer, unacked, ackable, paused, closed, history>>,
           status' \in [Requests -> Statuses], outcome' \in [Chunks -> Outcomes],
           \A r \in Requests : status'[r] /= "pending",
           \A c \in Chunks : outcome'[c] /= "waiting"
    PROVE  Core'
<1>1. UNCHANGED <<queue, buffer, saturated, pumping, burst, unacked, ackable, paused, closed,
                  passed>>
    BY DEF writer, history
<1>2. Told'
    BY <1>1 DEF Core, Told
<1> QED
    BY <1>1, <1>2 DEF Core, Served, HasQueued, Ranged

LEMMA MakeRequestInv ==
    ASSUME ChannelInv, NEW r \in Requests, MakeRequest(r)
    PROVE  ChannelInv'
<1>1. Core /\ Around /\ ~pumping /\ reached \subseteq Chunks
    BY DEF ChannelInv, Around, MakeRequest
<1>2. status \in [Requests -> Statuses] /\ outcome \in [Chunks -> Outcomes] /\ unacked \in Seq(Ages)
    BY <1>1 DEF Core
<1>3. Core' /\ reached' \subseteq Chunks
    <2>1. CASE closed = "open"
        <3>1. Send(unacked, Request(r), [status EXCEPT ![r] = "pending"], outcome)
            BY <2>1 DEF MakeRequest
        <3>2. [status EXCEPT ![r] = "pending"] \in Midway /\ Request(r) \in Bodies
            BY <1>2, BodyFacts DEF Midway, Statuses
        <3> QED
            BY <1>1, <1>2, <2>1, <3>1, <3>2, SendCore
    <2>2. CASE closed /= "open"
        <3>1. /\ status' = [status EXCEPT ![r] = "lost"] /\ outcome' = outcome
              /\ UNCHANGED <<writer, unacked, ackable, paused, closed, history>>
            BY <2>2 DEF MakeRequest
        <3>2. status' \in [Requests -> Statuses] /\ \A q \in Requests : status'[q] /= "pending"
            BY <1>1, <1>2, <2>2, <3>1 DEF Core, Told, Statuses
        <3>3. \A c \in Chunks : outcome'[c] /= "waiting"
            BY <1>1, <2>2, <3>1 DEF Core, Told
        <3>4. reached' = reached
            BY <3>1 DEF history
        <3> QED
            BY <1>1, <1>2, <2>2, <3>1, <3>2, <3>3, <3>4, ClosedCall
    <2> QED
        BY <2>1, <2>2
<1>4. Around'
    BY <1>1, <1>3, AroundCall DEF MakeRequest, Around
<1> QED
    BY <1>3, <1>4 DEF ChannelInv

LEMMA NotifyInv ==
    ASSUME ChannelInv, NEW c \in Chunks, NotifyWithSettlement(c)
    PROVE  ChannelInv'
<1>1. Core /\ Around /\ ~pumping /\ reached \subseteq Chunks
    BY DEF ChannelInv, Around, NotifyWithSettlement
<1>2. status \in [Requests -> Statuses] /\ outcome \in [Chunks -> Outcomes] /\ unacked \in Seq(Ages)
    BY <1>1 DEF Core
<1>3. Core' /\ reached' \subseteq Chunks
    <2>1. CASE closed = "open"
        <3>1. Send(unacked, Data(c), status, [outcome EXCEPT ![c] = "waiting"])
            BY <2>1 DEF NotifyWithSettlement
        <3>2. [outcome EXCEPT ![c] = "waiting"] \in [Chunks -> Outcomes] /\ status \in Midway
              /\ Data(c) \in Bodies
            BY <1>2, BodyFacts DEF Midway, Outcomes
        <3> QED
            BY <1>1, <1>2, <2>1, <3>1, <3>2, SendCore
    <2>2. CASE closed /= "open"
        <3>1. /\ outcome' = [outcome EXCEPT ![c] = "refused"] /\ status' = status
              /\ UNCHANGED <<writer, unacked, ackable, paused, closed, history>>
            BY <2>2 DEF NotifyWithSettlement
        <3>2. outcome' \in [Chunks -> Outcomes] /\ \A d \in Chunks : outcome'[d] /= "waiting"
            BY <1>1, <1>2, <2>2, <3>1 DEF Core, Told, Outcomes
        <3>3. \A r \in Requests : status'[r] /= "pending"
            BY <1>1, <2>2, <3>1 DEF Core, Told
        <3>4. reached' = reached
            BY <3>1 DEF history
        <3> QED
            BY <1>1, <1>2, <2>2, <3>1, <3>2, <3>3, <3>4, ClosedCall
    <2> QED
        BY <2>1, <2>2
<1>4. Around'
    BY <1>1, <1>3, AroundCall DEF NotifyWithSettlement, Around
<1> QED
    BY <1>3, <1>4 DEF ChannelInv

LEMMA CancelInv ==
    ASSUME ChannelInv, NEW r \in Requests, TimeOut(r) \/ Abort(r)
    PROVE  ChannelInv'
<1>1. Core /\ Around /\ ~pumping /\ closed = "open" /\ reached \subseteq Chunks
    BY DEF ChannelInv, Around, TimeOut, Abort, Idle
<1>2. status \in [Requests -> Statuses] /\ outcome \in [Chunks -> Outcomes] /\ unacked \in Seq(Ages)
    BY <1>1 DEF Core
<1>3. Cancel(r) \in Bodies
    BY BodyFacts
<1>4. /\ [status EXCEPT ![r] = "timing_out"] \in Midway
      /\ [status EXCEPT ![r] = "abandoned"] \in Midway
    BY <1>2 DEF Midway, Statuses
<1>5. \/ Send(unacked, Cancel(r), [status EXCEPT ![r] = "timing_out"], outcome)
      \/ Send(unacked, Cancel(r), [status EXCEPT ![r] = "abandoned"], outcome)
    BY DEF TimeOut, Abort
<1>6. Core' /\ reached' \subseteq Chunks
    BY <1>1, <1>2, <1>3, <1>4, <1>5, SendCore
<1>7. Around'
    BY <1>1, <1>6, AroundCall DEF TimeOut, Abort, Around
<1> QED
    BY <1>6, <1>7 DEF ChannelInv

LEMMA KeepAliveInv ==
    ASSUME ChannelInv, Probe \/ SendReply
    PROVE  ChannelInv'
<1>1. Core /\ Around /\ ~pumping /\ closed = "open" /\ reached \subseteq Chunks
    BY DEF ChannelInv, Around, Probe, SendReply, Idle
<1>2. /\ status \in Midway /\ outcome \in [Chunks -> Outcomes] /\ unacked \in Seq(Ages)
      /\ Reply \in Bodies
    BY <1>1, BodyFacts DEF Core, Midway
<1>3. Core' /\ reached' \subseteq Chunks
    <2>1. SendKeepAlive(unacked) \/ Send(unacked, Reply, status, outcome)
        BY DEF Probe, SendReply
    <2> QED
        BY <1>1, <1>2, <2>1, SendCore, SendKeepAliveCore
<1>4. Around'
    BY <1>1, <1>3, AroundCall DEF Probe, SendReply, Around
<1> QED
    BY <1>3, <1>4 DEF ChannelInv

LEMMA TickInv ==
    ASSUME ChannelInv, NEW woke \in BOOLEAN, Tick(woke)
    PROVE  ChannelInv'
<1> DEFINE ages == IF woke THEN Rebased(unacked) ELSE Aged(unacked)
           quiet == IF woke THEN 0 ELSE Older(silence)
<1>1. Core /\ Around /\ ~pumping /\ closed = "open" /\ reached \subseteq Chunks
    BY DEF ChannelInv, Around, Tick, Idle
<1>2. unacked \in Seq(Ages) /\ silence \in Ages /\ wakes \in 0..MaxWakes
    BY <1>1 DEF Core, Around
<1>3. ages \in Seq(Ages) /\ Len(ages) = Len(unacked)
    BY <1>2, AgedTyped
<1>4. silence' \in Ages
    BY <1>2, Bounds DEF Tick, Ages, Older
<1>5. wakes' \in 0..MaxWakes
    BY <1>2, Bounds DEF Tick
<1>6. Core' /\ reached' \subseteq Chunks
    <2>1. CASE Dispose("connection_lost", buffer, status, outcome) /\ UNCHANGED reached
        <3>1. /\ passed \in Nat /\ passed <= ControlBurst /\ "connection_lost" \in Reasons
              /\ status \in Midway /\ outcome \in [Chunks -> Outcomes]
            BY <1>1 DEF Core, Served, Reasons, Midway
        <3> QED
            BY <1>1, <2>1, <3>1, DisposeCore
    <2>2. CASE SendKeepAlive(ages)
        <3> HIDE DEF ages
        <3> QED
            BY <1>1, <1>3, <2>2, SendKeepAliveCore
    <2> QED
        BY <2>1, <2>2 DEF Tick
<1>7. FailWaiter(probing) /\ UNCHANGED link /\ probing \in BOOLEAN
    BY <1>1 DEF Tick, Around
<1>8. Around'
    BY <1>1, <1>4, <1>5, <1>6, <1>7, AroundCall
<1> QED
    BY <1>6, <1>8 DEF ChannelInv

LEMMA CloseInv ==
    ASSUME ChannelInv, FlushFails \/ TransportCloses \/ Shutdown
    PROVE  ChannelInv'
<1>1. Core /\ Around
    BY DEF ChannelInv
<1>2. PICK reason \in Reasons : Close(reason)
    BY DEF FlushFails, TransportCloses, Shutdown, Reasons
<1>3. /\ passed \in Nat /\ passed <= ControlBurst
      /\ status \in Midway /\ outcome \in [Chunks -> Outcomes]
    BY <1>1 DEF Core, Served, Midway
<1>4. Core'
    BY <1>2, <1>3, DisposeCore DEF Close
<1>5. /\ FailWaiter(probing) /\ probing \in BOOLEAN /\ silence' \in Ages /\ UNCHANGED link
      /\ wakes' \in 0..MaxWakes /\ reached' \subseteq Chunks
    BY <1>1, <1>2 DEF Close, Around
<1>6. Around'
    BY <1>1, <1>5, AroundCall
<1> QED
    BY <1>4, <1>6 DEF ChannelInv

LEMMA PumpInv ==
    ASSUME ChannelInv, PumpNext
    PROVE  ChannelInv'
<1>1. Core' /\ reached' \subseteq Chunks
    BY PumpCore DEF ChannelInv, Around
<1>2. Around'
    BY <1>1, AroundCall DEF PumpNext, ChannelInv, Around
<1> QED
    BY <1>1, <1>2 DEF ChannelInv

LEMMA DrainInv ==
    ASSUME ChannelInv, Drain
    PROVE  ChannelInv'
<1>1. Core'
    BY DrainCore DEF ChannelInv
<1>2. silence' = 0 /\ UNCHANGED <<probing, closed, cut, host, reached, wakes>>
    BY DEF Drain, callers, link, history
<1>3. Around'
    BY <1>2, Bounds DEF ChannelInv, Around, Ages
<1> QED
    BY <1>1, <1>3 DEF ChannelInv

LEMMA FlushInv ==
    ASSUME ChannelInv, Flush
    PROVE  ChannelInv'
<1>1. Core'
    BY FlushCore DEF ChannelInv
<1>2. /\ UNCHANGED <<silence, probing, closed, cut, reached, wakes>>
      /\ host' = (IF cut THEN host ELSE Arrived(Head(buffer).body))
    BY DEF Flush, history
<1>3. host' \in [Requests -> {"none", "running", "done", "orphaned"}]
    BY <1>2 DEF ChannelInv, Around, Arrived
<1>4. Around'
    BY <1>2, <1>3 DEF ChannelInv, Around
<1> QED
    BY <1>1, <1>4 DEF ChannelInv

LEMMA ReceiveInv ==
    ASSUME ChannelInv, Receive \/ Continue
    PROVE  ChannelInv'
<1>1. Core'
    BY ReceiveCore DEF ChannelInv
<1>2. silence' = 0 /\ probing' = FALSE /\ UNCHANGED <<cut, reached, wakes>>
    BY DEF Receive, Continue
<1>3. Answer \/ UNCHANGED host
    BY DEF Receive, Continue
<1>4. host' \in [Requests -> {"none", "running", "done", "orphaned"}]
    BY <1>3, AnswerTyped DEF ChannelInv, Around, Core
<1>5. silence' \in Ages
    BY <1>2, Bounds DEF Ages
<1>6. Around'
    BY <1>2, <1>4, <1>5 DEF ChannelInv, Around
<1> QED
    BY <1>1, <1>6 DEF ChannelInv

\* Steps that leave the channel as it is.
LEMMA QuietInv ==
    ASSUME ChannelInv,
           UNCHANGED <<writer, clocks, paused, closed, status, outcome, host, history, wakes>>,
           cut' \in BOOLEAN, probing' = FALSE \/ probing' = probing
    PROVE  ChannelInv'
<1>1. UNCHANGED <<queue, buffer, saturated, pumping, burst, unacked, ackable, silence, paused,
                  closed, status, outcome, host, passed, reached, wakes>>
    BY DEF writer, clocks, history
<1>2. Core'
    BY <1>1 DEF ChannelInv, Core, Served, Told, HasQueued, Ranged
<1>3. Around'
    <2>1. probing' \in BOOLEAN /\ (probing' => closed' = "open")
        <3>1. probing \in BOOLEAN /\ (probing => closed = "open") /\ closed' = closed
            BY <1>1 DEF ChannelInv, Around
        <3>2. CASE probing' = FALSE
            BY <3>2
        <3>3. CASE probing' = probing
            BY <3>1, <3>3, Zenon
        <3> QED
            BY <3>2, <3>3
    <2> QED
        BY <1>1, <2>1 DEF ChannelInv, Around
<1> QED
    BY <1>2, <1>3 DEF ChannelInv

\* Every step of the channel keeps the invariant.
THEOREM InvStep == ChannelInv /\ [Next]_vars => ChannelInv'
<1> SUFFICES ASSUME ChannelInv, [Next]_vars PROVE ChannelInv'
    OBVIOUS
<1>1. CASE \E r \in Requests : MakeRequest(r) \/ TimeOut(r) \/ Abort(r)
    BY <1>1, MakeRequestInv, CancelInv
<1>2. CASE \E c \in Chunks : NotifyWithSettlement(c)
    BY <1>2, NotifyInv
<1>3. CASE \E woke \in BOOLEAN : Tick(woke)
    BY <1>3, TickInv
<1>4. CASE PumpNext
    BY <1>4, PumpInv
<1>5. CASE Probe \/ SendReply
    BY <1>5, KeepAliveInv
<1>6. CASE Drain \/ Flush
    BY <1>6, DrainInv, FlushInv
<1>7. CASE FlushFails \/ TransportCloses \/ Shutdown
    BY <1>7, CloseInv
<1>8. CASE Receive \/ Continue
    BY <1>8, ReceiveInv
<1>9. CASE ProbeTimesOut
    <2>1. /\ UNCHANGED <<writer, clocks, paused, closed, status, outcome, link, history, wakes>>
          /\ probing' = FALSE
        BY <1>9 DEF ProbeTimesOut
    <2> QED
        BY <2>1, QuietInv DEF link, ChannelInv, Around
<1>10. CASE Cut
    <2>1. /\ UNCHANGED <<writer, clocks, paused, closed, callers, host, history, wakes>>
          /\ cut' = TRUE
        BY <1>10 DEF Cut
    <2> QED
        BY <2>1, QuietInv DEF callers
<1>11. CASE UNCHANGED vars
    <2>1. UNCHANGED <<writer, clocks, paused, closed, callers, link, history, wakes>>
        BY <1>11 DEF vars
    <2> QED
        BY <2>1, QuietInv DEF callers, link, ChannelInv, Around
<1> QED
    BY <1>1, <1>2, <1>3, <1>4, <1>5, <1>6, <1>7, <1>8, <1>9, <1>10, <1>11 DEF Next

\* The invariant holds in every reachable state.
THEOREM ChannelInvariant == Spec => []ChannelInv
<1>1. ChannelInv /\ [Next]_vars => ChannelInv'
    BY InvStep
<1> QED
    BY InvInit, <1>1, PTL DEF Spec

\* Type correctness of the channel.
THEOREM ChannelTypeCorrect == Spec => []TypeOK
<1>1. ChannelInv => TypeOK
    BY DEF ChannelInv, Core, Around, TypeOK, Reasons, Statuses, Outcomes
<1> QED
    BY <1>1, ChannelInvariant, PTL

\* However a channel comes to its end (a lost link, a failed write, a full
\* lane, a shutdown, or a frame that does not parse, in the middle of
\* whatever), no request, no settled notification and no liveness probe is
\* left waiting for it.
THEOREM EverybodyIsTold == Spec => []NobodyWaitsOnAClosedChannel
<1>1. ChannelInv => NobodyWaitsOnAClosedChannel
    BY DEF ChannelInv, Core, Around, Told, NobodyWaitsOnAClosedChannel
<1> QED
    BY <1>1, ChannelInvariant, PTL

\* A frame is queued only behind writes still to be called back and while a
\* drain is awaited or handled, and a burst of control frames is bounded, so
\* that neither lane is stuck behind the other.
THEOREM WriterServesItsLanes == Spec => []QueuedFramesAreServed
<1>1. ChannelInv => QueuedFramesAreServed
    BY DEF ChannelInv, Core, Served, QueuedFramesAreServed
<1> QED
    BY <1>1, ChannelInvariant, PTL

-----------------------------------------------------------------------------
(* The verdicts on settled notifications.  Of the ordinary lane q and the  *)
(* transport's buffer b only the bodies matter.                            *)

Holds(frames, x) == \E i \in DOMAIN frames : frames[i].body = x
Once(frames, x) ==
    \A i, j \in DOMAIN frames : frames[i].body = x /\ frames[j].body = x => i = j

Verdicts(q, b, out, got) ==
    /\ \A c \in Chunks : out[c] \in {"none", "refused"} => c \notin got
    /\ \A c \in Chunks : out[c] \in {"accepted", "unverifiable"} => c \in got
    /\ \A c \in Chunks : out[c] = "waiting" /\ c \in got => Holds(b, Data(c))
    /\ \A c \in Chunks : Holds(b, Data(c)) => c \in got
    /\ \A c \in Chunks : Holds(q, Data(c)) => out[c] = "waiting" /\ c \notin got
    /\ \A c \in Chunks : Once(q, Data(c))

Honest == Verdicts(queue.ordinary, buffer, outcome, reached)

LEMMA DataApart ==
    /\ \A c, d \in Chunks : Data(c) = Data(d) => c = d
    /\ \A c \in Chunks : Lane(Data(c)) = "ordinary"
    /\ \A c \in Chunks : Data(c) /= KeepAlive /\ Data(c) /= Reply
    /\ \A c \in Chunks : \A r \in Requests : Data(c) /= Request(r) /\ Data(c) /= Cancel(r)
<1>1. \A c, d \in Chunks : Data(c) = Data(d) => c = d
    BY BodyFacts
<1>2. \A c \in Chunks : Lane(Data(c)) = "ordinary"
    BY BodyFacts DEF Lane
<1>3. \A c \in Chunks : Data(c) /= KeepAlive /\ Data(c) /= Reply
    BY BodyFacts
<1>4. \A c \in Chunks : \A r \in Requests : Data(c) /= Request(r) /\ Data(c) /= Cancel(r)
    BY BodyFacts
<1> QED
    BY <1>1, <1>2, <1>3, <1>4

LEMMA HoldsAppended ==
    ASSUME NEW s \in Seq(Frames), NEW frame \in Frames, NEW x
    PROVE  Holds(Append(s, frame), x) <=> Holds(s, x) \/ frame.body = x
<1>1. /\ DOMAIN Append(s, frame) = 1..(Len(s) + 1) /\ DOMAIN s = 1..Len(s) /\ Len(s) \in Nat
      /\ \A i \in 1..Len(s) : Append(s, frame)[i] = s[i]
      /\ Append(s, frame)[Len(s) + 1] = frame
    BY AppendFacts
<1>2. \A i \in DOMAIN Append(s, frame) : i \in 1..Len(s) \/ i = Len(s) + 1
    BY <1>1
<1>3. \A i \in 1..Len(s) : i \in DOMAIN Append(s, frame)
    BY <1>1
<1>4. Len(s) + 1 \in DOMAIN Append(s, frame)
    BY <1>1
<1>5. Holds(Append(s, frame), x) => Holds(s, x) \/ frame.body = x
    BY <1>1, <1>2 DEF Holds
<1>6. Holds(s, x) => Holds(Append(s, frame), x)
    BY <1>1, <1>3 DEF Holds
<1>7. frame.body = x => Holds(Append(s, frame), x)
    BY <1>1, <1>4 DEF Holds
<1> QED
    BY <1>5, <1>6, <1>7

LEMMA OnceAppended ==
    ASSUME NEW s \in Seq(Frames), NEW frame \in Frames, NEW x,
           Once(s, x), frame.body = x => ~Holds(s, x)
    PROVE  Once(Append(s, frame), x)
<1> DEFINE s2 == Append(s, frame)
<1>1. /\ DOMAIN s2 = 1..(Len(s) + 1) /\ DOMAIN s = 1..Len(s) /\ Len(s) \in Nat
      /\ \A i \in 1..Len(s) : s2[i] = s[i]
      /\ s2[Len(s) + 1] = frame
    BY AppendFacts
<1>2. \A i \in DOMAIN s2 : i \in DOMAIN s \/ i = Len(s) + 1
    BY <1>1
<1> HIDE DEF s2
<1>3. ASSUME NEW i \in DOMAIN s2, NEW j \in DOMAIN s2, s2[i].body = x, s2[j].body = x
      PROVE  i = j
    <2>1. CASE i \in DOMAIN s /\ j \in DOMAIN s
        BY <1>1, <1>3, <2>1 DEF Once
    <2>2. CASE i \in DOMAIN s /\ j = Len(s) + 1
        BY <1>1, <1>3, <2>2 DEF Holds
    <2>3. CASE i = Len(s) + 1 /\ j \in DOMAIN s
        BY <1>1, <1>3, <2>3 DEF Holds
    <2>4. CASE i = Len(s) + 1 /\ j = Len(s) + 1
        BY <2>4
    <2> QED
        BY <1>2, <2>1, <2>2, <2>3, <2>4
<1>4. Once(s2, x)
    BY <1>3 DEF Once
<1> QED
    BY <1>4 DEF s2

LEMMA NothingHeld == \A x : ~Holds(<<>>, x) /\ Once(<<>>, x)
BY DEF Holds, Once

LEMMA TailHolds ==
    ASSUME NEW s \in Seq(Frames), s /= <<>>, NEW x
    PROVE  /\ Holds(Tail(s), x) => Holds(s, x)
           /\ Head(s).body = x => Holds(s, x)
           /\ Holds(s, x) => Head(s).body = x \/ Holds(Tail(s), x)
           /\ Once(s, x) =>
                 /\ ~(Head(s).body = x /\ Holds(Tail(s), x))
                 /\ Once(Tail(s), x)
<1>1. /\ Head(s) = s[1] /\ Len(s) \in Nat \ {0} /\ DOMAIN s = 1..Len(s)
      /\ DOMAIN Tail(s) = 1..(Len(s) - 1)
      /\ \A i \in 1..(Len(s) - 1) : Tail(s)[i] = s[i + 1]
    BY TailFacts
<1>2. 1 \in DOMAIN s
    BY <1>1
<1>3. \A i \in DOMAIN Tail(s) : i + 1 \in DOMAIN s /\ i + 1 /= 1 /\ Tail(s)[i] = s[i + 1] /\ i \in Nat
    BY <1>1
<1>4. \A i \in DOMAIN s : i = 1 \/ (i - 1 \in DOMAIN Tail(s) /\ Tail(s)[i - 1] = s[i])
    BY <1>1
<1>5. Holds(Tail(s), x) => Holds(s, x)
    BY <1>3 DEF Holds
<1>6. Head(s).body = x => Holds(s, x)
    BY <1>1, <1>2 DEF Holds
<1>7. Holds(s, x) => Head(s).body = x \/ Holds(Tail(s), x)
    BY <1>1, <1>4 DEF Holds
<1>8. ASSUME Once(s, x)
      PROVE  ~(Head(s).body = x /\ Holds(Tail(s), x))
    BY <1>1, <1>2, <1>3, <1>8 DEF Holds, Once
<1>9. ASSUME Once(s, x),
             NEW i \in DOMAIN Tail(s), NEW j \in DOMAIN Tail(s),
             Tail(s)[i].body = x, Tail(s)[j].body = x
      PROVE  i = j
    <2>1. i + 1 = j + 1
        BY <1>3, <1>9 DEF Once
    <2> QED
        BY <1>3, <2>1
<1> QED
    BY <1>5, <1>6, <1>7, <1>8, <1>9 DEF Once

LEMMA DropHolds ==
    ASSUME NEW s \in Seq(Frames), NEW n \in Nat, NEW x
    PROVE  /\ Holds(Drop(s, n), x) <=> Holds(s, x)
           /\ Once(s, x) => Once(Drop(s, n), x)
<1>1. DOMAIN Drop(s, n) = DOMAIN s /\ \A i \in DOMAIN s : Drop(s, n)[i].body = s[i].body
    BY DropTyped, LenProperties
<1> QED
    BY <1>1 DEF Holds, Once

\* The end of the channel: got is what the writer had handed over before
\* the step.
LEMMA DisposeHonest ==
    ASSUME NEW q, NEW b, NEW got, NEW out \in [Chunks -> Outcomes],
           Verdicts(q, b, out, got),
           NEW reason, NEW handed, NEW st, Dispose(reason, handed, st, out),
           \A c \in Chunks : out[c] /= "waiting" => (c \in reached' <=> c \in got),
           \A c \in Chunks : out[c] = "waiting" => (c \in reached' <=> Holds(handed, Data(c)))
    PROVE  Honest'
<1>1. queue'.ordinary = <<>> /\ buffer' = <<>>
    BY DEF Dispose, Lanes
<1>2. ASSUME NEW c \in Chunks
      PROVE  /\ out[c] /= "waiting" => outcome'[c] = out[c]
             /\ out[c] = "waiting" => outcome'[c] = IF Holds(handed, Data(c)) THEN "unverifiable" ELSE "refused"
    BY <1>2 DEF Dispose, Release, Holds
<1>3. ASSUME NEW c \in Chunks
      PROVE  /\ outcome'[c] \in {"none", "refused"} => c \notin reached'
             /\ outcome'[c] \in {"accepted", "unverifiable"} => c \in reached'
             /\ outcome'[c] /= "waiting"
    <2>1. CASE out[c] = "waiting"
        BY <1>2, <2>1
    <2>2. CASE out[c] /= "waiting"
        BY <1>2, <2>2 DEF Verdicts
    <2> QED
        BY <2>1, <2>2
<1>4. Verdicts(<<>>, <<>>, outcome', reached')
    BY <1>3, NothingHeld DEF Verdicts
<1> QED
    BY <1>1, <1>4 DEF Honest

\* A frame of the lane q that is written: rest is what remains in the lane.
LEMMA WrittenHonest ==
    ASSUME NEW q, NEW rest, NEW b \in Seq(Frames), NEW out, NEW got, NEW frame \in Frames,
           Verdicts(q, b, out, got),
           \A c \in Chunks : frame.body = Data(c) =>
               out[c] = "waiting" /\ c \notin got /\ ~Holds(rest, Data(c)),
           \A c \in Chunks : Holds(rest, Data(c)) => Holds(q, Data(c)),
           \A c \in Chunks : Once(rest, Data(c))
    PROVE  Verdicts(rest, Append(b, frame), out, got \cup {c \in Chunks : frame.body = Data(c)})
<1> DEFINE got2 == got \cup {c \in Chunks : frame.body = Data(c)}
           b2 == Append(b, frame)
<1>1. \A c \in Chunks : Holds(b2, Data(c)) <=> Holds(b, Data(c)) \/ frame.body = Data(c)
    BY HoldsAppended
<1>2. \A c \in Chunks : c \in got2 <=> c \in got \/ frame.body = Data(c)
    OBVIOUS
<1> HIDE DEF got2, b2
<1>3. \A c \in Chunks : out[c] \in {"none", "refused"} => c \notin got2
    BY <1>2 DEF Verdicts
<1>4. \A c \in Chunks : out[c] \in {"accepted", "unverifiable"} => c \in got2
    BY <1>2 DEF Verdicts
<1>5. \A c \in Chunks : out[c] = "waiting" /\ c \in got2 => Holds(b2, Data(c))
    BY <1>1, <1>2 DEF Verdicts
<1>6. \A c \in Chunks : Holds(b2, Data(c)) => c \in got2
    BY <1>1, <1>2 DEF Verdicts
<1>7. \A c \in Chunks : Holds(rest, Data(c)) => out[c] = "waiting" /\ c \notin got2
    BY <1>2 DEF Verdicts
<1>8. Verdicts(rest, b2, out, got2)
    BY <1>3, <1>4, <1>5, <1>6, <1>7 DEF Verdicts
<1> QED
    BY <1>8 DEF got2, b2

\* A frame that is appended to the lane q.
LEMMA AppendedHonest ==
    ASSUME NEW q \in Seq(Frames), NEW b, NEW out, NEW got, NEW frame \in Frames,
           Verdicts(q, b, out, got),
           \A c \in Chunks : frame.body = Data(c) =>
               out[c] = "waiting" /\ c \notin got /\ ~Holds(q, Data(c))
    PROVE  Verdicts(Append(q, frame), b, out, got)
<1> DEFINE q2 == Append(q, frame)
<1>1. \A c \in Chunks : Holds(q2, Data(c)) <=> Holds(q, Data(c)) \/ frame.body = Data(c)
    BY HoldsAppended
<1>2. \A c \in Chunks : Once(q2, Data(c))
    BY OnceAppended DEF Verdicts
<1> HIDE DEF q2
<1>3. \A c \in Chunks : Holds(q2, Data(c)) => out[c] = "waiting" /\ c \notin got
    BY <1>1 DEF Verdicts
<1>4. Verdicts(q2, b, out, got)
    BY <1>2, <1>3 DEF Verdicts
<1> QED
    BY <1>4 DEF q2

LEMMA FrameTyped ==
    ASSUME Core, NEW ages \in Seq(Ages), Len(ages) = Len(unacked), NEW body \in Bodies
    PROVE  [body |-> body, newest |-> Len(Track(ages, body))] \in Frames
<1>1. Len(unacked) \in Nat /\ Len(unacked) <= MaxUnacked
    BY LenProperties DEF Core
<1>2. Len(Track(ages, body)) \in 0..MaxUnacked
    BY <1>1, TrackTyped, Bounds
<1> QED
    BY <1>2 DEF Frames

LEMMA SendHonest ==
    ASSUME Core, closed = "open",
           NEW ages \in Seq(Ages), Len(ages) = Len(unacked), NEW body \in Bodies,
           NEW st \in Midway, NEW out \in [Chunks -> Outcomes],
           Verdicts(queue.ordinary, buffer, out, reached),
           \A c \in Chunks : body = Data(c) =>
               out[c] = "waiting" /\ c \notin reached /\ ~Holds(queue.ordinary, Data(c)),
           Send(ages, body, st, out)
    PROVE  Honest'
<1> DEFINE frame == [body |-> body, newest |-> Len(Track(ages, body))]
           got2 == reached \cup {c \in Chunks : body = Data(c)}
<1>1. /\ frame \in Frames /\ frame.body = body
      /\ queue \in [Lanes -> Seq(Frames)] /\ queue.ordinary \in Seq(Frames)
      /\ buffer \in Seq(Frames) /\ "ordinary" \in Lanes
    BY FrameTyped DEF Core, Lanes
<1>2. \A c \in Chunks : out[c] = "waiting" => (c \in reached <=> Holds(buffer, Data(c)))
    BY DEF Verdicts
<1>3. CASE Refused(st, out)
    <2>1. Dispose("connection_lost", buffer, st, out) /\ reached' = reached
        BY <1>3 DEF Refused
    <2> QED
        BY <1>2, <2>1, DisposeHonest
<1>4. CASE Broken(ages, body, st, out)
    <2>1. \A c \in Chunks : out[c] /= "waiting" => (c \in got2 <=> c \in reached)
        OBVIOUS
    <2>2. \A c \in Chunks : out[c] = "waiting" => (c \in got2 <=> Holds(Append(buffer, frame), Data(c)))
        BY <1>1, <1>2, HoldsAppended
    <2>3. Dispose("connection_lost", Append(buffer, frame), st, out) /\ reached' = got2
        BY <1>4 DEF Broken
    <2>4. /\ \A c \in Chunks : out[c] /= "waiting" => (c \in reached' <=> c \in reached)
          /\ \A c \in Chunks : out[c] = "waiting" => (c \in reached' <=> Holds(Append(buffer, frame), Data(c)))
        BY <2>1, <2>2, <2>3
    <2> HIDE DEF got2, frame
    <2> QED
        BY <2>3, <2>4, DisposeHonest
<1>5. CASE Queued(ages, body, st, out)
    <2>1. /\ queue' = [queue EXCEPT ![Lane(body)] = Append(@, frame)] /\ Lane(body) \in Lanes
          /\ buffer' = buffer /\ outcome' = out /\ reached' = reached
        BY <1>5 DEF Queued, history
    <2>2. CASE Lane(body) = "ordinary"
        <3>1. queue'.ordinary = Append(queue.ordinary, frame)
            BY <1>1, <2>1, <2>2
        <3>2. Verdicts(Append(queue.ordinary, frame), buffer, out, reached)
            BY <1>1, AppendedHonest
        <3> QED
            BY <2>1, <3>1, <3>2 DEF Honest
    <2>3. CASE Lane(body) /= "ordinary"
        <3>1. queue'.ordinary = queue.ordinary
            BY <1>1, <2>1, <2>3
        <3> QED
            BY <2>1, <3>1 DEF Honest
    <2> QED
        BY <2>2, <2>3
<1>6. CASE Handed(ages, body, st, out)
    <2>1. /\ buffer' = Append(buffer, frame) /\ outcome' = out /\ queue' = queue
          /\ reached' = got2
        BY <1>6 DEF Handed, Written
    <2> DEFINE rest == queue.ordinary
    <2>2. /\ \A c \in Chunks : Once(rest, Data(c))
          /\ \A c \in Chunks : Holds(rest, Data(c)) => Holds(queue.ordinary, Data(c))
          /\ \A c \in Chunks : frame.body = Data(c) =>
                out[c] = "waiting" /\ c \notin reached /\ ~Holds(rest, Data(c))
        BY <1>1 DEF Verdicts
    <2>3. got2 = reached \cup {c \in Chunks : frame.body = Data(c)}
        BY <1>1
    <2>4. queue'.ordinary = rest
        BY <2>1
    <2> HIDE DEF got2, frame, rest
    <2>5. Verdicts(rest, Append(buffer, frame), out,
                   reached \cup {c \in Chunks : frame.body = Data(c)})
        BY <1>1, <2>2, WrittenHonest
    <2> QED
        BY <2>1, <2>3, <2>4, <2>5 DEF Honest
<1> QED
    BY <1>3, <1>4, <1>5, <1>6, SendCases

LEMMA SendKeepAliveHonest ==
    ASSUME Core, Honest, closed = "open",
           NEW ages \in Seq(Ages), Len(ages) = Len(unacked), SendKeepAlive(ages)
    PROVE  Honest'
<1>1. CASE Send(ages, KeepAlive, status, outcome)
    <2>1. status \in Midway /\ outcome \in [Chunks -> Outcomes] /\ KeepAlive \in Bodies
        BY BodyFacts DEF Core, Midway
    <2> QED
        BY <1>1, <2>1, DataApart, SendHonest DEF Honest
<1>2. CASE UNCHANGED <<writer, ackable, paused, closed, status, outcome, history>>
    BY <1>2 DEF writer, history, Honest
<1> QED
    BY <1>1, <1>2 DEF SendKeepAlive

LEMMA PumpHonest ==
    ASSUME Core, Honest, PumpNext
    PROVE  Honest'
<1> DEFINE rest == [queue EXCEPT ![Select] = Tail(@)]
           frame == Head(queue[Select])
           waiting == rest.ordinary /= <<>>
<1>1. /\ pumping /\ CanPump /\ Write(frame, waiting, status, outcome)
      /\ closed' = "open" => queue' = rest
      /\ reached' = reached \cup {c \in Chunks : frame.body = Data(c)}
    BY DEF PumpNext, Write
<1>2. /\ closed = "open" /\ Select \in Lanes /\ queue[Select] \in Seq(Frames)
      /\ queue[Select] /= <<>> /\ queue.ordinary \in Seq(Frames)
      /\ buffer \in Seq(Frames) /\ outcome \in [Chunks -> Outcomes]
      /\ queue \in [Lanes -> Seq(Frames)]
    BY <1>1, Selected DEF Core, Lanes
<1>3. frame \in Frames /\ Lane(frame.body) = Select
    BY <1>1, RestTyped
<1>4. Verdicts(queue.ordinary, buffer, outcome, reached)
    BY DEF Honest
<1>5. /\ \A c \in Chunks : frame.body = Data(c) =>
            outcome[c] = "waiting" /\ c \notin reached /\ ~Holds(rest.ordinary, Data(c))
      /\ \A c \in Chunks : Holds(rest.ordinary, Data(c)) => Holds(queue.ordinary, Data(c))
      /\ \A c \in Chunks : Once(rest.ordinary, Data(c))
    <2>1. CASE Select = "ordinary"
        <3>1. rest.ordinary = Tail(queue.ordinary) /\ frame = Head(queue.ordinary)
            BY <1>2, <2>1
        <3>2. queue.ordinary /= <<>>
            BY <1>2, <2>1
        <3>3. \A c \in Chunks : Once(queue.ordinary, Data(c))
            BY <1>4 DEF Verdicts
        <3> HIDE DEF rest, frame
        <3>4. ASSUME NEW c \in Chunks
              PROVE  /\ Holds(rest.ordinary, Data(c)) => Holds(queue.ordinary, Data(c))
                     /\ frame.body = Data(c) => Holds(queue.ordinary, Data(c))
                     /\ ~(frame.body = Data(c) /\ Holds(rest.ordinary, Data(c)))
                     /\ Once(rest.ordinary, Data(c))
            BY <1>2, <3>1, <3>2, <3>3, TailHolds
        <3>5. \A c \in Chunks : Holds(queue.ordinary, Data(c)) => outcome[c] = "waiting" /\ c \notin reached
            BY <1>4 DEF Verdicts
        <3> QED
            BY <3>4, <3>5
    <2>2. CASE Select /= "ordinary"
        <3>1. rest.ordinary = queue.ordinary
            BY <1>2, <2>2
        <3>2. \A c \in Chunks : frame.body /= Data(c)
            BY <1>3, <2>2, DataApart
        <3> HIDE DEF rest, frame
        <3> QED
            BY <1>4, <3>1, <3>2 DEF Verdicts
    <2> QED
        BY <2>1, <2>2
<1> HIDE DEF rest, frame, waiting
<1>6. CASE Dispose("connection_lost", Append(buffer, frame), status, outcome)
    <2>1. \A c \in Chunks : Holds(Append(buffer, frame), Data(c)) <=> Holds(buffer, Data(c)) \/ frame.body = Data(c)
        BY <1>2, <1>3, HoldsAppended
    <2>2. /\ \A c \in Chunks : outcome[c] /= "waiting" => (c \in reached' <=> c \in reached)
          /\ \A c \in Chunks : outcome[c] = "waiting" =>
                (c \in reached' <=> Holds(Append(buffer, frame), Data(c)))
        BY <1>1, <1>4, <1>5, <2>1 DEF Verdicts
    <2> QED
        BY <1>2, <1>4, <1>6, <2>2, DisposeHonest
<1>7. CASE Written(frame, waiting, status, outcome)
    <2>1. buffer' = Append(buffer, frame) /\ outcome' = outcome /\ queue' = rest
        BY <1>1, <1>2, <1>7 DEF Written
    <2>2. Verdicts(rest.ordinary, Append(buffer, frame), outcome,
                   reached \cup {c \in Chunks : frame.body = Data(c)})
        BY <1>2, <1>3, <1>4, <1>5, WrittenHonest
    <2> QED
        BY <1>1, <2>1, <2>2 DEF Honest
<1>8. waiting \in BOOLEAN
    BY DEF waiting
<1> QED
    BY <1>1, <1>2, <1>6, <1>7, <1>8, WriteFacts

LEMMA FlushHonest ==
    ASSUME Core, Honest, Flush
    PROVE  Honest'
<1> DEFINE frame == Head(buffer)
           out == [c \in Chunks |-> IF frame.body = Data(c) THEN "accepted" ELSE outcome[c]]
<1>1. /\ buffer /= <<>> /\ buffer' = Tail(buffer) /\ outcome' = out
      /\ queue' = queue /\ reached' = reached /\ buffer \in Seq(Frames)
    BY DEF Flush, Core, history
<1>2. \A c \in Chunks :
        /\ Holds(Tail(buffer), Data(c)) => Holds(buffer, Data(c))
        /\ frame.body = Data(c) => Holds(buffer, Data(c))
        /\ Holds(buffer, Data(c)) => frame.body = Data(c) \/ Holds(Tail(buffer), Data(c))
    BY <1>1, TailHolds
<1>3. \A c \in Chunks : out[c] = IF frame.body = Data(c) THEN "accepted" ELSE outcome[c]
    OBVIOUS
<1>4. Verdicts(queue.ordinary, buffer, outcome, reached)
    BY DEF Honest
<1> HIDE DEF frame, out
<1>5. \A c \in Chunks : Holds(queue.ordinary, Data(c)) => frame.body /= Data(c)
    BY <1>2, <1>4 DEF Verdicts
<1>6. Verdicts(queue.ordinary, Tail(buffer), out, reached)
    BY <1>2, <1>3, <1>4, <1>5 DEF Verdicts
<1> QED
    BY <1>1, <1>6 DEF Honest

LEMMA ReceiveHonest ==
    ASSUME Core, Honest, Receive \/ Continue
    PROVE  Honest'
<1>1. /\ reached' = reached /\ outcome \in [Chunks -> Outcomes]
      /\ Verdicts(queue.ordinary, buffer, outcome, reached)
      /\ buffer \in Seq(Frames) /\ queue.ordinary \in Seq(Frames) /\ "ordinary" \in Lanes
    BY DEF Receive, Continue, Honest, Core, Lanes
<1>2. CASE Dispose("connection_lost", buffer, status, outcome)
    <2>1. /\ \A c \in Chunks : outcome[c] /= "waiting" => (c \in reached' <=> c \in reached)
          /\ \A c \in Chunks : outcome[c] = "waiting" => (c \in reached' <=> Holds(buffer, Data(c)))
        BY <1>1 DEF Verdicts
    <2> QED
        BY <1>1, <1>2, <2>1, DisposeHonest
<1>3. ASSUME NEW n \in 0..ackable, Acknowledge(n), outcome' = outcome
      PROVE  Honest'
    <2>1. n \in Nat
        BY LenProperties DEF Core
    <2>2. queue'.ordinary = Drop(queue.ordinary, n) /\ buffer' = Drop(buffer, n)
        BY <1>1, <1>3 DEF Acknowledge
    <2>3. \A c \in Chunks :
              /\ Holds(Drop(buffer, n), Data(c)) <=> Holds(buffer, Data(c))
              /\ Holds(Drop(queue.ordinary, n), Data(c)) <=> Holds(queue.ordinary, Data(c))
              /\ Once(queue.ordinary, Data(c)) => Once(Drop(queue.ordinary, n), Data(c))
        BY <1>1, <2>1, DropHolds
    <2>4. Verdicts(Drop(queue.ordinary, n), Drop(buffer, n), outcome, reached)
        BY <1>1, <2>3 DEF Verdicts
    <2> QED
        BY <1>1, <1>3, <2>2, <2>4 DEF Honest
<1> QED
    BY <1>2, <1>3 DEF Receive, Continue

LEMMA CloseHonest ==
    ASSUME Core, Honest, NEW reason, Dispose(reason, buffer, status, outcome), reached' = reached
    PROVE  Honest'
<1>1. Verdicts(queue.ordinary, buffer, outcome, reached) /\ outcome \in [Chunks -> Outcomes]
    BY DEF Honest, Core
<1>2. /\ \A c \in Chunks : outcome[c] /= "waiting" => (c \in reached' <=> c \in reached)
      /\ \A c \in Chunks : outcome[c] = "waiting" => (c \in reached' <=> Holds(buffer, Data(c)))
    BY <1>1 DEF Verdicts
<1> QED
    BY <1>1, <1>2, DisposeHonest

LEMMA SameHonest ==
    ASSUME Honest, UNCHANGED <<queue, buffer, outcome, reached>>
    PROVE  Honest'
BY DEF Honest

LEMMA CallHonest ==
    ASSUME Core, Honest,
           NEW r \in Requests, MakeRequest(r) \/ TimeOut(r) \/ Abort(r)
    PROVE  Honest'
<1>1. /\ status \in [Requests -> Statuses] /\ outcome \in [Chunks -> Outcomes]
      /\ unacked \in Seq(Ages) /\ Verdicts(queue.ordinary, buffer, outcome, reached)
    BY DEF Core, Honest
<1>2. Request(r) \in Bodies /\ Cancel(r) \in Bodies
    BY BodyFacts
<1>3. /\ [status EXCEPT ![r] = "pending"] \in Midway
      /\ [status EXCEPT ![r] = "timing_out"] \in Midway
      /\ [status EXCEPT ![r] = "abandoned"] \in Midway
    BY <1>1 DEF Midway, Statuses
<1>4. CASE closed = "open"
    <2>1. \/ Send(unacked, Request(r), [status EXCEPT ![r] = "pending"], outcome)
          \/ Send(unacked, Cancel(r), [status EXCEPT ![r] = "timing_out"], outcome)
          \/ Send(unacked, Cancel(r), [status EXCEPT ![r] = "abandoned"], outcome)
        BY <1>4 DEF MakeRequest, TimeOut, Abort
    <2>2. \A c \in Chunks : Request(r) /= Data(c) /\ Cancel(r) /= Data(c)
        BY DataApart
    <2> QED
        BY <1>1, <1>2, <1>3, <1>4, <2>1, <2>2, SendHonest
<1>5. CASE closed /= "open"
    <2>1. UNCHANGED <<writer, outcome, history>>
        BY <1>5 DEF MakeRequest, TimeOut, Abort, Idle
    <2> QED
        BY <2>1, SameHonest DEF writer, history
<1> QED
    BY <1>4, <1>5

LEMMA NotifyHonest ==
    ASSUME Core, Honest, NEW c \in Chunks, NotifyWithSettlement(c)
    PROVE  Honest'
<1> DEFINE out == [outcome EXCEPT ![c] = "waiting"]
           no == [outcome EXCEPT ![c] = "refused"]
<1>1. /\ outcome \in [Chunks -> Outcomes] /\ unacked \in Seq(Ages) /\ status \in Midway
      /\ Verdicts(queue.ordinary, buffer, outcome, reached) /\ outcome[c] = "none"
    BY DEF Core, Honest, NotifyWithSettlement, Midway
<1>2. c \notin reached /\ ~Holds(queue.ordinary, Data(c))
    BY <1>1 DEF Verdicts
<1>3. /\ \A d \in Chunks : out[d] = IF d = c THEN "waiting" ELSE outcome[d]
      /\ \A d \in Chunks : no[d] = IF d = c THEN "refused" ELSE outcome[d]
      /\ out \in [Chunks -> Outcomes]
    BY <1>1 DEF Outcomes
<1>4. Data(c) \in Bodies /\ \A d \in Chunks : Data(c) = Data(d) => c = d
    BY BodyFacts, DataApart
<1>5. CASE closed = "open"
    <2>1. Send(unacked, Data(c), status, out)
        BY <1>5 DEF NotifyWithSettlement
    <2> HIDE DEF out, no
    <2>2. Verdicts(queue.ordinary, buffer, out, reached)
        BY <1>1, <1>2, <1>3 DEF Verdicts
    <2>3. \A d \in Chunks : Data(c) = Data(d) =>
              out[d] = "waiting" /\ d \notin reached /\ ~Holds(queue.ordinary, Data(d))
        BY <1>2, <1>3, <1>4
    <2> QED
        BY <1>1, <1>3, <1>4, <1>5, <2>1, <2>2, <2>3, SendHonest
<1>6. CASE closed /= "open"
    <2>1. outcome' = no /\ UNCHANGED <<queue, buffer, reached>>
        BY <1>6 DEF NotifyWithSettlement, writer, history
    <2> HIDE DEF out, no
    <2>2. Verdicts(queue.ordinary, buffer, no, reached)
        BY <1>1, <1>2, <1>3 DEF Verdicts
    <2> QED
        BY <2>1, <2>2 DEF Honest
<1> QED
    BY <1>5, <1>6

LEMMA TimerHonest ==
    ASSUME Core, Honest,
           Probe \/ SendReply \/ (\E woke \in BOOLEAN : Tick(woke))
    PROVE  Honest'
<1>1. /\ status \in Midway /\ outcome \in [Chunks -> Outcomes] /\ unacked \in Seq(Ages)
      /\ Reply \in Bodies /\ Verdicts(queue.ordinary, buffer, outcome, reached)
    BY BodyFacts DEF Core, Midway, Honest
<1>2. closed = "open"
    BY DEF Probe, SendReply, Tick, Idle
<1>3. CASE Probe
    BY <1>1, <1>2, <1>3, SendKeepAliveHonest DEF Probe
<1>4. CASE SendReply
    <2>1. Send(unacked, Reply, status, outcome)
        BY <1>4 DEF SendReply
    <2>2. \A c \in Chunks : Reply /= Data(c)
        BY DataApart
    <2> QED
        BY <1>1, <1>2, <2>1, <2>2, SendHonest
<1>5. ASSUME NEW woke \in BOOLEAN, Tick(woke) PROVE Honest'
    <2> DEFINE ages == IF woke THEN Rebased(unacked) ELSE Aged(unacked)
    <2>1. ages \in Seq(Ages) /\ Len(ages) = Len(unacked)
        BY <1>1, AgedTyped
    <2>2. \/ SendKeepAlive(ages)
          \/ Dispose("connection_lost", buffer, status, outcome) /\ reached' = reached
        BY <1>5 DEF Tick
    <2> HIDE DEF ages
    <2> QED
        BY <1>2, <2>1, <2>2, SendKeepAliveHonest, CloseHonest
<1> QED
    BY <1>3, <1>4, <1>5

LEMMA HonestInit == Init => Honest
<1> SUFFICES ASSUME Init PROVE Honest
    OBVIOUS
<1>1. /\ queue.ordinary = <<>> /\ buffer = <<>> /\ reached = {}
      /\ \A c \in Chunks : outcome[c] = "none"
    BY DEF Init, Lanes
<1> QED
    BY <1>1, NothingHeld DEF Honest, Verdicts

\* Every step keeps verdicts, buffer and ordinary lane in agreement.
THEOREM HonestStep == ChannelInv /\ Honest /\ [Next]_vars => Honest'
<1> SUFFICES ASSUME ChannelInv, Honest, [Next]_vars PROVE Honest'
    OBVIOUS
<1> USE DEF ChannelInv
<1>1. CASE \E r \in Requests : MakeRequest(r) \/ TimeOut(r) \/ Abort(r)
    BY <1>1, CallHonest
<1>2. CASE \E c \in Chunks : NotifyWithSettlement(c)
    BY <1>2, NotifyHonest
<1>3. CASE Probe \/ SendReply \/ (\E woke \in BOOLEAN : Tick(woke))
    BY <1>3, TimerHonest
<1>4. CASE PumpNext
    BY <1>4, PumpHonest
<1>5. CASE Flush
    BY <1>5, FlushHonest
<1>6. CASE FlushFails \/ TransportCloses \/ Shutdown
    BY <1>6, CloseHonest DEF FlushFails, TransportCloses, Shutdown, Close
<1>7. CASE Receive \/ Continue
    BY <1>7, ReceiveHonest
<1>8. CASE Drain \/ ProbeTimesOut \/ Cut \/ UNCHANGED vars
    <2>1. UNCHANGED <<queue, buffer, outcome, reached>>
        BY <1>8 DEF Drain, ProbeTimesOut, Cut, vars, callers, writer, history
    <2> QED
        BY <2>1, SameHonest
<1> QED
    BY <1>1, <1>2, <1>3, <1>4, <1>5, <1>6, <1>7, <1>8 DEF Next

\* A caller that is told its chunk was refused may send it again on another
\* channel: no byte of it was handed to the transport.  One that is told it
\* was accepted, or that nobody knows, must not: the bytes may be there.
THEOREM VerdictsAreHonest == Spec => []SettlesHonestly
<1>1. Honest => SettlesHonestly
    BY DEF Honest, Verdicts, SettlesHonestly
<1>2. ChannelInv /\ Honest /\ [Next]_vars => Honest'
    BY HonestStep
<1> QED
    BY <1>1, <1>2, HonestInit, ChannelInvariant, PTL DEF Spec

-----------------------------------------------------------------------------
(* A request and the rpc.cancel that follows it, through the control lane  *)
(* q and the transport's buffer b.                                         *)

\* In frames, every y comes after an x.
Leads(frames, x, y) ==
    \A i \in DOMAIN frames : frames[i].body = y =>
        \E j \in DOMAIN frames : j < i /\ frames[j].body = x

\* s is what the caller of r knows, h what the relay does for it, and dead
\* says that nothing arrives any more.
Line(r, q, b, s, h, dead) ==
    /\ Holds(b, Request(r)) \/ Holds(q, Request(r)) => h = "none" /\ s /= "new"
    /\ Once(b, Request(r)) /\ Once(q, Request(r))
    /\ ~(Holds(b, Request(r)) /\ Holds(q, Request(r)))
    /\ s = "new" => h = "none"
    /\ s /= "new" /\ h = "none" /\ ~dead => Holds(b, Request(r)) \/ Holds(q, Request(r))
    /\ h = "none" /\ ~dead => Leads(b, Request(r), Cancel(r))
    /\ h = "none" /\ ~dead => Holds(b, Request(r)) \/ Leads(q, Request(r), Cancel(r))
    /\ s = "abandoned" /\ h \in {"none", "running"} /\ ~dead =>
          Holds(b, Cancel(r)) \/ Holds(q, Cancel(r))

Stoppable ==
    \A r \in Requests :
        /\ host[r] /= "orphaned"
        /\ closed = "open" => Line(r, queue.control, buffer, status[r], host[r], cut)

LEMMA RequestApart ==
    /\ \A r, t \in Requests : Request(r) /= Cancel(t)
    /\ \A r, t \in Requests : Request(r) = Request(t) => r = t
    /\ \A r, t \in Requests : Cancel(r) = Cancel(t) => r = t
    /\ \A r \in Requests : Request(r) \notin {KeepAlive, Reply} /\ Cancel(r) \notin {KeepAlive, Reply}
    /\ \A r \in Requests : Lane(Request(r)) = "control" /\ Lane(Cancel(r)) = "control"
<1>1. \A r, t \in Requests : Request(r) /= Cancel(t)
    BY BodyFacts
<1>2. \A r, t \in Requests : Request(r) = Request(t) => r = t
    BY BodyFacts
<1>3. \A r, t \in Requests : Cancel(r) = Cancel(t) => r = t
    BY BodyFacts
<1>4. \A r \in Requests : Request(r) \notin {KeepAlive, Reply} /\ Cancel(r) \notin {KeepAlive, Reply}
    BY BodyFacts
<1>5. \A r \in Requests : Lane(Request(r)) = "control" /\ Lane(Cancel(r)) = "control"
    BY <1>4, BodyFacts DEF Lane
<1> QED
    BY <1>1, <1>2, <1>3, <1>4, <1>5

LEMMA LeadsAppended ==
    ASSUME NEW s \in Seq(Frames), NEW frame \in Frames, NEW x, NEW y,
           Leads(s, x, y), frame.body = y => Holds(s, x)
    PROVE  Leads(Append(s, frame), x, y)
<1> DEFINE s2 == Append(s, frame)
<1>1. /\ DOMAIN s2 = 1..(Len(s) + 1) /\ DOMAIN s = 1..Len(s) /\ Len(s) \in Nat
      /\ \A i \in 1..Len(s) : s2[i] = s[i]
      /\ s2[Len(s) + 1] = frame
    BY AppendFacts
<1>2. \A i \in DOMAIN s2 : i \in DOMAIN s \/ i = Len(s) + 1
    BY <1>1
<1>3. \A i \in DOMAIN s : i \in DOMAIN s2 /\ i < Len(s) + 1
    BY <1>1
<1> HIDE DEF s2
<1>4. ASSUME NEW i \in DOMAIN s2, s2[i].body = y
      PROVE  \E j \in DOMAIN s2 : j < i /\ s2[j].body = x
    <2>1. CASE i \in DOMAIN s
        BY <1>1, <1>3, <1>4, <2>1 DEF Leads
    <2>2. CASE i = Len(s) + 1
        BY <1>1, <1>3, <1>4, <2>2 DEF Holds
    <2> QED
        BY <1>2, <2>1, <2>2
<1>5. Leads(s2, x, y)
    BY <1>4 DEF Leads
<1> QED
    BY <1>5 DEF s2

LEMMA LeadsTail ==
    ASSUME NEW s \in Seq(Frames), s /= <<>>, NEW x, NEW y, Leads(s, x, y)
    PROVE  /\ Head(s).body /= y
           /\ Head(s).body /= x => Leads(Tail(s), x, y)
<1>1. /\ Head(s) = s[1] /\ Len(s) \in Nat \ {0} /\ DOMAIN s = 1..Len(s)
      /\ DOMAIN Tail(s) = 1..(Len(s) - 1)
      /\ \A i \in 1..(Len(s) - 1) : Tail(s)[i] = s[i + 1]
    BY TailFacts
<1>2. 1 \in DOMAIN s /\ \A j \in DOMAIN s : ~(j < 1)
    BY <1>1
<1>3. Head(s).body /= y
    BY <1>1, <1>2 DEF Leads
<1>4. ASSUME Head(s).body /= x, NEW i \in DOMAIN Tail(s), Tail(s)[i].body = y
      PROVE  \E j \in DOMAIN Tail(s) : j < i /\ Tail(s)[j].body = x
    <2>1. i + 1 \in DOMAIN s /\ s[i + 1].body = y /\ i \in Nat
        BY <1>1, <1>4
    <2>2. PICK j \in DOMAIN s : j < i + 1 /\ s[j].body = x
        BY <2>1 DEF Leads
    <2>3. j /= 1
        BY <1>1, <1>4, <2>2
    <2>4. j - 1 \in DOMAIN Tail(s) /\ j - 1 < i /\ Tail(s)[j - 1] = s[j]
        BY <1>1, <2>1, <2>2, <2>3
    <2> QED
        BY <2>2, <2>4
<1> QED
    BY <1>3, <1>4 DEF Leads

LEMMA DropLeads ==
    ASSUME NEW s \in Seq(Frames), NEW n \in Nat, NEW x, NEW y, Leads(s, x, y)
    PROVE  Leads(Drop(s, n), x, y)
<1>1. DOMAIN Drop(s, n) = DOMAIN s /\ \A i \in DOMAIN s : Drop(s, n)[i].body = s[i].body
    BY DropTyped, LenProperties
<1> QED
    BY <1>1 DEF Leads

LEMMA NothingLed == \A x, y : Leads(<<>>, x, y)
BY DEF Leads

\* What a send makes of the request r: nothing, its request or its cancel.
Means(r, body, s, s2) ==
    \/ body = Request(r) /\ s = "new" /\ s2 = "pending"
    \/ body = Cancel(r) /\ s = "pending" /\ s2 = "abandoned"
    \/ body /= Request(r) /\ body /= Cancel(r) /\ s2 = s

LEMMA QueuedLine ==
    ASSUME NEW r \in Requests, NEW q \in Seq(Frames), NEW b, NEW frame \in Frames,
           NEW s, NEW s2, NEW h, NEW dead,
           Line(r, q, b, s, h, dead), Means(r, frame.body, s, s2)
    PROVE  Line(r, Append(q, frame), b, s2, h, dead)
<1> DEFINE q2 == Append(q, frame)
           req == Request(r)
           can == Cancel(r)
<1>1. \A x : Holds(q2, x) <=> Holds(q, x) \/ frame.body = x
    BY HoldsAppended
<1>2. req /= can
    BY RequestApart
<1>3. Once(q2, req)
    <2>1. Once(q, req) /\ (frame.body = req => ~Holds(q, req))
        BY <1>2 DEF Line, Means
    <2> QED
        BY <2>1, OnceAppended
<1>4. ASSUME h = "none", ~dead
      PROVE  Holds(b, req) \/ Leads(q2, req, can)
    <2>1. CASE Holds(b, req)
        BY <2>1
    <2>2. CASE ~Holds(b, req)
        <3>1. Leads(q, req, can)
            BY <1>4, <2>2 DEF Line
        <3>2. frame.body = can => Holds(q, req)
            BY <1>2, <1>4, <2>2 DEF Line, Means
        <3> QED
            BY <3>1, <3>2, LeadsAppended
    <2> QED
        BY <2>1, <2>2
<1> HIDE DEF q2
<1>5. Line(r, q2, b, s2, h, dead)
    <2>1. CASE frame.body = req /\ s = "new" /\ s2 = "pending"
        BY <1>1, <1>2, <1>3, <1>4, <2>1 DEF Line
    <2>2. CASE frame.body = can /\ s = "pending" /\ s2 = "abandoned"
        BY <1>1, <1>2, <1>3, <1>4, <2>2 DEF Line
    <2>3. CASE frame.body /= req /\ frame.body /= can /\ s2 = s
        BY <1>1, <1>2, <1>3, <1>4, <2>3 DEF Line
    <2> QED
        BY <2>1, <2>2, <2>3 DEF Means
<1> QED
    BY <1>5 DEF q2

LEMMA HandedLine ==
    ASSUME NEW r \in Requests, NEW q, NEW b \in Seq(Frames), NEW frame \in Frames,
           NEW s, NEW s2, NEW h, NEW dead,
           Line(r, q, b, s, h, dead), Means(r, frame.body, s, s2),
           frame.body = Cancel(r) => q = <<>>
    PROVE  Line(r, q, Append(b, frame), s2, h, dead)
<1> DEFINE b2 == Append(b, frame)
           req == Request(r)
           can == Cancel(r)
<1>1. \A x : Holds(b2, x) <=> Holds(b, x) \/ frame.body = x
    BY HoldsAppended
<1>2. req /= can
    BY RequestApart
<1>3. Once(b2, req)
    <2>1. Once(b, req) /\ (frame.body = req => ~Holds(b, req))
        BY <1>2 DEF Line, Means
    <2> QED
        BY <2>1, OnceAppended
<1>4. q = <<>> => ~Holds(q, req)
    BY NothingHeld
<1>5. ASSUME h = "none", ~dead
      PROVE  Leads(b2, req, can)
    <2>1. Leads(b, req, can)
        BY <1>5 DEF Line
    <2>2. frame.body = can => Holds(b, req)
        BY <1>2, <1>4, <1>5 DEF Line, Means
    <2> QED
        BY <2>1, <2>2, LeadsAppended
<1> HIDE DEF b2
<1>6. Line(r, q, b2, s2, h, dead)
    <2>1. CASE frame.body = req /\ s = "new" /\ s2 = "pending"
        BY <1>1, <1>2, <1>3, <1>5, <2>1 DEF Line
    <2>2. CASE frame.body = can /\ s = "pending" /\ s2 = "abandoned"
        BY <1>1, <1>2, <1>3, <1>4, <1>5, <2>2 DEF Line
    <2>3. CASE frame.body /= req /\ frame.body /= can /\ s2 = s
        BY <1>1, <1>2, <1>3, <1>5, <2>3 DEF Line
    <2> QED
        BY <2>1, <2>2, <2>3 DEF Means
<1> QED
    BY <1>6 DEF b2

\* The pump loop takes the first frame of the control lane.
LEMMA MovedLine ==
    ASSUME NEW r \in Requests, NEW q \in Seq(Frames), q /= <<>>, NEW b \in Seq(Frames),
           NEW s, NEW h, NEW dead, Line(r, q, b, s, h, dead)
    PROVE  Line(r, Tail(q), Append(b, Head(q)), s, h, dead)
<1> DEFINE frame == Head(q)
           q2 == Tail(q)
           b2 == Append(b, frame)
           req == Request(r)
           can == Cancel(r)
<1>1. frame \in Frames
    BY TailFacts
<1>2. \A x : Holds(b2, x) <=> Holds(b, x) \/ frame.body = x
    BY <1>1, HoldsAppended
<1>3. \A x : /\ Holds(q, x) <=> frame.body = x \/ Holds(q2, x)
             /\ Once(q, x) => Once(q2, x) /\ ~(frame.body = x /\ Holds(q2, x))
    BY TailHolds
<1>4. req /= can
    BY RequestApart
<1>5. Once(b2, req)
    <2>1. Once(b, req) /\ (frame.body = req => ~Holds(b, req))
        BY <1>3 DEF Line
    <2> QED
        BY <1>1, <2>1, OnceAppended
<1>6. ASSUME h = "none", ~dead
      PROVE  Leads(b2, req, can) /\ (Holds(b2, req) \/ Leads(q2, req, can))
    <2>1. Leads(b, req, can) /\ (Holds(b, req) \/ Leads(q, req, can))
        BY <1>6 DEF Line
    <2>2. Leads(q, req, can) => frame.body /= can /\ (frame.body /= req => Leads(q2, req, can))
        BY LeadsTail
    <2>3. frame.body = can => Holds(b, req)
        BY <2>1, <2>2
    <2>4. Leads(b2, req, can)
        BY <1>1, <2>1, <2>3, LeadsAppended
    <2> HIDE DEF frame, q2, b2
    <2> QED
        BY <1>2, <2>1, <2>2, <2>4
<1> HIDE DEF frame, q2, b2
<1>7. Line(r, q2, b2, s, h, dead)
    BY <1>2, <1>3, <1>4, <1>5, <1>6 DEF Line
<1> QED
    BY <1>7 DEF frame, q2, b2

\* A frame leaves; if the link is not cut, the relay acts on it.
LEMMA FlushedLine ==
    ASSUME NEW r \in Requests, NEW q, NEW b \in Seq(Frames), b /= <<>>,
           NEW s, NEW h, NEW dead \in BOOLEAN, Line(r, q, b, s, h, dead), h /= "orphaned",
           NEW h2,
           dead => h2 = h,
           ~dead /\ Head(b).body = Request(r) => h2 = "running",
           ~dead /\ Head(b).body = Cancel(r) /\ h = "running" => h2 = "done",
           ~dead /\ Head(b).body = Cancel(r) /\ h \notin {"none", "running"} => h2 = h,
           ~dead /\ Head(b).body \notin {Request(r), Cancel(r)} => h2 = h
    PROVE  h2 /= "orphaned" /\ Line(r, q, Tail(b), s, h2, dead)
<1> DEFINE frame == Head(b)
           b2 == Tail(b)
           req == Request(r)
           can == Cancel(r)
<1>1. \A x : /\ Holds(b, x) <=> frame.body = x \/ Holds(b2, x)
             /\ Once(b, x) => Once(b2, x) /\ ~(frame.body = x /\ Holds(b2, x))
    BY TailHolds
<1>2. Leads(b, req, can) => frame.body /= can /\ (frame.body /= req => Leads(b2, req, can))
    BY LeadsTail
<1>3. req /= can
    BY RequestApart
<1>4. /\ ~dead /\ frame.body = req => h2 = "running"
      /\ ~dead /\ frame.body = can /\ h = "running" => h2 = "done"
      /\ ~dead /\ frame.body = can /\ h \notin {"none", "running"} => h2 = h
      /\ ~dead /\ frame.body /= req /\ frame.body /= can => h2 = h
    OBVIOUS
<1> SUFFICES h2 /= "orphaned" /\ Line(r, q, b2, s, h2, dead)
    OBVIOUS
<1> HIDE DEF frame, b2
<1>5. CASE dead
    <2>1. h2 = h
        BY <1>5
    <2> QED
        BY <1>1, <1>5, <2>1 DEF Line
<1>6. CASE ~dead /\ frame.body = req
    <2>1. h2 = "running"
        BY <1>4, <1>6
    <2> QED
        BY <1>1, <1>3, <1>6, <2>1 DEF Line
<1>7. CASE ~dead /\ frame.body = can
    <2>1. h /= "none"
        BY <1>2, <1>7 DEF Line
    <2>2. h2 = "done" \/ (h2 = h /\ h \notin {"none", "running"})
        BY <1>4, <1>7, <2>1
    <2>3. ~Holds(b, req) /\ ~Holds(q, req) /\ s /= "new"
        BY <2>1 DEF Line
    <2> QED
        BY <1>1, <1>3, <1>7, <2>2, <2>3 DEF Line
<1>8. CASE ~dead /\ frame.body /= req /\ frame.body /= can
    <2>1. h2 = h
        BY <1>4, <1>8
    <2> QED
        BY <1>1, <1>2, <1>8, <2>1 DEF Line
<1> QED
    BY <1>5, <1>6, <1>7, <1>8

LEMMA ClosedStoppable ==
    ASSUME Stoppable, closed' /= "open", host' = host
    PROVE  Stoppable'
BY DEF Stoppable

LEMMA SendStoppable ==
    ASSUME Core, Stoppable, closed = "open", ~pumping,
           NEW ages \in Seq(Ages), Len(ages) = Len(unacked), NEW body \in Bodies,
           NEW st \in Midway, NEW out,
           \A r \in Requests : Means(r, body, status[r], Published(st)[r]),
           Send(ages, body, st, out), host' = host, cut' = cut
    PROVE  Stoppable'
<1> DEFINE frame == [body |-> body, newest |-> Len(Track(ages, body))]
           s2 == Published(st)
<1>1. /\ frame \in Frames /\ frame.body = body
      /\ queue \in [Lanes -> Seq(Frames)] /\ queue.control \in Seq(Frames)
      /\ buffer \in Seq(Frames) /\ {"ordinary", "control"} = Lanes
    BY FrameTyped DEF Core, Lanes
<1>2. \A r \in Requests : /\ host[r] /= "orphaned"
                          /\ Line(r, queue.control, buffer, status[r], host[r], cut)
                          /\ Means(r, frame.body, status[r], s2[r])
    BY <1>1 DEF Stoppable
<1> HIDE DEF frame, s2
<1>3. CASE Refused(st, out) \/ Broken(ages, body, st, out)
    <2>1. closed' = "connection_lost"
        BY <1>3 DEF Refused, Broken, Dispose
    <2> QED
        BY <2>1, ClosedStoppable
<1>4. CASE Queued(ages, body, st, out)
    <2>1. /\ queue' = [queue EXCEPT ![Lane(body)] = Append(@, frame)] /\ Lane(body) \in Lanes
          /\ buffer' = buffer /\ status' = s2 /\ closed' = closed
        BY <1>4 DEF Queued, frame, s2
    <2>2. CASE Lane(body) = "control"
        <3>1. queue'.control = Append(queue.control, frame)
            BY <1>1, <2>1, <2>2
        <3>2. \A r \in Requests : Line(r, Append(queue.control, frame), buffer, s2[r], host[r], cut)
            BY <1>1, <1>2, QueuedLine
        <3> QED
            BY <1>2, <2>1, <3>1, <3>2 DEF Stoppable
    <2>3. CASE Lane(body) = "ordinary"
        <3>1. queue'.control = queue.control
            BY <1>1, <2>1, <2>3
        <3>2. \A r \in Requests : body /= Request(r) /\ body /= Cancel(r)
            BY <2>3, RequestApart
        <3>3. \A r \in Requests : s2[r] = status[r]
            BY <1>1, <1>2, <3>2 DEF Means
        <3> QED
            BY <1>2, <2>1, <3>1, <3>3 DEF Stoppable
    <2> QED
        BY <1>1, <2>1, <2>2, <2>3
<1>5. CASE Handed(ages, body, st, out)
    <2>1. /\ ~saturated \/ Lane(body) = "liveness"
          /\ buffer' = Append(buffer, frame) /\ queue' = queue /\ status' = s2 /\ closed' = closed
        BY <1>5 DEF Handed, Written, frame, s2
    <2>2. ~saturated => queue.control = <<>>
        BY <1>1 DEF Core, Served, HasQueued
    <2>3. \A r \in Requests : frame.body = Cancel(r) => queue.control = <<>>
        BY <1>1, <2>1, <2>2, RequestApart
    <2>4. \A r \in Requests : Line(r, queue.control, Append(buffer, frame), s2[r], host[r], cut)
        BY <1>1, <1>2, <2>3, HandedLine
    <2> QED
        BY <1>2, <2>1, <2>4 DEF Stoppable
<1> QED
    BY <1>3, <1>4, <1>5, SendCases

LEMMA SameStoppable ==
    ASSUME Stoppable, UNCHANGED <<queue, buffer, status, host, closed>>,
           cut \in BOOLEAN, cut' \in BOOLEAN, cut => cut'
    PROVE  Stoppable'
<1> SUFFICES ASSUME NEW r \in Requests, closed = "open"
             PROVE  Line(r, queue.control, buffer, status[r], host[r], cut')
    BY DEF Stoppable
<1>1. Line(r, queue.control, buffer, status[r], host[r], cut)
    BY DEF Stoppable
<1>2. CASE cut'
    BY <1>1, <1>2 DEF Line
<1>3. CASE ~cut'
    <2>1. cut = FALSE /\ cut' = FALSE
        BY <1>3
    <2> QED
        BY <1>1, <2>1
<1> QED
    BY <1>2, <1>3

\* The sends that say nothing of a request.
LEMMA OtherStoppable ==
    ASSUME Core, Stoppable, closed = "open", ~pumping,
           NEW ages \in Seq(Ages), Len(ages) = Len(unacked),
           NEW body \in Bodies, \A r \in Requests : body /= Request(r) /\ body /= Cancel(r),
           NEW out, Send(ages, body, status, out), host' = host, cut' = cut
    PROVE  Stoppable'
<1>1. status \in Midway
    BY DEF Core, Midway
<1>2. \A r \in Requests : Published(status)[r] = status[r]
    BY DEF Published, Core, Statuses
<1>3. \A r \in Requests : Means(r, body, status[r], Published(status)[r])
    BY <1>2 DEF Means
<1> QED
    BY <1>1, <1>3, SendStoppable

LEMMA CallStoppable ==
    ASSUME Core, Stoppable, NEW r \in Requests, MakeRequest(r) \/ TimeOut(r) \/ Abort(r)
    PROVE  Stoppable'
<1>1. /\ status \in [Requests -> Statuses] /\ unacked \in Seq(Ages) /\ ~pumping
      /\ host' = host /\ cut' = cut /\ Request(r) \in Bodies /\ Cancel(r) \in Bodies
    BY BodyFacts DEF Core, MakeRequest, TimeOut, Abort, Idle, link
<1>2. CASE closed = "open"
    <2>1. ASSUME NEW body \in {Request(r), Cancel(r)}, NEW mark \in {"pending", "timing_out", "abandoned"},
                 Send(unacked, body, [status EXCEPT ![r] = mark], outcome),
                 \/ body = Request(r) /\ status[r] = "new" /\ mark = "pending"
                 \/ body = Cancel(r) /\ status[r] = "pending" /\ mark /= "pending"
          PROVE  Stoppable'
        <3> DEFINE st == [status EXCEPT ![r] = mark]
        <3>1. st \in Midway
            BY <1>1 DEF Midway, Statuses
        <3>2. \A t \in Requests : Published(st)[t] =
                  IF t = r THEN (IF mark = "pending" THEN "pending" ELSE "abandoned") ELSE status[t]
            BY <1>1, <2>1 DEF Published, Statuses
        <3>3. \A t \in Requests : t /= r => body /= Request(t) /\ body /= Cancel(t)
            BY RequestApart
        <3> HIDE DEF st
        <3>4. \A t \in Requests : Means(t, body, status[t], Published(st)[t])
            BY <2>1, <3>2, <3>3 DEF Means
        <3>5. Send(unacked, body, st, outcome)
            BY <2>1 DEF st
        <3> QED
            BY <1>1, <1>2, <3>1, <3>4, <3>5, SendStoppable
    <2>2. CASE MakeRequest(r)
        BY <1>2, <2>1, <2>2 DEF MakeRequest
    <2>3. CASE TimeOut(r)
        BY <2>1, <2>3 DEF TimeOut
    <2>4. CASE Abort(r)
        BY <2>1, <2>4 DEF Abort
    <2> QED
        BY <2>2, <2>3, <2>4
<1>3. CASE closed /= "open"
    <2>1. closed' = closed
        BY <1>3 DEF MakeRequest, TimeOut, Abort, Idle
    <2> QED
        BY <1>1, <1>3, <2>1, ClosedStoppable
<1> QED
    BY <1>2, <1>3

LEMMA NotifyStoppable ==
    ASSUME Core, Stoppable, NEW c \in Chunks, NotifyWithSettlement(c)
    PROVE  Stoppable'
<1>1. /\ unacked \in Seq(Ages) /\ ~pumping /\ Data(c) \in Bodies
      /\ host' = host /\ cut' = cut
    BY BodyFacts DEF Core, NotifyWithSettlement, link
<1>2. \A r \in Requests : Data(c) /= Request(r) /\ Data(c) /= Cancel(r)
    BY DataApart
<1>3. CASE closed = "open"
    <2>1. Send(unacked, Data(c), status, [outcome EXCEPT ![c] = "waiting"])
        BY <1>3 DEF NotifyWithSettlement
    <2> QED
        BY <1>1, <1>2, <1>3, <2>1, OtherStoppable
<1>4. CASE closed /= "open"
    <2>1. closed' = closed
        BY <1>4 DEF NotifyWithSettlement
    <2> QED
        BY <1>1, <1>4, <2>1, ClosedStoppable
<1> QED
    BY <1>3, <1>4

LEMMA TimerStoppable ==
    ASSUME Core, Around, Stoppable,
           Probe \/ SendReply \/ (\E woke \in BOOLEAN : Tick(woke))
    PROVE  Stoppable'
<1>1. /\ unacked \in Seq(Ages) /\ ~pumping /\ closed = "open" /\ host' = host /\ cut' = cut
      /\ cut \in BOOLEAN /\ KeepAlive \in Bodies /\ Reply \in Bodies
    BY BodyFacts DEF Core, Around, Probe, SendReply, Tick, Idle, link
<1>2. \A r \in Requests : /\ KeepAlive /= Request(r) /\ KeepAlive /= Cancel(r)
                          /\ Reply /= Request(r) /\ Reply /= Cancel(r)
    BY RequestApart
<1>3. ASSUME NEW ages \in Seq(Ages), Len(ages) = Len(unacked), SendKeepAlive(ages)
      PROVE  Stoppable'
    <2>1. CASE Send(ages, KeepAlive, status, outcome)
        BY <1>1, <1>2, <1>3, <2>1, OtherStoppable
    <2>2. CASE UNCHANGED <<writer, ackable, paused, closed, status, outcome, history>>
        <3>1. UNCHANGED <<queue, buffer, status, host, closed, cut>>
            BY <1>1, <2>2 DEF writer
        <3> QED
            BY <1>1, <3>1, SameStoppable
    <2> QED
        BY <1>3, <2>1, <2>2 DEF SendKeepAlive
<1>4. CASE Probe
    BY <1>1, <1>3, <1>4 DEF Probe
<1>5. CASE SendReply
    <2>1. Send(unacked, Reply, status, outcome)
        BY <1>5 DEF SendReply
    <2> QED
        BY <1>1, <1>2, <2>1, OtherStoppable
<1>6. ASSUME NEW woke \in BOOLEAN, Tick(woke) PROVE Stoppable'
    <2> DEFINE ages == IF woke THEN Rebased(unacked) ELSE Aged(unacked)
    <2>1. ages \in Seq(Ages) /\ Len(ages) = Len(unacked)
        BY <1>1, AgedTyped
    <2>2. SendKeepAlive(ages) \/ Dispose("connection_lost", buffer, status, outcome)
        BY <1>6 DEF Tick
    <2> HIDE DEF ages
    <2>3. CASE Dispose("connection_lost", buffer, status, outcome)
        <3>1. closed' /= "open"
            BY <2>3 DEF Dispose
        <3> QED
            BY <1>1, <3>1, ClosedStoppable
    <2> QED
        BY <1>3, <2>1, <2>2, <2>3
<1> QED
    BY <1>4, <1>5, <1>6

LEMMA PumpStoppable ==
    ASSUME Core, Stoppable, PumpNext
    PROVE  Stoppable'
<1> DEFINE rest == [queue EXCEPT ![Select] = Tail(@)]
           frame == Head(queue[Select])
           waiting == rest.ordinary /= <<>>
<1>1. /\ pumping /\ CanPump /\ Write(frame, waiting, status, outcome)
      /\ closed' = "open" => queue' = rest
      /\ host' = host /\ cut' = cut
    BY DEF PumpNext, link
<1>2. /\ closed = "open" /\ Select \in Lanes /\ queue[Select] \in Seq(Frames)
      /\ queue[Select] /= <<>> /\ buffer \in Seq(Frames)
      /\ queue \in [Lanes -> Seq(Frames)] /\ Lanes = {"ordinary", "control"}
    BY <1>1, Selected DEF Core, Lanes
<1>3. frame \in Frames /\ Lane(frame.body) = Select
    BY <1>1, RestTyped
<1>4. waiting \in BOOLEAN
    OBVIOUS
<1>5. CASE Dispose("connection_lost", Append(buffer, frame), status, outcome)
    <2>1. closed' /= "open"
        BY <1>5 DEF Dispose
    <2> QED
        BY <1>1, <2>1, ClosedStoppable
<1>6. CASE Written(frame, waiting, status, outcome)
    <2>1. /\ buffer' = Append(buffer, frame) /\ queue' = rest /\ closed' = closed
          /\ status' = Published(status)
        BY <1>1, <1>2, <1>6 DEF Written
    <2>2. \A r \in Requests : status'[r] = status[r]
        BY <2>1 DEF Published, Core, Statuses
    <2>3. \A r \in Requests : /\ host[r] /= "orphaned"
                              /\ Line(r, queue.control, buffer, status[r], host[r], cut)
        BY <1>2 DEF Stoppable
    <2>4. CASE Select = "control"
        <3>1. /\ rest.control = Tail(queue.control) /\ frame = Head(queue.control)
              /\ queue.control \in Seq(Frames) /\ queue.control /= <<>>
            BY <1>2, <2>4
        <3> HIDE DEF rest, frame
        <3>2. \A r \in Requests : Line(r, rest.control, buffer', status'[r], host'[r], cut')
            BY <1>1, <1>2, <2>1, <2>2, <2>3, <3>1, MovedLine
        <3> QED
            BY <1>1, <2>1, <2>3, <3>2 DEF Stoppable
    <2>5. CASE Select = "ordinary"
        <3>1. rest.control = queue.control
            BY <1>2, <2>5
        <3> HIDE DEF rest, frame
        <3>2. \A r \in Requests : frame.body /= Request(r) /\ frame.body /= Cancel(r)
            BY <1>3, <2>5, RequestApart
        <3>3. \A r \in Requests : Means(r, frame.body, status[r], status'[r])
            BY <2>2, <3>2 DEF Means
        <3>4. \A r \in Requests : Line(r, queue.control, Append(buffer, frame), status'[r], host[r], cut)
            BY <1>2, <1>3, <2>3, <3>2, <3>3, HandedLine
        <3> QED
            BY <1>1, <2>1, <2>3, <3>1, <3>4 DEF Stoppable
    <2> QED
        BY <1>2, <2>4, <2>5
<1> QED
    BY <1>1, <1>2, <1>4, <1>5, <1>6, WriteFacts

LEMMA FlushStoppable ==
    ASSUME Core, Around, Stoppable, Flush
    PROVE  Stoppable'
<1> DEFINE frame == Head(buffer)
<1>1. /\ buffer /= <<>> /\ buffer' = Tail(buffer) /\ closed = "open" /\ buffer \in Seq(Frames)
      /\ UNCHANGED <<queue, closed, status, cut>> /\ cut \in BOOLEAN
      /\ host' = IF cut THEN host ELSE Arrived(frame.body)
    BY DEF Flush, Core, Around
<1>2. ASSUME NEW r \in Requests
      PROVE  /\ cut => host'[r] = host[r]
             /\ ~cut /\ frame.body = Request(r) => host'[r] = "running"
             /\ ~cut /\ frame.body = Cancel(r) /\ host[r] = "running" => host'[r] = "done"
             /\ ~cut /\ frame.body = Cancel(r) /\ host[r] \notin {"none", "running"} =>
                   host'[r] = host[r]
             /\ ~cut /\ frame.body \notin {Request(r), Cancel(r)} => host'[r] = host[r]
    BY <1>1, RequestApart DEF Arrived
<1>3. \A r \in Requests : /\ host[r] /= "orphaned"
                          /\ Line(r, queue.control, buffer, status[r], host[r], cut)
    BY <1>1 DEF Stoppable
<1>4. ASSUME NEW r \in Requests
      PROVE  /\ host'[r] /= "orphaned"
             /\ Line(r, queue.control, Tail(buffer), status[r], host'[r], cut)
    <2> DEFINE h == host[r]
               h2 == host'[r]
    <2>1. /\ cut => h2 = h
          /\ ~cut /\ Head(buffer).body = Request(r) => h2 = "running"
          /\ ~cut /\ Head(buffer).body = Cancel(r) /\ h = "running" => h2 = "done"
          /\ ~cut /\ Head(buffer).body = Cancel(r) /\ h \notin {"none", "running"} => h2 = h
          /\ ~cut /\ Head(buffer).body \notin {Request(r), Cancel(r)} => h2 = h
        BY <1>2
    <2>2. h /= "orphaned" /\ Line(r, queue.control, buffer, status[r], h, cut)
        BY <1>3
    <2>3. r \in Requests /\ cut \in BOOLEAN /\ buffer \in Seq(Frames) /\ buffer /= <<>>
        BY <1>1
    <2> HIDE DEF h, h2
    <2>4. h2 /= "orphaned" /\ Line(r, queue.control, Tail(buffer), status[r], h2, cut)
        BY <2>1, <2>2, <2>3, FlushedLine
    <2> QED
        BY <2>4 DEF h2
<1> QED
    BY <1>1, <1>4 DEF Stoppable

LEMMA AnsweredLine ==
    ASSUME NEW r \in Requests, NEW q, NEW b, NEW s, NEW h, NEW dead, Line(r, q, b, s, h, dead),
           h = "running", NEW s2, s2 = s \/ (s = "pending" /\ s2 = "answered")
    PROVE  Line(r, q, b, s2, "done", dead)
BY DEF Line

LEMMA ReceiveStoppable ==
    ASSUME Core, Around, Stoppable, Receive \/ Continue
    PROVE  Stoppable'
<1>1. /\ closed = "open" /\ cut' = cut
      /\ buffer \in Seq(Frames) /\ queue.control \in Seq(Frames) /\ "control" \in Lanes
      /\ status \in [Requests -> Statuses]
      /\ host \in [Requests -> {"none", "running", "done", "orphaned"}]
    BY DEF Receive, Continue, Idle, Core, Around, Lanes
<1>2. CASE Dispose("connection_lost", buffer, status, outcome) /\ UNCHANGED host
    <2>1. closed' /= "open"
        BY <1>2 DEF Dispose
    <2> QED
        BY <1>2, <2>1, ClosedStoppable
<1>3. ASSUME NEW n \in 0..ackable, Acknowledge(n), Answer, closed' = closed
      PROVE  Stoppable'
    <2> DEFINE q2 == Drop(queue.control, n)
               b2 == Drop(buffer, n)
    <2>1. n \in Nat
        BY LenProperties DEF Core
    <2>2. queue'.control = q2 /\ buffer' = b2
        BY <1>1, <1>3 DEF Acknowledge
    <2>3. \A x : /\ Holds(q2, x) <=> Holds(queue.control, x)
                 /\ Holds(b2, x) <=> Holds(buffer, x)
                 /\ Once(queue.control, x) => Once(q2, x)
                 /\ Once(buffer, x) => Once(b2, x)
        BY <1>1, <2>1, DropHolds
    <2>4. \A x, y : /\ Leads(queue.control, x, y) => Leads(q2, x, y)
                    /\ Leads(buffer, x, y) => Leads(b2, x, y)
        BY <1>1, <2>1, DropLeads
    <2> HIDE DEF q2, b2
    <2>5. ASSUME NEW r \in Requests
          PROVE  host[r] /= "orphaned" /\ Line(r, q2, b2, status[r], host[r], cut)
        <3>1. host[r] /= "orphaned" /\ Line(r, queue.control, buffer, status[r], host[r], cut)
            BY <1>1 DEF Stoppable
        <3> QED
            BY <2>3, <2>4, <3>1 DEF Line
    <2>6. CASE UNCHANGED <<status, host>>
        BY <1>1, <1>3, <2>2, <2>5, <2>6 DEF Stoppable
    <2>7. ASSUME NEW t \in Requests, host[t] = "running", host' = [host EXCEPT ![t] = "done"],
                 status' = [status EXCEPT ![t] = IF @ = "pending" THEN "answered" ELSE @]
          PROVE  Stoppable'
        <3>1. ASSUME NEW r \in Requests
              PROVE  host'[r] /= "orphaned" /\ Line(r, q2, b2, status'[r], host'[r], cut)
            <4>1. CASE r = t
                <5>1. /\ host'[r] = "done"
                      /\ status'[r] = status[r] \/ (status[r] = "pending" /\ status'[r] = "answered")
                    BY <1>1, <2>7, <4>1
                <5>2. Line(r, q2, b2, status[r], host[r], cut) /\ host[r] = "running"
                    BY <2>5, <2>7, <4>1
                <5>3. Line(r, q2, b2, status'[r], "done", cut)
                    BY <5>1, <5>2, AnsweredLine
                <5> QED
                    BY <5>1, <5>3
            <4>2. CASE r /= t
                <5>1. host'[r] = host[r] /\ status'[r] = status[r]
                    BY <1>1, <2>7, <4>2
                <5> QED
                    BY <2>5, <5>1
            <4> QED
                BY <4>1, <4>2
        <3> QED
            BY <1>1, <2>2, <3>1 DEF Stoppable
    <2> QED
        BY <1>3, <2>6, <2>7 DEF Answer
<1> QED
    BY <1>2, <1>3 DEF Receive, Continue

LEMMA StoppableInit == Init => Stoppable
<1> SUFFICES ASSUME Init, NEW r \in Requests
             PROVE  host[r] /= "orphaned" /\ Line(r, queue.control, buffer, status[r], host[r], cut)
    BY DEF Stoppable
<1>1. /\ queue.control = <<>> /\ buffer = <<>> /\ host[r] = "none" /\ status[r] = "new"
      /\ cut = FALSE
    BY DEF Init, Lanes
<1>2. /\ ~Holds(<<>>, Request(r)) /\ Once(<<>>, Request(r))
      /\ Leads(<<>>, Request(r), Cancel(r))
    BY NothingHeld, NothingLed
<1> QED
    BY <1>1, <1>2 DEF Line

\* Every step keeps each request ahead of its rpc.cancel.
THEOREM StoppableStep == ChannelInv /\ Stoppable /\ [Next]_vars => Stoppable'
<1> SUFFICES ASSUME ChannelInv, Stoppable, [Next]_vars PROVE Stoppable'
    OBVIOUS
<1>0. Core /\ Around /\ cut \in BOOLEAN
    BY DEF ChannelInv, Around
<1>1. CASE \E r \in Requests : MakeRequest(r) \/ TimeOut(r) \/ Abort(r)
    BY <1>0, <1>1, CallStoppable
<1>2. CASE \E c \in Chunks : NotifyWithSettlement(c)
    BY <1>0, <1>2, NotifyStoppable
<1>3. CASE Probe \/ SendReply \/ (\E woke \in BOOLEAN : Tick(woke))
    BY <1>0, <1>3, TimerStoppable
<1>4. CASE PumpNext
    BY <1>0, <1>4, PumpStoppable
<1>5. CASE Flush
    BY <1>0, <1>5, FlushStoppable
<1>6. CASE FlushFails \/ TransportCloses \/ Shutdown
    <2>1. closed' /= "open" /\ host' = host
        BY <1>6 DEF FlushFails, TransportCloses, Shutdown, Close, Dispose, link
    <2> QED
        BY <2>1, ClosedStoppable
<1>7. CASE Receive \/ Continue
    BY <1>0, <1>7, ReceiveStoppable
<1>8. CASE Drain \/ ProbeTimesOut \/ UNCHANGED vars
    <2>1. UNCHANGED <<queue, buffer, status, host, closed, cut>>
        BY <1>8 DEF Drain, ProbeTimesOut, vars, callers, writer, link
    <2> QED
        BY <1>0, <2>1, SameStoppable
<1>9. CASE Cut
    <2>1. UNCHANGED <<queue, buffer, status, host, closed>> /\ cut' = TRUE
        BY <1>9 DEF Cut, callers, writer
    <2> QED
        BY <1>0, <2>1, SameStoppable
<1> QED
    BY <1>1, <1>2, <1>3, <1>4, <1>5, <1>6, <1>7, <1>8, <1>9 DEF Next

\* Every reachable state has each request ahead of its rpc.cancel.
THEOREM StoppableInvariant == Spec => []Stoppable
<1>1. ChannelInv /\ Stoppable /\ [Next]_vars => Stoppable'
    BY StoppableStep
<1> QED
    BY <1>1, StoppableInit, ChannelInvariant, PTL DEF Spec

\* Lanes overtake each other, but the relay never gets the rpc.cancel of a
\* request before the request itself.
THEOREM CancelNeverOvertakes == Spec => []CancelFollowsItsRequest
<1>1. Stoppable => CancelFollowsItsRequest
    BY DEF Stoppable, CancelFollowsItsRequest
<1> QED
    BY <1>1, StoppableInvariant, PTL

\* A request whose caller gave up, by its signal or its deadline, is stopped
\* at the relay, or its rpc.cancel is still under way on an open channel.
THEOREM GivenUpWorkIsStopped == Spec => []AbandonedWorkIsStopped
<1>1. ChannelInv /\ Stoppable => AbandonedWorkIsStopped
    <2> SUFFICES ASSUME ChannelInv, Stoppable, NEW r \in Requests, status[r] = "abandoned",
                        host[r] \in {"none", "running"}, closed = "open", ~cut
                 PROVE  \/ \E i \in DOMAIN queue.control : queue.control[i].body = Cancel(r)
                        \/ \E i \in DOMAIN buffer : buffer[i].body = Cancel(r)
        BY DEF AbandonedWorkIsStopped
    <2>1. Line(r, queue.control, buffer, status[r], host[r], cut)
        BY DEF Stoppable
    <2>2. Holds(buffer, Cancel(r)) \/ Holds(queue.control, Cancel(r))
        BY <2>1 DEF Line
    <2> QED
        BY <2>2 DEF Holds
<1> QED
    BY <1>1, ChannelInvariant, StoppableInvariant, PTL
=============================================================================
