--------------------------- MODULE MailboxPointer ---------------------------
(***************************************************************************)
(* How a Run's mail reaches the agent that coordinates it: Orca types a    *)
(* one-line pointer ("you have mail") into the agent's terminal, waits,    *)
(* presses Enter, and records in the messages table how far it got, so     *)
(* that neither an agent at work, a human in the composer, a process that  *)
(* exits, nor a restart of Orca makes it press Enter twice or press it     *)
(* into a process that never saw the text (src/main/runtime/orchestration/ *)
(* mailbox-pointer-*.ts).  The agent may meanwhile read the mail itself,   *)
(* with a Delivery (db/messages/role-mailbox-delivery.ts).                 *)
(*                                                                         *)
(* One Run mailbox; several panes, one of which owns it; a pane is one     *)
(* terminal id under which processes follow each other.  A synchronous     *)
(* stretch of JavaScript is one step; what resumes after an await, a timer *)
(* or a microtask is a step of its own.  Deliver, Settle, Redrive and the  *)
(* others are therefore functions from one state record to the next, which *)
(* the actions compose as the handlers call one another.                   *)
(*                                                                         *)
(* Not modelled: waiters filtered by message type, the Cursor title that   *)
(* needs no Enter, the absence probe before staging, structured sessions.  *)
(***************************************************************************)
EXTENDS Integers, Sequences, FiniteSets

CONSTANTS
  Panes,           \* terminals that may own the mailbox
  BatchLimit,      \* messages in one pointer or one Delivery
  MaxMessages,     \* messages sent in a behaviour
  Titles,          \* statuses the agents' titles show
  Faults,          \* the mishaps of Mishaps that may happen
  MaxFaults        \* how many do in a behaviour

Statuses == {"idle", "working", "permission", "neutral"}
Phases == {"none", "reserved", "written", "entered"}

Mishaps ==
  {"restart",      \* Orca is killed and started again
   "exit",         \* an agent's process ends
   "park",         \* a pane leaves the window's graph
   "rebind",       \* the Run moves to another pane
   "refused",      \* a terminal refuses a write
   "unverifiable"} \* a terminal does not say what became of a write

ASSUME PointerAssumption ==
  /\ Panes # {}
  /\ BatchLimit \in Nat \ {0} /\ MaxMessages \in Nat /\ MaxFaults \in Nat
  /\ Titles \subseteq Statuses /\ Faults \subseteq Mishaps

VARIABLES
  rows,     \* the messages table, by sequence
  mem,      \* the pointer delivery's memory, lost in a restart
  agent,    \* what Orca knows of the process in each pane
  box,      \* owner of the mailbox, its Delivery and its blocked check
  seen,     \* what the processes got to see: a record of the past
  faults    \* how many mishaps so far

vars == <<rows, mem, agent, box, seen, faults>>

NewRow == [read |-> FALSE, delivered |-> FALSE, phase |-> "none", to |-> <<>>]

EmptyMemory ==
  [flights |-> {},       \* pointers on their way, at most one per pane
   calls |-> {},         \* writes and probes not answered yet
   parked |-> {},        \* panes whose flight a delivery waits for
   mark |-> {},          \* the mailbox's watermark, at most one
   again |-> FALSE,      \* a parked redelivery
   micro |-> FALSE,      \* a delivery queued as a microtask
   repoint |-> FALSE,    \* the repair timer
   recheck |-> {},       \* panes with a timer for "not settled yet"
   cold |-> {}]          \* panes that left the window's graph

Init ==
  /\ rows = <<>>
  /\ mem = EmptyMemory
  /\ agent = [p \in Panes |->
       [alive |-> TRUE, process |-> 1, status |-> "neutral", live |-> FALSE, settled |-> FALSE]]
  /\ \E p \in Panes : box = [owner |-> p, outstanding |-> {}, waiter |-> FALSE, woken |-> FALSE]
  /\ seen = [typed |-> {}, entered |-> {}, left |-> {}, twice |-> FALSE]
  /\ faults = 0

Now == [rows |-> rows, mem |-> mem, agent |-> agent, box |-> box, seen |-> seen]

Becomes(t) ==
  /\ rows' = t.rows
  /\ mem' = t.mem
  /\ agent' = t.agent
  /\ box' = t.box
  /\ seen' = t.seen

(***************************************************************************)
(* The messages table.                                                     *)
(***************************************************************************)

Unread(t) == {i \in DOMAIN t.rows : ~t.rows[i].read}

\* The oldest messages of a set, as many as one batch takes.
Oldest(ids) == {i \in ids : Cardinality({j \in ids : j < i}) < BatchLimit}

Undelivered(t) == {i \in Unread(t) : ~t.rows[i].delivered /\ t.rows[i].phase = "none"}
Reserved(t) == {i \in Unread(t) : t.rows[i].phase # "none"}

Newest(ids) == CHOOSE i \in ids : \A j \in ids : j <= i

\* The rows of ids that answer Test, changed.
Update(t, ids, Test(_), Change(_)) ==
  [t EXCEPT !.rows = [i \in DOMAIN t.rows |->
     IF i \in ids /\ Test(t.rows[i]) THEN Change(t.rows[i]) ELSE t.rows[i]]]

Cleared(row) == [row EXCEPT !.phase = "none", !.to = <<>>]
AsDelivered(row) == [Cleared(row) EXCEPT !.delivered = TRUE]
AsUndelivered(row) == [Cleared(row) EXCEPT !.delivered = FALSE]
AsRead(row) == [Cleared(row) EXCEPT !.read = TRUE]

Advance(t, ids, to, from, phase) ==
  Update(t, ids, LAMBDA row : row.phase = from, LAMBDA row : [row EXCEPT !.phase = phase, !.to = to])

SettleEnter(t, ids, to, phases) ==
  Update(t, ids, LAMBDA row : row.to = to /\ row.phase \in phases, AsDelivered)

ReleaseEnter(t, ids, to, phases) ==
  Update(t, ids, LAMBDA row : ~row.read /\ row.to = to /\ row.phase \in phases, AsUndelivered)

\* What the agent works on when it works: rows a pane's new turn makes moot.
ReleasePendingForPane(t, p) ==
  Update(t, DOMAIN t.rows, LAMBDA row : row.phase # "none" /\ row.to[1] = p,
         LAMBDA row : IF row.phase = "reserved" THEN AsUndelivered(row) ELSE AsDelivered(row))

(***************************************************************************)
(* The delivery's memory.                                                  *)
(***************************************************************************)

Process(t, p) == <<p, t.agent[p].process>>

FlightsOf(t, p) == {f \in t.mem.flights : f.pane = p}

\* What a flight's pending callbacks keep of it: its identity and its input.
Ticket(f) == [id |-> f.id, pane |-> f.pane, to |-> f.to, ids |-> f.ids]
IsCurrent(t, k) == \E f \in t.mem.flights : Ticket(f) = k

Changed(t, f, g) == [t EXCEPT !.mem.flights = (@ \ {f}) \cup {g}]
Called(t, kind, k) == [t EXCEPT !.mem.calls = @ \cup {[kind |-> kind, ticket |-> k]}]
Answered(t, call) == [t EXCEPT !.mem.calls = @ \ {call}]

\* An identity no flight and no pending callback carries.
FreshId(t) ==
  LET used == {f.id : f \in t.mem.flights} \cup {c.ticket.id : c \in t.mem.calls} IN
  CHOOSE n \in 0..Cardinality(used) : n \notin used

InactiveMark(k) == [pane |-> k.pane, newest |-> Newest(k.ids), active |-> FALSE]
MarkOf(k) == [pane |-> k.pane, newest |-> Newest(k.ids), active |-> TRUE]
Owns(m, k) == m.pane = k.pane /\ m.newest = Newest(k.ids)

AddMark(t, k) == [t EXCEPT !.mem.mark = @ \cup {MarkOf(k)}]
SetMark(t, k) == [t EXCEPT !.mem.mark = {MarkOf(k)}]
HasMark(t, k) == \E m \in t.mem.mark : Owns(m, k)
ClearMark(t, k) == [t EXCEPT !.mem.mark = {m \in @ : ~Owns(m, k)}]
DeactivateMark(t, k) ==
  [t EXCEPT !.mem.mark = {IF Owns(m, k) THEN [m EXCEPT !.active = FALSE] ELSE m : m \in @}]

ParkRedelivery(t) == [t EXCEPT !.mem.again = TRUE]

\* takeRedelivery, then the microtask.
Redrive(t, force) ==
  IF force \/ t.mem.again
  THEN [t EXCEPT !.mem.again = FALSE, !.mem.micro = TRUE]
  ELSE t

\* submitOrchestrationMailboxPointer, up to its first await.
Submit(t, f) ==
  Called(Changed(t, f, [f EXCEPT !.submit = FALSE, !.timer = FALSE,
                                 !.deferred = FALSE, !.idleSeen = FALSE]),
         "probe", Ticket(f))

\* deferFlightUntilIdle
DeferUntilIdle(t, p) ==
  [t EXCEPT !.mem.flights =
     {IF f.pane = p THEN [f EXCEPT !.timer = FALSE, !.deferred = TRUE, !.idleSeen = FALSE] ELSE f
        : f \in @}]

\* takeDeferredEnter, and the submission it returns.
TakeDeferredEnter(t, p) ==
  IF \E f \in FlightsOf(t, p) : f.deferred
  THEN LET f == CHOOSE f \in FlightsOf(t, p) : TRUE IN
       IF f.submit THEN Submit(t, f) ELSE Changed(t, f, [f EXCEPT !.idleSeen = TRUE])
  ELSE t

(***************************************************************************)
(* Delivery.                                                               *)
(***************************************************************************)

\* Whether a check, a Delivery or a reader owns what the pointer announces.
MustRelease(t, ids) ==
  \/ t.box.outstanding # {}
  \/ t.box.waiter
  \/ ~(ids \subseteq Unread(t))

\* resumePendingOrchestrationMailboxPointer: rows reserved for another process
\* are released; for this one, what may have been typed counts as delivered.
OtherProcess(t, p, pending) == \E i \in pending : t.rows[i].to # Process(t, p)
MayBeUnsubmitted(t, pending) == \E i \in pending : t.rows[i].phase = "written"
MayBeTyped(t, pending) == \E i \in pending : t.rows[i].phase # "reserved"

ReleaseAll(t, pending) == Update(t, pending, LAMBDA row : TRUE, AsUndelivered)

\* releaseSupersededWatermark, when it allows the pointer.
MarkAllows(t, p, ids) ==
  \A m \in t.mem.mark : Newest(ids) > m.newest \/ (~m.active /\ m.pane # p)

\* The messages a process has in its composer, or has been sent.
SeenBy(ids, process) == {<<i, process>> : i \in ids}

\* stageOrchestrationMailboxPointer, up to the write of the text.
Stage(t, p, ids) ==
  LET k == [id |-> FreshId(t), pane |-> p, to |-> Process(t, p), ids |-> ids]
      f == [id |-> k.id, pane |-> p, to |-> k.to, ids |-> ids,
            submit |-> FALSE, timer |-> FALSE, deferred |-> FALSE, idleSeen |-> FALSE]
      staged == Advance(Advance(t, ids, k.to, "none", "reserved"), ids, k.to, "reserved", "written")
  IN Called([SetMark(staged, k) EXCEPT
                           !.mem.flights = @ \cup {f},
                           !.seen.typed = @ \cup SeenBy(ids, Process(t, p))],
            "text", k)

DeliverBatch(t, p) ==
  LET ids == Oldest(Undelivered(t)) IN
  IF ids # {} /\ t.agent[p].alive /\ MarkAllows(t, p, ids) THEN Stage(t, p, ids) ELSE t

DeliverUnlessPending(t, p) ==
  LET pending == Oldest(Reserved(t)) IN
  IF pending = {} THEN DeliverBatch(t, p)
  ELSE IF OtherProcess(t, p, pending) \/ ~MayBeTyped(t, pending)
  THEN DeliverBatch(ReleaseAll(t, pending), p)
  ELSE SettleEnter(t, pending, Process(t, p), {"written", "entered"})

Deliver(t, p) ==
  LET settled == [t EXCEPT !.mem.recheck = @ \ {p}]
      waiting == [settled EXCEPT !.mem.parked = @ \cup {p}]
  IN IF t.box.outstanding # {} THEN t
     ELSE IF ~t.agent[p].settled THEN ParkRedelivery([t EXCEPT !.mem.recheck = @ \cup {p}])
     ELSE IF FlightsOf(t, p) # {} THEN TakeDeferredEnter(waiting, p)
     ELSE IF \E m \in t.mem.mark : m.active THEN ParkRedelivery(settled)
     ELSE IF t.box.waiter THEN settled
     ELSE DeliverUnlessPending(settled, p)

\* checkDeliverySettledAndArmRecheck, then deliverForLeaf.
OfferMail(t, p) ==
  IF ~t.agent[p].settled THEN [t EXCEPT !.mem.recheck = @ \cup {p}]
  ELSE IF t.box.owner = p THEN Deliver(t, p)
  ELSE [t EXCEPT !.mem.recheck = @ \ {p}]

\* deliverForHandle: only an agent seen idle, in a pane of the graph.
DeliverForHandle(t) ==
  LET p == t.box.owner IN
  IF p \notin t.mem.cold /\ t.agent[p].status = "idle" /\ t.agent[p].live
  THEN Deliver(t, p) ELSE t

SettleAlone(t, k) ==
  [t EXCEPT !.mem.flights = {f \in @ : Ticket(f) # k}, !.mem.parked = @ \ {k.pane}]
\* settle: the flight ends, and the delivery that waited for it runs.
Settle(t, k) ==
  LET p == k.pane
      ended == [t EXCEPT !.mem.flights = {f \in @ : Ticket(f) # k}, !.mem.parked = @ \ {p}]
  IN IF ~IsCurrent(t, k) THEN t
     ELSE IF p \notin t.mem.parked THEN ended
     ELSE IF p \in t.mem.cold \/ t.box.owner # p THEN Redrive(ParkRedelivery(ended), FALSE)
     ELSE Deliver(ended, p)

\* retirePty: the pane's process ended, or its agent took a turn of its own.
RetirePane(t, p) ==
  LET unsent == {f \in FlightsOf(t, p) : f.ids # {}}
      ids == UNION {f.ids : f \in unsent}
      marks == {m \in t.mem.mark : m.pane = p}
      gone == [t EXCEPT !.mem.flights = @ \ unsent, !.mem.parked = @ \ {p},
                        !.mem.mark = @ \ marks, !.mem.cold = @ \ {p}]
      released == Update(gone, ids,
                         LAMBDA row : /\ ~row.read
                                      /\ row.phase \in {"reserved", "written"}
                                      /\ \E f \in unsent : row.to = f.to,
                         AsUndelivered)
  IN IF marks # {} THEN Redrive(released, TRUE) ELSE released

(***************************************************************************)
(* Mail arrives and is read.                                               *)
(***************************************************************************)

Mishap(kind) ==
  /\ kind \in Faults
  /\ faults < MaxFaults
  /\ faults' = faults + 1

\* Microtasks run before any timer, answer or terminal output.
Drained == ~mem.micro /\ ~box.woken

\* A message is stored and announced: it wakes the blocked check, if any.
SendMessage ==
  /\ Drained
  /\ Len(rows) < MaxMessages
  /\ LET t == [Now EXCEPT !.rows = Append(@, NewRow), !.mem.repoint = TRUE] IN
     Becomes(IF box.waiter THEN [t EXCEPT !.box.waiter = FALSE, !.box.woken = TRUE]
                           ELSE [t EXCEPT !.mem.micro = TRUE])
  /\ UNCHANGED faults

RunMicrotask ==
  /\ mem.micro
  /\ Becomes(DeliverForHandle([Now EXCEPT !.mem.micro = FALSE]))
  /\ UNCHANGED faults

RepointTimer ==
  /\ Drained
  /\ mem.repoint
  /\ Becomes(DeliverForHandle([Now EXCEPT !.mem.repoint = FALSE]))
  /\ UNCHANGED faults

RecheckTimer(p) ==
  /\ Drained
  /\ p \in mem.recheck
  /\ LET t == [Now EXCEPT !.mem.recheck = @ \ {p}] IN
     Becomes(IF p \in mem.cold THEN t ELSE OfferMail(t, p))
  /\ UNCHANGED faults

\* getOrCreateMailboxDelivery: all unread mail, pointed at or not.
ReadMail(t) == [t EXCEPT !.box.outstanding = IF @ = {} THEN Oldest(Unread(t)) ELSE @]

\* The agent runs orchestration check, which blocks when there is no mail.
CheckMail(wait) ==
  /\ Drained
  /\ agent[box.owner].alive
  /\ agent[box.owner].status = "working"
  /\ ~box.waiter
  /\ LET t == ReadMail(Now) IN
     Becomes([t EXCEPT !.box.waiter = wait /\ t.box.outstanding = {}])
  /\ UNCHANGED faults

WokenCheckReads ==
  /\ box.woken
  /\ Becomes(ReadMail([Now EXCEPT !.box.woken = FALSE]))
  /\ UNCHANGED faults

CheckTimesOut ==
  /\ Drained
  /\ box.waiter
  /\ Becomes([Now EXCEPT !.box.waiter = FALSE])
  /\ UNCHANGED faults

AcknowledgeMail ==
  /\ Drained
  /\ box.outstanding # {}
  /\ agent[box.owner].alive
  /\ agent[box.owner].status = "working"
  /\ Becomes(Update([Now EXCEPT !.box.outstanding = {}], box.outstanding,
                    LAMBDA row : TRUE, AsRead))
  /\ UNCHANGED faults

\* run-use, which the agent in another pane runs while it works: the old
\* consumer's Delivery is fenced.
Rebind(p) ==
  /\ Drained
  /\ p # box.owner
  /\ agent[p].alive
  /\ agent[p].status = "working"
  /\ Mishap("rebind")
  /\ Becomes([Now EXCEPT !.box.owner = p, !.box.outstanding = {}, !.box.waiter = FALSE,
                         !.seen.left = @ \cup {box.owner}])

(***************************************************************************)
(* Writes and probes are answered.                                         *)
(***************************************************************************)

\* A mark cleared on the way out of a flight drains what was parked behind it.
ClearMarkThen(t, k, force) ==
  IF HasMark(t, k) THEN Redrive(ClearMark(t, k), force) ELSE t

\* finishPointerWriteAndStageEnter, the text being in the composer.
TextAccepted(t, k) ==
  LET f == CHOOSE f \in t.mem.flights : Ticket(f) = k IN
  IF MustRelease(t, k.ids) THEN Settle(ClearMarkThen(t, k, FALSE), k)
  ELSE IF f.deferred /\ f.idleSeen THEN Submit(t, f)
  ELSE Changed(t, f, [f EXCEPT !.submit = TRUE, !.timer = ~f.deferred])

Untyped(t, k) == [t EXCEPT !.seen.typed = @ \ (SeenBy(k.ids, k.to) \ t.seen.entered)]
TextTaken(t, k) == TextAccepted(Untyped(t, k), k)
TextRefused(t, k) ==
  LET untyped == Untyped(t, k)
  IN Settle(ClearMarkThen(Update(untyped, k.ids, LAMBDA row : ~row.read, AsUndelivered), k, FALSE),
            k)

TextSettles(call, outcome) ==
  /\ Drained
  /\ call.kind = "text"
  /\ Mishap(outcome) \/ (outcome = "accepted" /\ UNCHANGED faults)
  /\ LET k == call.ticket
         t == Answered(Now, call)
     IN Becomes(IF ~IsCurrent(t, k) THEN t
                ELSE CASE outcome = "accepted" -> TextAccepted(t, k)
                       [] outcome = "refused" -> TextRefused(t, k)
                       [] OTHER -> Settle(DeactivateMark(t, k), k))

EnterTimer(f) ==
  /\ Drained
  /\ f.timer
  /\ Becomes(Submit(Now, f))
  /\ UNCHANGED faults

\* The four ways a submission ends.
RollBack(t, k) ==
  LET released == ReleaseEnter(t, k.ids, k.to, {"written"}) IN
  IF HasMark(t, k) THEN Redrive(Settle(ClearMark(released, k), k), TRUE) ELSE Settle(released, k)
GiveUp(t, k, phase) == Settle(ClearMark(SettleEnter(t, k.ids, k.to, {phase}), k), k)
Submitted(t, k) ==
  LET settled == SettleEnter(t, k.ids, k.to, {"entered"}) IN
  IF HasMark(t, k) THEN Redrive(Settle(ClearMark(settled, k), k), FALSE) ELSE Settle(settled, k)
Undecided(t, k) ==
  LET left == Settle(DeactivateMark(t, k), k) IN
  IF HasMark(t, k) THEN Redrive(left, FALSE) ELSE left

SameTarget(t, k) == t.agent[k.pane].alive /\ Process(t, k.pane) = k.to /\ t.box.owner = k.pane
QueueSafe(t, k) == t.agent[k.pane].live /\ t.agent[k.pane].status \in {"idle", "working"}
Claimed(t, k) ==
  \A i \in k.ids : ~t.rows[i].read /\ t.rows[i].phase = "written" /\ t.rows[i].to = k.to

PressEnter(t, k) ==
  LET sent == SeenBy(k.ids, Process(t, k.pane)) IN
  Called([Advance(t, k.ids, k.to, "written", "entered") EXCEPT
            !.seen.twice = @ \/ (k.pane \notin t.seen.left /\ sent \cap t.seen.entered # {}),
            !.seen.entered = @ \cup sent],
         "enter", k)

HoldUntilIdle(t, k) ==
  LET held == DeferUntilIdle(t, k.pane) IN
  [held EXCEPT !.mem.flights = {IF Ticket(f) = k THEN [f EXCEPT !.submit = TRUE] ELSE f : f \in @}]

ProbeAnswers(call, absent) ==
  /\ Drained
  /\ call.kind = "probe"
  /\ LET k == call.ticket
         t == Answered(Now, call)
         a == agent[k.pane]
     IN /\ absent => ~a.alive
        /\ Becomes(IF absent THEN RollBack(t, k)
                   ELSE IF ~IsCurrent(t, k) THEN t
                   ELSE IF ~SameTarget(t, k) THEN RollBack(t, k)
                   ELSE IF a.live /\ a.status = "neutral" THEN HoldUntilIdle(t, k)
                   ELSE IF ~QueueSafe(t, k) \/ MustRelease(t, k.ids) THEN GiveUp(t, k, "written")
                   ELSE IF ~Claimed(t, k) THEN Undecided(t, k)
                   ELSE PressEnter(t, k))
  /\ UNCHANGED faults

EnterSettles(call, outcome) ==
  /\ Drained
  /\ call.kind = "enter"
  /\ Mishap(outcome) \/ (outcome = "accepted" /\ UNCHANGED faults)
  /\ LET k == call.ticket
         t == Answered(Now, call)
     IN Becomes(IF ~IsCurrent(t, k) THEN t
                ELSE CASE outcome = "accepted" -> Submitted(t, k)
                       [] outcome = "refused" -> GiveUp(t, k, "entered")
                       [] OTHER -> Undecided(t, k))

(***************************************************************************)
(* The terminals.                                                          *)
(***************************************************************************)

ObserveWorking(t, p) ==
  IF FlightsOf(t, p) # {}
  THEN IF p \in t.mem.cold THEN DeferUntilIdle(t, p) ELSE t
  ELSE ReleasePendingForPane(RetirePane(t, p), p)

ObserveIdle(t, p) ==
  TakeDeferredEnter(IF p \in t.mem.cold THEN DeferUntilIdle(t, p) ELSE t, p)

\* A title frame tells the agent's status; settled says how far to believe
\* "idle".  A frame that repaints the title observes, and offers no mail.
Title(p, status, settled) ==
  /\ Drained
  /\ agent[p].alive
  /\ settled => status = "idle"
  /\ LET observed == CASE status \in {"working", "permission"} -> ObserveWorking(Now, p)
                       [] status = "idle" -> ObserveIdle(Now, p)
                       [] OTHER -> Now
         t == [observed EXCEPT !.agent[p].status = status, !.agent[p].live = TRUE,
                               !.agent[p].settled = settled]
         repaint == agent[p].live /\ agent[p].status = status /\ agent[p].settled = settled
     IN \/ status = "idle" /\ p \notin t.mem.cold /\ Becomes(OfferMail(t, p))
        \/ (status # "idle" \/ p \in t.mem.cold \/ repaint) /\ Becomes(t)
  /\ UNCHANGED faults

\* An idle agent's terminal has been quiet for long enough.
FallsQuiet(p) ==
  /\ Drained
  /\ agent[p].status = "idle"
  /\ ~agent[p].settled
  /\ Becomes([Now EXCEPT !.agent[p].settled = TRUE])
  /\ UNCHANGED faults

\* The pane leaves the window's graph, its process lives on.
ParkPane(p) ==
  /\ Drained
  /\ p \notin mem.cold
  /\ agent[p].alive
  /\ Becomes([Now EXCEPT !.mem.cold = @ \cup {p}])
  /\ Mishap("park")

UnparkPane(p) ==
  /\ Drained
  /\ p \in mem.cold
  /\ LET t == [Now EXCEPT !.mem.cold = @ \ {p}]
     IN Becomes(IF agent[p].status = "idle" /\ agent[p].live THEN OfferMail(t, p) ELSE t)
  /\ UNCHANGED faults

\* onPtyExit: the status stays for display, its authority ends.
ProcessExits(p) ==
  /\ Drained
  /\ agent[p].alive
  /\ Becomes([RetirePane(Now, p) EXCEPT !.agent[p].alive = FALSE, !.agent[p].live = FALSE,
                                        !.mem.repoint = @ \/ box.owner = p])
  /\ Mishap("exit")

\* A cold restore starts a new process under the same terminal id.
ProcessRespawns(p, reset) ==
  /\ Drained
  /\ ~agent[p].alive
  /\ LET t == [Now EXCEPT !.agent[p].alive = TRUE, !.agent[p].process = @ + 1] IN
     Becomes(IF reset THEN [t EXCEPT !.agent[p].status = "neutral", !.agent[p].settled = FALSE]
                         ELSE t)
  /\ UNCHANGED faults

(***************************************************************************)
(* Orca is killed and started again; the agents run on in their daemon.    *)
(* Killed between the two statements of a staging, it leaves the rows      *)
(* reserved.                                                               *)
(***************************************************************************)
Restarted(t) ==
  [t EXCEPT !.mem = [EmptyMemory EXCEPT !.repoint = Undelivered(t) \cup Reserved(t) # {}],
            !.box.waiter = FALSE, !.box.woken = FALSE,
            !.agent = [p \in Panes |-> [@[p] EXCEPT !.live = FALSE, !.status = "neutral",
                                                    !.settled = FALSE]]]

Restart ==
  /\ Mishap("restart")
  /\ Becomes(Restarted(Now))

RestartWhileStaging ==
  /\ Mishap("restart")
  /\ mem.micro
  /\ LET t == DeliverForHandle([Now EXCEPT !.mem.micro = FALSE])
         staged == UNION {c.ticket.ids : c \in {c \in t.mem.calls \ mem.calls : c.kind = "text"}}
     IN /\ staged # {}
        /\ Becomes(Restarted([t EXCEPT
             !.rows = [i \in DOMAIN @ |-> IF i \in staged THEN [@[i] EXCEPT !.phase = "reserved"]
                                                         ELSE @[i]],
             !.seen = seen]))

WriteSettles(call) ==
  \E outcome \in {"accepted", "refused", "unverifiable"} :
    TextSettles(call, outcome) \/ EnterSettles(call, outcome)
ProbeSettles(call) == \E absent \in BOOLEAN : ProbeAnswers(call, absent)

Next ==
  \/ SendMessage
  \/ RunMicrotask
  \/ RepointTimer
  \/ \E wait \in BOOLEAN : CheckMail(wait)
  \/ WokenCheckReads
  \/ CheckTimesOut
  \/ AcknowledgeMail
  \/ \E call \in mem.calls : WriteSettles(call) \/ ProbeSettles(call)
  \/ \E f \in mem.flights : EnterTimer(f)
  \/ \E p \in Panes :
       \/ RecheckTimer(p)
       \/ Rebind(p)
       \/ \E status \in Titles, settled \in BOOLEAN : Title(p, status, settled)
       \/ FallsQuiet(p)
       \/ ParkPane(p)
       \/ UnparkPane(p)
       \/ ProcessExits(p)
       \/ \E reset \in BOOLEAN : ProcessRespawns(p, reset)
  \/ Restart
  \/ RestartWhileStaging

Spec == Init /\ [][Next]_vars

(***************************************************************************)
(* Safety.                                                                 *)
(***************************************************************************)

Incarnations == Panes \X (1..(MaxFaults + 1))
Messages == [read : BOOLEAN, delivered : BOOLEAN, phase : Phases, to : Incarnations \cup {<<>>}]
Flights == [id : Nat, pane : Panes, to : Incarnations, ids : SUBSET Nat,
            submit : BOOLEAN, timer : BOOLEAN, deferred : BOOLEAN, idleSeen : BOOLEAN]
Calls == [kind : {"text", "probe", "enter"},
          ticket : [id : Nat, pane : Panes, to : Incarnations, ids : SUBSET Nat]]
Marks == [pane : Panes, newest : Nat, active : BOOLEAN]
Memories == [flights : SUBSET Flights, calls : SUBSET Calls, parked : SUBSET Panes,
             mark : SUBSET Marks, again : BOOLEAN, micro : BOOLEAN, repoint : BOOLEAN,
             recheck : SUBSET Panes, cold : SUBSET Panes]
Agents == [alive : BOOLEAN, process : 1..(MaxFaults + 1), status : Statuses,
           live : BOOLEAN, settled : BOOLEAN]
Boxes == [owner : Panes, outstanding : SUBSET Nat, waiter : BOOLEAN, woken : BOOLEAN]
Pasts == [typed : SUBSET (Nat \X Incarnations), entered : SUBSET (Nat \X Incarnations),
          left : SUBSET Panes, twice : BOOLEAN]
States == [rows : Seq(Messages), mem : Memories, agent : [Panes -> Agents], box : Boxes,
           seen : Pasts]

\* The shape of the state.
TypeOK == Now \in States /\ IsFiniteSet(mem.calls) /\ faults \in 0..MaxFaults

\* Enter is pressed only into the process whose composer holds the pointer:
\* never into the one that took over the terminal while the Enter was armed
\* (the retirement in onPtyExit, orca-runtime-on-pty-exit.ts:171-174).
EnterFollowsItsText == seen.entered \subseteq seen.typed

\* Enter is pressed at most once for a message in one process, over timers,
\* deferrals, unanswered writes and restarts of Orca (the phases of
\* mailbox-pointer-enter-state.ts).  A Run that leaves the pane and comes back
\* is announced anew; seen.left excepts it.
EnterNeverTwice == ~seen.twice

\* What a flight has typed stays reserved for it: no other pane's delivery, and
\* no resumption, takes its unread rows while it may yet press Enter.
FlightKeepsItsRows ==
  \A f \in mem.flights : \A i \in f.ids :
    rows[i].read \/ (rows[i].phase \in {"written", "entered"} /\ rows[i].to = f.to)

\* One pointer at a time is on its way, and its watermark holds the mailbox for it.
OnePointer(t) ==
  /\ \A m, n \in t.mem.mark : m = n
  /\ \A f \in t.mem.flights : t.mem.flights = {f} /\ t.mem.mark = {MarkOf(Ticket(f))}

\* It is for the process that runs in its pane, which has the text, and its rows stay its own.
FlightIsSound(t) ==
  \A f \in t.mem.flights :
    /\ t.agent[f.pane].alive
    /\ f.to = Process(t, f.pane)
    /\ f.ids # {} /\ f.ids \subseteq DOMAIN t.rows
    /\ SeenBy(f.ids, f.to) \subseteq t.seen.typed
    /\ \A i \in f.ids :
         t.rows[i].read \/ (t.rows[i].phase \in {"written", "entered"} /\ t.rows[i].to = f.to)

\* A flight waits for one thing at a time: an answer, its timer or an idle agent; and it has
\* not pressed Enter while the answer to its text is due.
CallsAreSound(t) ==
  /\ \A c \in t.mem.calls : c.ticket.to[1] = c.ticket.pane
  /\ \A f \in t.mem.flights :
       /\ f.timer => f.submit
       /\ f.submit => \A c \in t.mem.calls : c.ticket # Ticket(f)
       /\ \A c, d \in t.mem.calls : c.ticket = Ticket(f) /\ d.ticket = Ticket(f) => c = d
       /\ \A c \in t.mem.calls : c.ticket = Ticket(f) /\ c.kind = "text" =>
            \A i \in f.ids : t.rows[i].phase # "entered"

\* The rows a pointer is on its way for, or left in doubt, are one batch for one process.
RowsAreSound(t) ==
  /\ \A i \in DOMAIN t.rows :
       t.rows[i].phase # "none" => ~t.rows[i].read /\ t.rows[i].to \in Incarnations
  /\ Cardinality(Reserved(t)) <= BatchLimit
  /\ \A i, j \in Reserved(t) : t.rows[i].to = t.rows[j].to

\* What a process saw was typed into a pane of the Run, by now or before.  What was entered into
\* the process at work is done with, and is not typed into it again.
PastIsSound(t) ==
  LET p == t.box.owner IN
  /\ t.seen.entered \subseteq t.seen.typed
  /\ \A x \in t.seen.typed :
       /\ x[1] \in DOMAIN t.rows
       /\ x[2][1] \in t.seen.left \cup {p}
       /\ x[2][2] <= t.agent[x[2][1]].process
  /\ ~t.seen.twice
  /\ p \notin t.seen.left =>
       \A i \in DOMAIN t.rows : <<i, Process(t, p)>> \in t.seen.entered =>
         \/ t.rows[i].read
         \/ t.rows[i].phase = "none" /\ t.rows[i].delivered
         \/ t.rows[i].phase = "entered" /\ t.rows[i].to = Process(t, p)

Sound(t) ==
  OnePointer(t) /\ FlightIsSound(t) /\ CallsAreSound(t) /\ RowsAreSound(t) /\ PastIsSound(t)

\* The inductive invariant: at most one pointer is on its way, what its callbacks still close over
\* is true of it, and what is in doubt is one batch.  A process follows an exit, which is a mishap.
PointerInvariant ==
  /\ TypeOK
  /\ Sound(Now)
  /\ \A p \in Panes : agent[p].process + (IF agent[p].alive THEN 0 ELSE 1) <= faults + 1

(***************************************************************************)
(* Liveness.                                                               *)
(***************************************************************************)

\* Microtasks and timers run, a blocked check times out, writes and probes are
\* answered.
Fairness ==
  /\ WF_vars(RunMicrotask) /\ WF_vars(WokenCheckReads)
  /\ WF_vars(RepointTimer) /\ WF_vars(CheckTimesOut)
  /\ \A p \in Panes :
       /\ WF_vars(RecheckTimer(p))
       /\ WF_vars(\E f \in FlightsOf(Now, p) : EnterTimer(f))
       /\ WF_vars(\E c \in mem.calls : c.ticket.pane = p /\ (WriteSettles(c) \/ ProbeSettles(c)))

LiveSpec == Spec /\ Fairness

\* The owner's agent sits at its prompt, in view, and no check of its own is open.
OwnerReady ==
  LET a == agent[box.owner] IN
  /\ a.alive /\ a.live /\ a.settled /\ a.status = "idle"
  /\ box.owner \notin mem.cold
  /\ box.outstanding = {} /\ ~box.waiter

\* What may be in the agent's composer is not typed again: it counts, once no
\* flight is at work on it.
LeftInDoubt(i) ==
  /\ rows[i].phase \in {"written", "entered"}
  /\ rows[i].to = Process(Now, box.owner)
  /\ \A f \in mem.flights : i \notin f.ids

AllAnnounced == \A i \in DOMAIN rows : rows[i].read \/ rows[i].delivered \/ LeftInDoubt(i)

\* Mail that waits while its owner's agent comes to rest at its prompt is
\* announced to it: no message is stranded behind a parked delivery, a
\* watermark or a reservation (the repairs of mailbox-pointer-delivery.ts).
MailIsAnnounced == <>[]OwnerReady => []<>AllAnnounced

=============================================================================
