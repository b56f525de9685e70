-------------------------- MODULE MutationReceipts --------------------------
(***************************************************************************)
(* The durable mutation ledger.  A client names every mutating call with a *)
(* request id and may repeat the call: after a timeout, after an error, or *)
(* after the runtime restarted.  The executor keeps one receipt row per    *)
(* request id (durable) and the promise of each running call (in memory),  *)
(* and decides for each call whether to run the handler, to replay the     *)
(* receipt, to join the running call, or to answer operation_unknown.      *)
(*                                                                         *)
(* A handler is a short sequence of phases; what the executor may conclude *)
(* from a row left behind depends on the phase the handler had reached,    *)
(* and each method draws that line at another place:                       *)
(*   plain         effect, then the executor completes the receipt         *)
(*   send          effect, receipt, then the nudge of the recipients       *)
(*   worker_done   checkpoint, then effect and receipt in one transaction  *)
(*   worker_start  the row appears with the accepted dispatch              *)
(*   release       as plain, but the effect is idempotent                  *)
(*   prompt        "an effect is possible" is noted before the write       *)
(***************************************************************************)
EXTENDS Naturals, Sequences, FiniteSets

CONSTANTS
    Requests,      \* request ids of one caller
    Payloads,      \* what a call asks for (its payload hash)
    Methods,       \* which of the methods below a client uses
    MaxRows,       \* MUTATION_RECEIPT_MAX_ROWS
    MaxEffects,    \* bound: effects counted per request id
    MaxFaults      \* bound: restarts and failures after an effect

AllMethods == {"plain", "send", "worker_done", "worker_start", "release", "prompt"}

ASSUME ReceiptsAssumption ==
    /\ Methods \subseteq AllMethods
    /\ MaxRows \in Nat \ {0}
    /\ MaxEffects \in Nat \ {0}
    /\ MaxFaults \in Nat

VARIABLES
    method,     \* the method each request id is minted for
    rows,       \* durable: the receipt row of each request id
    effects,    \* durable: the payloads whose effect was applied, in order
    execs,      \* running handlers
    inFlight,   \* the executor's map: which handler a repeated call joins
    told,       \* history: successful answers, as <<payload, effect number>>
    woken,      \* history: effects whose recipients were nudged
    pruned,     \* history: request ids whose completed row was deleted
    failed,     \* history: request ids whose handler threw after the effect, row not kept
    faults

ledger == <<rows, effects>>
memory == <<execs, inFlight>>
history == <<told, woken, pruned, failed>>
vars == <<method, ledger, memory, history, faults>>

Slots == {1, 2}
Phases == {"queued", "checkpointed", "possible", "effected", "recorded",
           "nudged", "accepted", "observing"}

Absent == [state |-> "absent"]
PartialRow(p) == [state |-> "pending", payload |-> p, checkpoint |-> FALSE]
PendingRow(p) ==
    [state |-> "pending", payload |-> p, checkpoint |-> FALSE, effect |-> 0,
     nudge |-> FALSE]
Rows ==
    [state : {"pending", "completed"}, payload : Payloads, checkpoint : BOOLEAN,
     effect : 0..MaxEffects, nudge : BOOLEAN]
Execs ==
    [request : Requests, payload : Payloads, slot : Slots, phase : Phases,
     effect : 0..MaxEffects]

Nudging == {"send", "worker_done"}

\* Type correctness of the ledger, the executor's memory and the histories.
TypeOK ==
    /\ method \in [Requests -> Methods]
    /\ rows \in [Requests -> Rows \cup {Absent}]
    /\ effects \in [Requests -> Seq(Payloads)]
    /\ \A r \in Requests : Len(effects[r]) <= MaxEffects
    /\ execs \subseteq Execs
    /\ inFlight \in [Requests -> Slots \cup {0}]
    /\ told \in [Requests -> SUBSET (Payloads \X (0..MaxEffects))]
    /\ woken \subseteq Requests \X (0..MaxEffects)
    /\ pruned \subseteq Requests
    /\ failed \subseteq Requests
    /\ faults \in 0..MaxFaults

Init ==
    /\ method \in [Requests -> Methods]
    /\ rows = [r \in Requests |-> Absent]
    /\ effects = [r \in Requests |-> <<>>]
    /\ execs = {}
    /\ inFlight = [r \in Requests |-> 0]
    /\ told = [r \in Requests |-> {}]
    /\ woken = {}
    /\ pruned = {}
    /\ failed = {}
    /\ faults = 0

-----------------------------------------------------------------------------
(* The ledger's statements.                                                *)

Kept(r) == rows[r].state /= "absent"
Completed == {r \in Requests : rows[r].state = "completed"}
AnyPayload(r, p) == Kept(r)
Matches(r, p) == Kept(r) /\ rows[r].payload = p

\* ensureMutationReceiptCapacity: completed rows past their age go, then the
\* oldest completed ones when the ledger is at its limit; pending rows never.
\* Ages are not modelled: gone is any set of completed rows.  Bound: the row
\* of one request id is pruned once.
InsertRow(r, p) ==
    \E gone \in SUBSET (Completed \ pruned) :
        /\ Cardinality({s \in Requests : Kept(s)} \ gone) < MaxRows
        /\ rows' = [s \in Requests |->
                       IF s = r THEN PendingRow(p)
                       ELSE IF s \in gone THEN Absent ELSE rows[s]]
        /\ pruned' = pruned \cup gone

\* completeMutationReceipt, for a row that still is this operation's.
CompleteQuietly(r, n, nudge) ==
    rows' = [rows EXCEPT ![r].state = "completed", ![r].effect = n, ![r].nudge = FALSE]
Complete(r, n, nudge) ==
    rows' = [rows EXCEPT ![r].state = "completed", ![r].effect = n, ![r].nudge = nudge]

\* The handler's effect.  Releasing what is released already changes nothing.
Released(r, p) == method[r] = "release" /\ \E n \in DOMAIN effects[r] : effects[r][n] = p
Apply(r, p, n) ==
    IF Released(r, p)
    THEN /\ n \in DOMAIN effects[r] /\ effects[r][n] = p
         /\ UNCHANGED effects
    ELSE /\ n = Len(effects[r]) + 1 /\ n <= MaxEffects
         /\ effects' = [effects EXCEPT ![r] = Append(@, p)]

-----------------------------------------------------------------------------
(* The executor's memory.                                                  *)

FreeSlots(r) == {s \in Slots : \A e \in execs : e.request = r => e.slot /= s}

Enter(r, p, phase, n) ==
    \E s \in FreeSlots(r) :
        /\ \A t \in FreeSlots(r) : s <= t
        /\ execs' = execs \cup {[request |-> r, payload |-> p, slot |-> s,
                                 phase |-> phase, effect |-> n]}
        /\ inFlight' = [inFlight EXCEPT ![r] = s]

Advance(e, phase, n) ==
    /\ execs' = (execs \ {e}) \cup {[e EXCEPT !.phase = phase, !.effect = n]}
    /\ UNCHANGED inFlight

\* The finally block deletes the entry of the key, whoever it names.
Leave(e) ==
    /\ execs' = execs \ {e}
    /\ inFlight' = [inFlight EXCEPT ![e.request] = 0]

Tell(r, p, n) == told' = [told EXCEPT ![r] = @ \cup {<<p, n>>}]

\* A restart, or a statement that throws after the effect.
Mishap == faults < MaxFaults /\ faults' = faults + 1

-----------------------------------------------------------------------------
(* A call, up to its first await.  A call that joins the running handler,  *)
(* one that is answered request_mismatch, operation_unknown or             *)
(* mutation_ledger_full changes nothing and is not an action.              *)

\* No row: run the handler.  A worker start has no row before it is accepted,
\* so it looks for a running one first; the others insert the pending row.
StartCallUnjoined(r, p) ==
    /\ ~Kept(r)
    /\ IF method[r] = "worker_start" THEN UNCHANGED <<rows, pruned>> ELSE InsertRow(r, p)
    /\ Enter(r, p, "queued", 0)
    /\ UNCHANGED <<method, effects, told, woken, failed, faults>>

StartCall(r, p) ==
    /\ ~Kept(r)
    /\ IF method[r] = "worker_start"
       THEN inFlight[r] = 0 /\ UNCHANGED <<rows, pruned>>
       ELSE InsertRow(r, p)
    /\ Enter(r, p, "queued", 0)
    /\ UNCHANGED <<method, effects, told, woken, failed, faults>>

\* A pending row without a running handler was left by a restart, or by a
\* handler that threw operation_unknown or may have written a prompt.  A release
\* is run again; a worker report only if its checkpoint says that nothing of
\* it was applied.  Every other method is answered operation_unknown.
MayResumeSends(r) == method[r] \in {"release", "send", "worker_done"}

MayResume(r) ==
    \/ method[r] = "release"
    \/ method[r] = "worker_done" /\ rows[r].checkpoint

ResumeCall(r, p) ==
    /\ Matches(r, p) /\ rows[r].state = "pending" /\ inFlight[r] = 0
    /\ MayResume(r)
    /\ Enter(r, p, "queued", 0)
    /\ UNCHANGED <<method, ledger, history, faults>>

\* A completed row answers the call, unless the receipt still owes a nudge
\* (a worker report always repeats it) or the caller of a prompt wants to
\* wait for the turn: then the handler runs again, only to observe.  A prompt
\* whose terminal binding changed is answered from the receipt, with a mark
\* that is not modelled: a prompt is therefore always free to be replayed.
MustObserve(r) == method[r] = "worker_done" \/ rows[r].nudge

ReplayReceipt(r, p) ==
    /\ Matches(r, p) /\ rows[r].state = "completed" /\ inFlight[r] = 0
    /\ ~MustObserve(r)
    /\ Tell(r, p, rows[r].effect)
    /\ UNCHANGED <<method, ledger, memory, woken, pruned, failed, faults>>

ObserveReceipt(r, p) ==
    /\ Matches(r, p) /\ rows[r].state = "completed" /\ inFlight[r] = 0
    /\ MustObserve(r) \/ method[r] = "prompt"
    /\ Enter(r, p, "observing", rows[r].effect)
    /\ UNCHANGED <<method, ledger, history, faults>>

Call(r, p) ==
    StartCall(r, p) \/ ResumeCall(r, p) \/ ReplayReceipt(r, p) \/ ObserveReceipt(r, p)

-----------------------------------------------------------------------------
(* The handler's phases.                                                   *)

\* markWorkerDoneEffectFree: nothing of the report is applied yet.
Checkpoint(e) ==
    /\ method[e.request] = "worker_done" /\ e.phase = "queued"
    /\ Matches(e.request, e.payload) /\ rows[e.request].state = "pending"
    /\ rows' = [rows EXCEPT ![e.request].checkpoint = TRUE]
    /\ Advance(e, "checkpointed", 0)
    /\ UNCHANGED <<method, effects, history, faults>>

\* commitWorkerDoneMessageMutation: mailbox row, settlement and receipt commit
\* together; a receipt that is not this operation's rolls everything back.
CommitReport(e) ==
    /\ method[e.request] = "worker_done" /\ e.phase = "checkpointed"
    /\ Matches(e.request, e.payload)
    /\ \E n \in 1..MaxEffects :
          /\ Apply(e.request, e.payload, n)
          /\ Complete(e.request, n, TRUE)
          /\ Advance(e, "recorded", n)
    /\ UNCHANGED <<method, history, faults>>

\* createStartingWorkerDispatch: the dispatch and its pending receipt commit
\* together, and only if no row of this request id exists.
AcceptStart(e) ==
    /\ method[e.request] = "worker_start" /\ e.phase = "queued"
    /\ ~Kept(e.request)
    /\ InsertRow(e.request, e.payload)
    /\ \E n \in 1..MaxEffects :
          Apply(e.request, e.payload, n) /\ Advance(e, "accepted", n)
    /\ UNCHANGED <<method, told, woken, failed, faults>>

\* markEffectPossible, before the first byte of the prompt is written.
MarkEffectPossible(e) ==
    /\ method[e.request] = "prompt" /\ e.phase = "queued"
    /\ Advance(e, "possible", 0)
    /\ UNCHANGED <<method, ledger, history, faults>>

EffectFrom == [m \in AllMethods |-> IF m = "prompt" THEN "possible" ELSE "queued"]

\* The message row, the released terminal, the written prompt or any other
\* effect that commits on its own, before the receipt says so.
ApplyEffect(e) ==
    /\ method[e.request] \in {"plain", "send", "release", "prompt"}
    /\ e.phase = EffectFrom[method[e.request]]
    /\ \E n \in 1..MaxEffects :
          Apply(e.request, e.payload, n) /\ Advance(e, "effected", n)
    /\ UNCHANGED <<method, rows, history, faults>>

\* recordReceipt: a send stores what a replay still has to nudge, a prompt
\* the acceptance of its input.
RecordReceipt(e) ==
    /\ method[e.request] \in {"send", "prompt"} /\ e.phase = "effected"
    /\ Matches(e.request, e.payload)
    /\ Complete(e.request, e.effect, method[e.request] = "send")
    /\ Advance(e, "recorded", e.effect)
    /\ UNCHANGED <<method, effects, history, faults>>

Nudge(e) ==
    /\ method[e.request] \in Nudging /\ e.phase = "recorded"
    /\ woken' = woken \cup {<<e.request, e.effect>>}
    /\ Advance(e, "nudged", e.effect)
    /\ UNCHANGED <<method, ledger, told, pruned, failed, faults>>

\* Phases in which the handler may return.  A prompt whose write was refused
\* returns accepted: false, and that answer is what its receipt keeps.
Returns(e) ==
    /\ method[e.request] \in Nudging => e.phase = "nudged"
    /\ method[e.request] = "worker_start" => e.phase = "accepted"
    /\ method[e.request] = "prompt" => e.phase \in {"queued", "effected", "recorded"}
    /\ method[e.request] \in {"plain", "release"} => e.phase = "effected"

\* The result is stored, without the nudge, and answered.
Settle(e) ==
    /\ Returns(e) /\ Matches(e.request, e.payload)
    /\ Complete(e.request, e.effect, FALSE)
    /\ Tell(e.request, e.payload, e.effect)
    /\ Leave(e)
    /\ UNCHANGED <<method, effects, woken, pruned, failed, faults>>

-----------------------------------------------------------------------------
(* Failures.                                                               *)

\* A release may also find its effect done by the run before a restart.
AfterEffect(e) ==
    \/ e.phase \in {"effected", "accepted"}
    \/ method[e.request] = "release" /\ effects[e.request] /= <<>>

\* The catch block drops the pending row, so that the request may be repeated,
\* unless the handler threw operation_unknown (its effect may be under way at
\* another host) or a prompt may have been written.
KeepsRow(e, unknown) == unknown \/ (method[e.request] = "prompt" /\ e.phase /= "queued")
Discard(e, unknown) ==
    rows' = IF ~KeepsRow(e, unknown) /\ rows[e.request].state = "pending"
            THEN [rows EXCEPT ![e.request] = Absent]
            ELSE rows

\* The handler throws.  Before its effect it may do so freely; after it only
\* as a fault: a failing statement, a nudge that throws, a worker stopped
\* while it starts.  A row that is no longer this operation's also throws.  Any
\* of these errors may be operation_unknown.
Fail(e) ==
    /\ e.phase /= "observing"
    /\ \/ e.phase \in {"queued", "checkpointed", "possible"} /\ UNCHANGED faults
       \/ e.phase \in {"effected", "accepted", "recorded"} /\ Mishap
       \/ Returns(e) /\ ~Matches(e.request, e.payload) /\ UNCHANGED faults
    /\ \E unknown \in BOOLEAN :
          /\ Discard(e, unknown)
          /\ failed' = IF ~KeepsRow(e, unknown) /\ AfterEffect(e)
                       THEN failed \cup {e.request} ELSE failed
    /\ Leave(e)
    /\ UNCHANGED <<method, effects, told, woken, pruned>>

\* The observation succeeds: the nudge is repeated and need not be again.
ObservationEnds(e) ==
    /\ e.phase = "observing"
    /\ woken' = IF method[e.request] \in Nudging
                THEN woken \cup {<<e.request, e.effect>>} ELSE woken
    /\ IF Matches(e.request, e.payload)
       THEN Complete(e.request, e.effect, FALSE) ELSE UNCHANGED rows
    /\ Tell(e.request, e.payload, e.effect)
    /\ Leave(e)
    /\ UNCHANGED <<method, effects, pruned, failed, faults>>

\* It fails: the receipt read before it is the answer all the same.
ObservationFails(e) ==
    /\ e.phase = "observing"
    /\ Mishap
    /\ Tell(e.request, e.payload, e.effect)
    /\ Leave(e)
    /\ UNCHANGED <<method, ledger, woken, pruned, failed>>

Restart ==
    /\ Mishap
    /\ execs' = {}
    /\ inFlight' = [r \in Requests |-> 0]
    /\ UNCHANGED <<method, ledger, history>>

Step(e) ==
    \/ Checkpoint(e) \/ CommitReport(e) \/ AcceptStart(e) \/ MarkEffectPossible(e)
    \/ ApplyEffect(e) \/ RecordReceipt(e) \/ Nudge(e) \/ Settle(e)
    \/ Fail(e) \/ ObservationEnds(e) \/ ObservationFails(e)

Next ==
    \/ \E r \in Requests, p \in Payloads : Call(r, p)
    \/ \E e \in execs : Step(e)
    \/ Restart

Spec == Init /\ [][Next]_vars

-----------------------------------------------------------------------------
(* Properties.                                                             *)

\* A request id takes effect at most once, whatever repeats, failures and
\* restarts come between.  Two things undo it: the receipt was pruned, or the
\* handler threw between its effect and its receipt; and the second cannot
\* happen to a worker report (one transaction) or a prompt (row kept).
AtMostOnce ==
    \A r \in Requests :
        \/ Len(effects[r]) <= 1
        \/ r \in pruned
        \/ r \in failed /\ method[r] \notin {"worker_done", "prompt"}

\* Every successful answer to a request id is the one its receipt still holds
\* and names an effect of the payload that was asked for.
AnswersComeFromTheReceipt ==
    \A r \in Requests : \A a \in told[r] :
        /\ a[2] \in 1..Len(effects[r]) => effects[r][a[2]] = a[1]
        /\ a[2] <= Len(effects[r])
        /\ r \notin pruned =>
              /\ rows[r].state = "completed"
              /\ a = <<rows[r].payload, rows[r].effect>>

\* Calls with one request id never run two handlers at a time, unless the
\* ledger pruned the receipt of a handler that was still running.
OneExecution ==
    \A e, f \in execs : e.request = f.request => e = f \/ e.request \in pruned

\* A send or a report that was answered has nudged its recipients, or its
\* receipt still owes the nudge to the next repeat.
AnsweredMailIsAnnounced ==
    \A r \in Requests : \A a \in told[r] :
        method[r] \in Nudging =>
            \/ <<r, a[2]>> \in woken
            \/ r \in pruned
            \/ rows[r].nudge

\* The catch block may discard a row only while nothing of the operation is
\* durable: an effect whose handler did not throw after it keeps its row.
EffectKeepsItsRow ==
    \A r \in Requests :
        effects[r] /= <<>> /\ r \notin pruned \cup failed => Kept(r)
=============================================================================
