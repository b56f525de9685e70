---------------------- MODULE MutationReceiptsProofs ----------------------
(***************************************************************************)
(* Proofs about MutationReceipts, for every set of request ids, payloads   *)
(* and methods and every bound: type correctness, at-most-once effects,    *)
(* one execution per request id, and answers that agree with the receipt.  *)
(***************************************************************************)
EXTENDS MutationReceipts, SequenceTheorems, FiniteSetTheorems, TLAPS

\* The running handlers of a request id.
Of(r) == {e \in execs : e.request = r}

BeforeEffect(e) == e.phase \in {"queued", "checkpointed", "possible"}
Recorded(e) == e.phase \in {"recorded", "nudged", "observing"}

\* A handler reaches only the phases of its method.
PhaseFitsMethod(e, m) ==
    /\ e.phase = "checkpointed" => m = "worker_done"
    /\ e.phase = "possible" => m = "prompt"
    /\ e.phase = "accepted" => m = "worker_start"
    /\ e.phase = "effected" => m \in {"plain", "send", "release", "prompt"}
    /\ e.phase = "recorded" => m \in {"send", "worker_done", "prompt"}
    /\ e.phase = "nudged" => m \in Nudging

\* A handler's row is its own; a worker start has none before it is accepted,
\* and a row is completed once the handler has recorded its receipt.
OwnsRow(r, e) ==
    /\ \/ Matches(r, e.payload)
       \/ method[r] = "worker_start" /\ e.phase = "queued"
    /\ Recorded(e) => rows[r].state = "completed" /\ rows[r].effect = e.effect
    /\ ~Recorded(e) => rows[r].state /= "completed"

\* What runs, or may be run again, before its effect has had none, or it is a
\* release that had the same.
Harmless(r, p) == effects[r] = <<>> \/ (method[r] = "release" /\ effects[r] = <<p>>)

\* The invariant of one request id, as long as its row was not pruned.
OnceAt(r) == r \notin pruned =>
    /\ \A e, f \in Of(r) : e = f
    /\ \A e \in Of(r) :
          /\ inFlight[r] /= 0
          /\ PhaseFitsMethod(e, method[r])
          /\ OwnsRow(r, e)
          /\ r \notin failed /\ BeforeEffect(e) => Harmless(r, e.payload)
    /\ r \in failed => method[r] \notin {"worker_done", "prompt"}
    /\ r \notin failed =>
          /\ Len(effects[r]) <= 1
          /\ effects[r] /= <<>> => Kept(r)
          /\ rows[r].state = "pending" /\ method[r] \in {"worker_done", "release"} =>
                 Harmless(r, rows[r].payload)

OnceInv == TypeOK /\ \A r \in Requests : OnceAt(r)

\* What a row, a handler or an answer reports is an effect of its payload.
Reports(r, p, n) == n <= Len(effects[r]) /\ (n \in 1..Len(effects[r]) => effects[r][n] = p)

\* A receipt that owes no nudge any more is of recipients that were nudged.
Announced(r) ==
    method[r] \in Nudging /\ rows[r].state = "completed" =>
        rows[r].nudge \/ <<r, rows[r].effect>> \in woken

AnswerAt(r) ==
    /\ Kept(r) => Reports(r, rows[r].payload, rows[r].effect)
    /\ \A e \in Of(r) :
          /\ Reports(r, e.payload, e.effect)
          /\ e.phase = "nudged" => <<r, e.effect>> \in woken
    /\ \A a \in told[r] :
          /\ Reports(r, a[1], a[2])
          /\ r \notin pruned =>
                rows[r].state = "completed" /\ a = <<rows[r].payload, rows[r].effect>>
    /\ Announced(r)

AnswerInv == OnceInv /\ \A r \in Requests : AnswerAt(r)

-----------------------------------------------------------------------------
(* What the ledger's statements and the executor's memory do.              *)

LEMMA RowFields ==
    ASSUME NEW w \in Rows \cup {Absent}, w.state /= "absent"
    PROVE  w \in Rows
BY DEF Absent

LEMMA InsertRowFacts ==
    ASSUME TypeOK, NEW r \in Requests, NEW p \in Payloads, ~Kept(r), InsertRow(r, p)
    PROVE  /\ rows' \in [Requests -> Rows \cup {Absent}]
           /\ rows'[r] = PendingRow(p)
           /\ pruned \subseteq pruned' /\ pruned' \subseteq Requests
           /\ r \in pruned' => r \in pruned
           /\ \A s \in Requests : s /= r => rows'[s] = rows[s] \/ (s \in pruned' /\ rows'[s] = Absent)
<1>1. PICK gone \in SUBSET (Completed \ pruned) :
          /\ rows' = [s \in Requests |->
                         IF s = r THEN PendingRow(p)
                         ELSE IF s \in gone THEN Absent ELSE rows[s]]
          /\ pruned' = pruned \cup gone
    BY DEF InsertRow
<1>2. PendingRow(p) \in Rows
    BY ReceiptsAssumption DEF PendingRow, Rows
<1>3. r \notin gone
    BY <1>1 DEF Completed, Kept
<1> QED
    BY <1>1, <1>2, <1>3 DEF TypeOK, Completed

LEMMA CompleteFacts ==
    ASSUME TypeOK, NEW r \in Requests, NEW n \in 0..MaxEffects, NEW nudge \in BOOLEAN,
           Kept(r), Complete(r, n, nudge)
    PROVE  /\ rows' \in [Requests -> Rows \cup {Absent}]
           /\ rows'[r].state = "completed" /\ rows'[r].effect = n /\ rows'[r].nudge = nudge
           /\ rows'[r].payload = rows[r].payload
           /\ \A s \in Requests : s /= r => rows'[s] = rows[s]
<1>1. rows[r] \in Rows
    BY RowFields DEF TypeOK, Kept
<1>2. [rows[r] EXCEPT !.state = "completed", !.effect = n, !.nudge = nudge] \in Rows
    BY <1>1 DEF Rows
<1>3. rows' = [rows EXCEPT ![r] = [rows[r] EXCEPT !.state = "completed", !.effect = n, !.nudge = nudge]]
    BY DEF Complete, TypeOK
<1> QED
    BY <1>1, <1>2, <1>3 DEF TypeOK, Rows

LEMMA EnterFacts ==
    ASSUME TypeOK, NEW r \in Requests, NEW p \in Payloads, NEW phase \in Phases,
           NEW n \in 0..MaxEffects, Enter(r, p, phase, n)
    PROVE  /\ \E s \in Slots :
                 /\ execs' = execs \cup {[request |-> r, payload |-> p, slot |-> s,
                                          phase |-> phase, effect |-> n]}
                 /\ inFlight' = [inFlight EXCEPT ![r] = s]
           /\ execs' \subseteq Execs
           /\ inFlight' \in [Requests -> Slots \cup {0}]
<1>1. PICK s \in FreeSlots(r) :
          /\ execs' = execs \cup {[request |-> r, payload |-> p, slot |-> s,
                                   phase |-> phase, effect |-> n]}
          /\ inFlight' = [inFlight EXCEPT ![r] = s]
    BY DEF Enter
<1>2. s \in Slots
    BY DEF FreeSlots
<1>3. [request |-> r, payload |-> p, slot |-> s, phase |-> phase, effect |-> n] \in Execs
    BY <1>2 DEF Execs
<1> QED
    BY <1>1, <1>2, <1>3 DEF TypeOK

LEMMA AdvanceFacts ==
    ASSUME TypeOK, NEW e \in execs, NEW phase \in Phases, NEW n \in 0..MaxEffects,
           Advance(e, phase, n)
    PROVE  /\ \E g \in Execs :
                 /\ execs' = (execs \ {e}) \cup {g}
                 /\ g.request = e.request /\ g.payload = e.payload
                 /\ g.phase = phase /\ g.effect = n
           /\ execs' \subseteq Execs
           /\ inFlight' = inFlight
<1> DEFINE g == [e EXCEPT !.phase = phase, !.effect = n]
<1>1. e \in Execs
    BY DEF TypeOK
<1>2. /\ g \in Execs /\ g.request = e.request /\ g.payload = e.payload
      /\ g.phase = phase /\ g.effect = n
    BY <1>1 DEF Execs
<1>3. execs' = (execs \ {e}) \cup {g} /\ inFlight' = inFlight
    BY DEF Advance
<1> HIDE DEF g
<1> QED
    BY <1>2, <1>3 DEF TypeOK

LEMMA LeaveFacts ==
    ASSUME TypeOK, NEW e \in execs, Leave(e)
    PROVE  /\ execs' = execs \ {e}
           /\ execs' \subseteq Execs
           /\ inFlight' \in [Requests -> Slots \cup {0}]
           /\ \A r \in Requests : r /= e.request => inFlight'[r] = inFlight[r]
BY DEF Leave, TypeOK, Execs

LEMMA ApplyFacts ==
    ASSUME TypeOK, NEW r \in Requests, NEW p \in Payloads, NEW n \in 1..MaxEffects,
           Apply(r, p, n)
    PROVE  /\ effects' \in [Requests -> Seq(Payloads)]
           /\ \A s \in Requests : Len(effects'[s]) <= MaxEffects
           /\ \A s \in Requests : s /= r => effects'[s] = effects[s]
           /\ \/ method[r] = "release" /\ effects' = effects
                 /\ n \in 1..Len(effects[r]) /\ effects[r][n] = p
              \/ effects'[r] = Append(effects[r], p) /\ n = Len(effects[r]) + 1
<1>1. effects[r] \in Seq(Payloads) /\ effects \in [Requests -> Seq(Payloads)]
    BY DEF TypeOK
<1>2. CASE Released(r, p)
    <2>1. n \in DOMAIN effects[r] /\ effects[r][n] = p /\ effects' = effects
        BY <1>2 DEF Apply
    <2>2. n \in 1..Len(effects[r])
        BY <2>1, <1>1
    <2> QED
        BY <1>1, <1>2, <2>1, <2>2 DEF Released, TypeOK
<1>3. CASE ~Released(r, p)
    <2>1. /\ n = Len(effects[r]) + 1 /\ n <= MaxEffects
          /\ effects' = [effects EXCEPT ![r] = Append(effects[r], p)]
        BY <1>3 DEF Apply
    <2>2. /\ Append(effects[r], p) \in Seq(Payloads)
          /\ Len(Append(effects[r], p)) = Len(effects[r]) + 1
        BY <1>1
    <2> QED
        BY <1>1, <2>1, <2>2 DEF TypeOK
<1> QED
    BY <1>2, <1>3

LEMMA DiscardFacts ==
    ASSUME TypeOK, NEW e \in execs, NEW unknown \in BOOLEAN, Discard(e, unknown)
    PROVE  /\ rows' \in [Requests -> Rows \cup {Absent}]
           /\ \A s \in Requests : s /= e.request => rows'[s] = rows[s]
           /\ \/ rows' = rows
              \/ /\ rows'[e.request] = Absent /\ rows[e.request].state = "pending"
                 /\ ~KeepsRow(e, unknown)
BY DEF Discard, TypeOK, Execs
-----------------------------------------------------------------------------
(* Type correctness.                                                       *)

LEMMA ExecFields ==
    ASSUME TypeOK, NEW e \in execs
    PROVE  /\ e.request \in Requests /\ e.payload \in Payloads
           /\ e.phase \in Phases /\ e.effect \in 0..MaxEffects
BY DEF TypeOK, Execs

LEMMA TellTyped ==
    ASSUME TypeOK, NEW r \in Requests, NEW p \in Payloads, NEW n \in 0..MaxEffects,
           Tell(r, p, n)
    PROVE  told' \in [Requests -> SUBSET (Payloads \X (0..MaxEffects))]
BY DEF Tell, TypeOK

LEMMA CallTyped ==
    ASSUME TypeOK, NEW r \in Requests, NEW p \in Payloads, Call(r, p)
    PROVE  TypeOK'
<1> USE DEF history
<1>0. 0 \in 0..MaxEffects /\ "queued" \in Phases /\ "observing" \in Phases
    BY ReceiptsAssumption DEF Phases
<1>1. CASE StartCall(r, p)
    <2>1. /\ ~Kept(r) /\ Enter(r, p, "queued", 0)
          /\ UNCHANGED <<rows, pruned>> \/ InsertRow(r, p)
          /\ UNCHANGED <<method, effects, told, woken, failed, faults>>
        BY <1>1 DEF StartCall
    <2>2. execs' \subseteq Execs /\ inFlight' \in [Requests -> Slots \cup {0}]
        BY <2>1, <1>0, EnterFacts
    <2>3. rows' \in [Requests -> Rows \cup {Absent}] /\ pruned' \subseteq Requests
        <3>1. CASE InsertRow(r, p)
            BY <2>1, <3>1, InsertRowFacts
        <3>2. CASE UNCHANGED <<rows, pruned>>
            BY <3>2 DEF TypeOK
        <3> QED
            BY <2>1, <3>1, <3>2
    <2> QED
        BY <2>1, <2>2, <2>3 DEF TypeOK
<1>2. CASE ResumeCall(r, p)
    <2>1. Enter(r, p, "queued", 0) /\ UNCHANGED <<method, ledger, history, faults>>
        BY <1>2 DEF ResumeCall
    <2>2. execs' \subseteq Execs /\ inFlight' \in [Requests -> Slots \cup {0}]
        BY <2>1, <1>0, EnterFacts
    <2> QED
        BY <2>1, <2>2 DEF TypeOK, ledger
<1>3. CASE ReplayReceipt(r, p)
    <2>1. rows[r].effect \in 0..MaxEffects
        BY <1>3, RowFields DEF ReplayReceipt, Matches, Kept, TypeOK, Rows
    <2>2. /\ Tell(r, p, rows[r].effect)
          /\ UNCHANGED <<method, ledger, memory, woken, pruned, failed, faults>>
        BY <1>3 DEF ReplayReceipt
    <2>3. told' \in [Requests -> SUBSET (Payloads \X (0..MaxEffects))]
        BY <2>1, <2>2, TellTyped
    <2> QED
        BY <2>2, <2>3 DEF TypeOK, ledger, memory
<1>4. CASE ObserveReceipt(r, p)
    <2>1. rows[r].effect \in 0..MaxEffects
        BY <1>4, RowFields DEF ObserveReceipt, Matches, Kept, TypeOK, Rows
    <2>2. /\ Enter(r, p, "observing", rows[r].effect)
          /\ UNCHANGED <<method, ledger, history, faults>>
        BY <1>4 DEF ObserveReceipt
    <2>3. execs' \subseteq Execs /\ inFlight' \in [Requests -> Slots \cup {0}]
        BY <2>1, <2>2, <1>0, EnterFacts
    <2> QED
        BY <2>2, <2>3 DEF TypeOK, ledger
<1> QED
    BY <1>1, <1>2, <1>3, <1>4 DEF Call

LEMMA StepTyped ==
    ASSUME TypeOK, NEW e \in execs, Step(e)
    PROVE  TypeOK'
<1> USE DEF history
<1> DEFINE r == e.request
           p == e.payload
<1>0. /\ r \in Requests /\ p \in Payloads /\ e.phase \in Phases /\ e.effect \in 0..MaxEffects
      /\ 0 \in 0..MaxEffects
      /\ {"checkpointed", "possible", "effected", "recorded", "nudged", "accepted"} \subseteq Phases
      /\ \A n \in 1..MaxEffects : n \in 0..MaxEffects
    BY ExecFields, ReceiptsAssumption DEF Phases
<1>1. CASE Checkpoint(e)
    <2>1. execs' \subseteq Execs /\ inFlight' = inFlight
        BY <1>0, <1>1, AdvanceFacts DEF Checkpoint
    <2>2. rows[r] \in Rows
        BY <1>0, <1>1, RowFields DEF Checkpoint, Matches, Kept, TypeOK
    <2>3. [rows[r] EXCEPT !.checkpoint = TRUE] \in Rows
        BY <2>2 DEF Rows
    <2>4. rows' \in [Requests -> Rows \cup {Absent}]
        BY <1>0, <1>1, <2>3 DEF Checkpoint, TypeOK
    <2> QED
        BY <1>1, <2>1, <2>4 DEF Checkpoint, TypeOK
<1>2. CASE CommitReport(e)
    <2>1. PICK n \in 1..MaxEffects :
              Apply(r, p, n) /\ Complete(r, n, TRUE) /\ Advance(e, "recorded", n)
        BY <1>2 DEF CommitReport
    <2>2. execs' \subseteq Execs /\ inFlight' = inFlight
        BY <1>0, <2>1, AdvanceFacts
    <2>3. rows' \in [Requests -> Rows \cup {Absent}]
        BY <1>0, <1>2, <2>1, CompleteFacts DEF CommitReport, Matches
    <2>4. effects' \in [Requests -> Seq(Payloads)] /\ \A s \in Requests : Len(effects'[s]) <= MaxEffects
        BY <1>0, <2>1, ApplyFacts
    <2> QED
        BY <1>2, <2>2, <2>3, <2>4 DEF CommitReport, TypeOK
<1>3. CASE AcceptStart(e)
    <2>1. PICK n \in 1..MaxEffects : Apply(r, p, n) /\ Advance(e, "accepted", n)
        BY <1>3 DEF AcceptStart
    <2>2. execs' \subseteq Execs /\ inFlight' = inFlight
        BY <1>0, <2>1, AdvanceFacts
    <2>3. rows' \in [Requests -> Rows \cup {Absent}] /\ pruned' \subseteq Requests
        BY <1>0, <1>3, InsertRowFacts DEF AcceptStart
    <2>4. effects' \in [Requests -> Seq(Payloads)] /\ \A s \in Requests : Len(effects'[s]) <= MaxEffects
        BY <1>0, <2>1, ApplyFacts
    <2> QED
        BY <1>3, <2>2, <2>3, <2>4 DEF AcceptStart, TypeOK
<1>4. CASE MarkEffectPossible(e)
    <2>1. execs' \subseteq Execs /\ inFlight' = inFlight
        BY <1>0, <1>4, AdvanceFacts DEF MarkEffectPossible
    <2> QED
        BY <1>4, <2>1 DEF MarkEffectPossible, TypeOK, ledger
<1>5. CASE ApplyEffect(e)
    <2>1. PICK n \in 1..MaxEffects : Apply(r, p, n) /\ Advance(e, "effected", n)
        BY <1>5 DEF ApplyEffect
    <2>2. execs' \subseteq Execs /\ inFlight' = inFlight
        BY <1>0, <2>1, AdvanceFacts
    <2>4. effects' \in [Requests -> Seq(Payloads)] /\ \A s \in Requests : Len(effects'[s]) <= MaxEffects
        BY <1>0, <2>1, ApplyFacts
    <2> QED
        BY <1>5, <2>2, <2>4 DEF ApplyEffect, TypeOK
<1>6. CASE RecordReceipt(e)
    <2>1. execs' \subseteq Execs /\ inFlight' = inFlight
        BY <1>0, <1>6, AdvanceFacts DEF RecordReceipt
    <2>2. rows' \in [Requests -> Rows \cup {Absent}]
        BY <1>0, <1>6, CompleteFacts DEF RecordReceipt, Matches
    <2> QED
        BY <1>6, <2>1, <2>2 DEF RecordReceipt, TypeOK
<1>7. CASE Nudge(e)
    <2>1. execs' \subseteq Execs /\ inFlight' = inFlight
        BY <1>0, <1>7, AdvanceFacts DEF Nudge
    <2> QED
        BY <1>0, <1>7, <2>1 DEF Nudge, TypeOK, ledger
<1>8. CASE Settle(e)
    <2>1. execs' \subseteq Execs /\ inFlight' \in [Requests -> Slots \cup {0}]
        BY <1>8, LeaveFacts DEF Settle
    <2>2. rows' \in [Requests -> Rows \cup {Absent}]
        BY <1>0, <1>8, CompleteFacts DEF Settle, Matches
    <2>3. told' \in [Requests -> SUBSET (Payloads \X (0..MaxEffects))]
        BY <1>0, <1>8, TellTyped DEF Settle
    <2> QED
        BY <1>8, <2>1, <2>2, <2>3 DEF Settle, TypeOK
<1>9. CASE Fail(e)
    <2>1. execs' \subseteq Execs /\ inFlight' \in [Requests -> Slots \cup {0}]
        BY <1>9, LeaveFacts DEF Fail
    <2>2. rows' \in [Requests -> Rows \cup {Absent}]
        BY <1>9, DiscardFacts DEF Fail
    <2>3. failed' \subseteq Requests
        BY <1>0, <1>9 DEF Fail, TypeOK
    <2>4. faults' \in 0..MaxFaults
        BY <1>9, ReceiptsAssumption DEF Fail, Mishap, TypeOK
    <2> QED
        BY <1>9, <2>1, <2>2, <2>3, <2>4 DEF Fail, TypeOK
<1>10. CASE ObservationEnds(e)
    <2>1. execs' \subseteq Execs /\ inFlight' \in [Requests -> Slots \cup {0}]
        BY <1>10, LeaveFacts DEF ObservationEnds
    <2>2. rows' \in [Requests -> Rows \cup {Absent}]
        <3>1. CASE Matches(r, p)
            BY <1>0, <1>10, <3>1, CompleteFacts DEF ObservationEnds, Matches
        <3>2. CASE ~Matches(r, p)
            BY <1>10, <3>2 DEF ObservationEnds, TypeOK
        <3> QED
            BY <3>1, <3>2
    <2>3. told' \in [Requests -> SUBSET (Payloads \X (0..MaxEffects))]
        BY <1>0, <1>10, TellTyped DEF ObservationEnds
    <2>4. woken' \subseteq Requests \X (0..MaxEffects)
        BY <1>0, <1>10 DEF ObservationEnds, TypeOK
    <2> QED
        BY <1>10, <2>1, <2>2, <2>3, <2>4 DEF ObservationEnds, TypeOK
<1>11. CASE ObservationFails(e)
    <2>1. execs' \subseteq Execs /\ inFlight' \in [Requests -> Slots \cup {0}]
        BY <1>11, LeaveFacts DEF ObservationFails
    <2>3. told' \in [Requests -> SUBSET (Payloads \X (0..MaxEffects))]
        BY <1>0, <1>11, TellTyped DEF ObservationFails
    <2>4. faults' \in 0..MaxFaults
        BY <1>11, ReceiptsAssumption DEF ObservationFails, Mishap, TypeOK
    <2> QED
        BY <1>11, <2>1, <2>3, <2>4 DEF ObservationFails, TypeOK, ledger
<1> HIDE DEF r, p
<1> QED
    BY <1>1, <1>2, <1>3, <1>4, <1>5, <1>6, <1>7, <1>8, <1>9, <1>10, <1>11 DEF Step

LEMMA NextTyped ==
    ASSUME TypeOK, [Next]_vars
    PROVE  TypeOK'
<1>1. CASE \E r \in Requests, p \in Payloads : Call(r, p)
    BY <1>1, CallTyped
<1>2. CASE \E e \in execs : Step(e)
    BY <1>2, StepTyped
<1>3. CASE Restart
    BY <1>3, ReceiptsAssumption DEF Restart, Mishap, TypeOK, ledger, history
<1>4. CASE UNCHANGED vars
    BY <1>4 DEF vars, ledger, memory, history, TypeOK
<1> QED
    BY <1>1, <1>2, <1>3, <1>4 DEF Next

LEMMA InitTyped == Init => TypeOK
<1> SUFFICES ASSUME Init PROVE TypeOK
    OBVIOUS
<1>1. <<>> \in Seq(Payloads) /\ Len(<<>>) = 0
    OBVIOUS
<1>2. effects \in [Requests -> Seq(Payloads)] /\ \A r \in Requests : Len(effects[r]) <= MaxEffects
    BY <1>1, ReceiptsAssumption DEF Init
<1> QED
    BY <1>2, ReceiptsAssumption DEF Init, TypeOK

\* The ledger, the executor's memory and the histories keep their types.
THEOREM ReceiptsTypes == Spec => []TypeOK
BY InitTyped, NextTyped, PTL DEF Spec
-----------------------------------------------------------------------------
(* At most one effect and one handler per request id.                      *)

\* A step of one request id leaves the others as they are, or prunes them.
LEMMA OtherRequests ==
    ASSUME NEW s \in Requests, OnceAt(s),
           s \in pruned => s \in pruned',
           s \notin pruned' =>
               /\ rows'[s] = rows[s] /\ effects'[s] = effects[s]
               /\ inFlight'[s] = inFlight[s] /\ method'[s] = method[s]
               /\ {e \in execs' : e.request = s} = Of(s)
               /\ s \in failed' <=> s \in failed
    PROVE  OnceAt(s)'
<1> SUFFICES ASSUME s \notin pruned' PROVE OnceAt(s)'
    BY DEF OnceAt
<1>1. Of(s)' = Of(s)
    BY DEF Of
<1> QED
    BY <1>1 DEF OnceAt, OwnsRow, Harmless, Matches, Kept

\* The running handler of r is the only one.
LEMMA OnlyHandler ==
    ASSUME TypeOK, NEW e \in execs, OnceAt(e.request), e.request \notin pruned
    PROVE  /\ Leave(e) => Of(e.request)' = {}
           /\ \A g \in Execs : execs' = (execs \ {e}) \cup {g} /\ g.request = e.request
                   => Of(e.request)' = {g}
           /\ inFlight[e.request] /= 0
           /\ PhaseFitsMethod(e, method[e.request])
           /\ OwnsRow(e.request, e)
           /\ e.request \notin failed /\ BeforeEffect(e) => Harmless(e.request, e.payload)
<1>1. e \in Of(e.request) /\ \A f \in Of(e.request) : f = e
    BY DEF OnceAt, Of
<1>2. ASSUME Leave(e) PROVE Of(e.request)' = {}
    BY <1>1, <1>2 DEF Leave, Of
<1>3. ASSUME NEW g \in Execs, execs' = (execs \ {e}) \cup {g}, g.request = e.request
      PROVE  Of(e.request)' = {g}
    BY <1>1, <1>3 DEF Of
<1> QED
    BY <1>1, <1>2, <1>3 DEF OnceAt

LEMMA CallOnce ==
    ASSUME OnceInv, NEW r \in Requests, NEW p \in Payloads, Call(r, p), NEW s \in Requests
    PROVE  OnceAt(s)'
<1> USE DEF history
<1>0. /\ TypeOK /\ OnceAt(s) /\ OnceAt(r)
      /\ 0 \in 0..MaxEffects /\ "queued" \in Phases /\ "observing" \in Phases
    BY ReceiptsAssumption DEF OnceInv, Phases
<1>1. ASSUME NEW phase \in Phases, NEW n \in 0..MaxEffects, Enter(r, p, phase, n)
      PROVE  /\ inFlight'[r] /= 0
             /\ r /= s => inFlight'[s] = inFlight[s] /\ {e \in execs' : e.request = s} = Of(s)
             /\ Of(r) = {} => \E g \in Execs : /\ Of(r)' = {g} /\ g.payload = p
                                             /\ g.phase = phase /\ g.effect = n
    <2>1. PICK t \in Slots :
              /\ execs' = execs \cup {[request |-> r, payload |-> p, slot |-> t,
                                       phase |-> phase, effect |-> n]}
              /\ inFlight' = [inFlight EXCEPT ![r] = t]
        BY <1>0, <1>1, EnterFacts
    <2> DEFINE g == [request |-> r, payload |-> p, slot |-> t, phase |-> phase, effect |-> n]
    <2>2. g \in Execs /\ g.request = r /\ g.payload = p /\ g.phase = phase /\ g.effect = n
        BY DEF Execs
    <2>3. execs' = execs \cup {g}
        BY <2>1
    <2> HIDE DEF g
    <2>4. inFlight'[r] = t /\ (r /= s => inFlight'[s] = inFlight[s])
        BY <2>1, <1>0 DEF TypeOK
    <2>5. t /= 0
        BY DEF Slots
    <2> QED
        BY <2>2, <2>3, <2>4, <2>5 DEF Of
<1>2. ASSUME inFlight[r] = 0, r \notin pruned PROVE Of(r) = {}
    BY <1>0, <1>2 DEF OnceAt
<1>3. CASE StartCall(r, p)
    <2>1. /\ ~Kept(r) /\ Enter(r, p, "queued", 0)
          /\ \/ method[r] = "worker_start" /\ inFlight[r] = 0 /\ UNCHANGED <<rows, pruned>>
             \/ method[r] /= "worker_start" /\ InsertRow(r, p)
          /\ UNCHANGED <<method, effects, told, woken, failed, faults>>
        BY <1>3 DEF StartCall
    <2>2. /\ pruned \subseteq pruned' /\ (r \in pruned' => r \in pruned)
          /\ s /= r => rows'[s] = rows[s] \/ s \in pruned'
          /\ \/ method[r] = "worker_start" /\ rows'[r] = rows[r]
             \/ method[r] /= "worker_start" /\ rows'[r] = PendingRow(p)
        BY <1>0, <2>1, InsertRowFacts
    <2>3. CASE s /= r
        BY <1>0, <1>1, <2>1, <2>2, <2>3, OtherRequests
    <2>4. CASE s = r
        <3> SUFFICES ASSUME r \notin pruned' PROVE OnceAt(r)'
            BY <2>4 DEF OnceAt
        <3>1. Of(r) = {}
            <4>1. CASE method[r] = "worker_start"
                BY <1>2, <2>1, <2>2, <4>1
            <4>2. CASE method[r] /= "worker_start"
                BY <1>0, <2>1, <2>2, <4>2 DEF OnceAt, OwnsRow, Matches
            <4> QED
                BY <4>1, <4>2
        <3>2. PICK g \in Execs : Of(r)' = {g} /\ g.payload = p /\ g.phase = "queued"
            BY <1>0, <1>1, <2>1, <3>1
        <3>3. inFlight'[r] /= 0
            BY <1>0, <1>1, <2>1
        <3>4. r \notin failed => effects[r] = <<>>
            BY <1>0, <2>1, <2>2 DEF OnceAt
        <3>5. OwnsRow(r, g)' /\ PhaseFitsMethod(g, method'[r])
            BY <2>1, <2>2, <3>2 DEF OwnsRow, Matches, Kept, Recorded, PhaseFitsMethod, PendingRow
        <3> QED
            BY <1>0, <2>1, <2>2, <3>2, <3>3, <3>4, <3>5 DEF OnceAt, Harmless
    <2> QED
        BY <2>3, <2>4
<1>4. CASE ResumeCall(r, p)
    <2>1. /\ Matches(r, p) /\ rows[r].state = "pending" /\ inFlight[r] = 0 /\ MayResume(r)
          /\ Enter(r, p, "queued", 0)
          /\ UNCHANGED <<method, rows, effects, pruned, failed>>
        BY <1>4 DEF ResumeCall, ledger
    <2>3. CASE s /= r
        BY <1>0, <1>1, <2>1, <2>3, OtherRequests
    <2>4. CASE s = r
        <3> SUFFICES ASSUME r \notin pruned PROVE OnceAt(r)'
            BY <2>1, <2>4 DEF OnceAt
        <3>2. PICK g \in Execs : Of(r)' = {g} /\ g.payload = p /\ g.phase = "queued"
            BY <1>0, <1>1, <1>2, <2>1
        <3>3. inFlight'[r] /= 0
            BY <1>0, <1>1, <2>1
        <3>4. r \notin failed => Harmless(r, p)
            BY <1>0, <2>1 DEF OnceAt, MayResume, Matches
        <3>5. OwnsRow(r, g)' /\ PhaseFitsMethod(g, method'[r])
            BY <2>1, <3>2 DEF OwnsRow, Matches, Kept, Recorded, PhaseFitsMethod
        <3> QED
            BY <1>0, <2>1, <3>2, <3>3, <3>4, <3>5 DEF OnceAt, Harmless, Kept
    <2> QED
        BY <2>3, <2>4
<1>5. CASE ReplayReceipt(r, p)
    <2>1. UNCHANGED <<method, rows, effects, execs, inFlight, pruned, failed>>
        BY <1>5 DEF ReplayReceipt, ledger, memory
    <2> QED
        BY <1>0, <2>1, OtherRequests DEF Of
<1>6. CASE ObserveReceipt(r, p)
    <2>0. rows[r].effect \in 0..MaxEffects
        BY <1>0, <1>6, RowFields DEF ObserveReceipt, Matches, Kept, TypeOK, Rows
    <2>1. /\ Matches(r, p) /\ rows[r].state = "completed" /\ inFlight[r] = 0
          /\ Enter(r, p, "observing", rows[r].effect)
          /\ UNCHANGED <<method, rows, effects, pruned, failed>>
        BY <1>6 DEF ObserveReceipt, ledger
    <2>3. CASE s /= r
        BY <1>0, <1>1, <2>0, <2>1, <2>3, OtherRequests
    <2>4. CASE s = r
        <3> SUFFICES ASSUME r \notin pruned PROVE OnceAt(r)'
            BY <2>1, <2>4 DEF OnceAt
        <3>2. PICK g \in Execs : /\ Of(r)' = {g} /\ g.payload = p
                                /\ g.phase = "observing" /\ g.effect = rows[r].effect
            BY <1>0, <1>1, <1>2, <2>0, <2>1
        <3>3. inFlight'[r] /= 0
            BY <1>0, <1>1, <2>0, <2>1
        <3>5. OwnsRow(r, g)' /\ PhaseFitsMethod(g, method'[r]) /\ ~BeforeEffect(g)
            BY <2>1, <3>2 DEF OwnsRow, Matches, Kept, Recorded, PhaseFitsMethod, BeforeEffect
        <3> QED
            BY <1>0, <2>1, <3>2, <3>3, <3>5 DEF OnceAt, Harmless, Kept, BeforeEffect
    <2> QED
        BY <2>3, <2>4
<1> QED
    BY <1>3, <1>4, <1>5, <1>6 DEF Call
\* The common part of the steps of a handler that runs on, in a new phase.
LEMMA AdvanceOnce ==
    ASSUME TypeOK, NEW e \in execs, OnceAt(e.request), NEW phase \in Phases,
           NEW n \in 0..MaxEffects, Advance(e, phase, n), e.request \notin pruned
    PROVE  \E g \in Execs : /\ Of(e.request)' = {g} /\ g.payload = e.payload
                            /\ g.phase = phase /\ g.effect = n
                            /\ inFlight'[e.request] /= 0
BY AdvanceFacts, OnlyHandler

LEMMA StepElsewhere ==
    ASSUME TypeOK, NEW e \in execs, NEW s \in Requests, s /= e.request
    PROVE  /\ \A phase \in Phases, n \in 0..MaxEffects : Advance(e, phase, n) =>
                 {f \in execs' : f.request = s} = Of(s) /\ inFlight'[s] = inFlight[s]
           /\ Leave(e) =>
                 {f \in execs' : f.request = s} = Of(s) /\ inFlight'[s] = inFlight[s]
<1>1. ASSUME NEW phase \in Phases, NEW n \in 0..MaxEffects, Advance(e, phase, n)
      PROVE  {f \in execs' : f.request = s} = Of(s) /\ inFlight'[s] = inFlight[s]
    BY <1>1, AdvanceFacts DEF Of
<1>2. ASSUME Leave(e)
      PROVE  {f \in execs' : f.request = s} = Of(s) /\ inFlight'[s] = inFlight[s]
    BY <1>2, LeaveFacts DEF Of
<1> QED
    BY <1>1, <1>2

\* The effect of an intact request id whose handler had none before is its
\* first, or the release that was made before.
LEMMA FirstEffect ==
    ASSUME TypeOK, NEW r \in Requests, NEW p \in Payloads, NEW n \in 1..MaxEffects,
           Apply(r, p, n), Harmless(r, p)
    PROVE  effects'[r] = <<p>> /\ n = 1
<1>0. effects[r] \in Seq(Payloads)
    BY DEF TypeOK
<1>1. CASE effects[r] = <<>>
    BY <1>0, <1>1, ApplyFacts
<1>2. CASE method[r] = "release" /\ effects[r] = <<p>>
    <2>1. Released(r, p)
        <3>1. 1 \in DOMAIN effects[r] /\ effects[r][1] = p
            BY <1>2
        <3> QED
            BY <1>2, <3>1 DEF Released
    <2>2. effects' = effects /\ n \in DOMAIN effects[r]
        BY <2>1 DEF Apply
    <2> QED
        BY <1>2, <2>2
<1> QED
    BY <1>1, <1>2 DEF Harmless

LEMMA StepOnce ==
    ASSUME OnceInv, NEW e \in execs, Step(e), NEW s \in Requests
    PROVE  OnceAt(s)'
<1> USE DEF history
<1> DEFINE r == e.request
           p == e.payload
<1>0. /\ r \in Requests /\ p \in Payloads /\ e.phase \in Phases /\ e.effect \in 0..MaxEffects
      /\ 0 \in 0..MaxEffects
      /\ {"checkpointed", "possible", "effected", "recorded", "nudged", "accepted"} \subseteq Phases
      /\ \A n \in 1..MaxEffects : n \in 0..MaxEffects
      /\ TypeOK /\ OnceAt(s) /\ OnceAt(r)
    BY ExecFields, ReceiptsAssumption DEF Phases, OnceInv
<1>a. ASSUME r \notin pruned
      PROVE  /\ Leave(e) => Of(r)' = {}
             /\ PhaseFitsMethod(e, method[r]) /\ OwnsRow(r, e)
             /\ r \notin failed /\ BeforeEffect(e) => Harmless(r, p)
    BY <1>0, <1>a, OnlyHandler
<1>b. ASSUME NEW phase \in Phases, NEW n \in 0..MaxEffects, Advance(e, phase, n), r \notin pruned
      PROVE  \E g \in Execs : /\ Of(r)' = {g} /\ g.payload = p
                              /\ g.phase = phase /\ g.effect = n
                              /\ inFlight'[r] /= 0
    BY <1>0, <1>b, AdvanceOnce
<1>c. ASSUME s /= r
      PROVE  /\ \A phase \in Phases, n \in 0..MaxEffects : Advance(e, phase, n) =>
                    {f \in execs' : f.request = s} = Of(s) /\ inFlight'[s] = inFlight[s]
             /\ Leave(e) =>
                    {f \in execs' : f.request = s} = Of(s) /\ inFlight'[s] = inFlight[s]
    BY <1>0, <1>c, StepElsewhere
<1>d. ASSUME s = r, r \in pruned, pruned \subseteq pruned' PROVE OnceAt(s)'
    BY <1>d DEF OnceAt
<1> HIDE DEF r, p
<1>e. Len(<<p>>) = 1 /\ Len(<<p>>) <= 1
    OBVIOUS
<1>1. CASE Checkpoint(e)
    <2>1. /\ method[r] = "worker_done" /\ e.phase = "queued"
          /\ Matches(r, p) /\ rows[r].state = "pending"
          /\ rows' = [rows EXCEPT ![r].checkpoint = TRUE]
          /\ Advance(e, "checkpointed", 0)
          /\ UNCHANGED <<method, effects, told, woken, pruned, failed, faults>>
        BY <1>1 DEF Checkpoint, r, p
    <2>2. rows[r] \in Rows
        BY <1>0, <2>1, RowFields DEF Matches, Kept, TypeOK
    <2>3. /\ rows'[r].state = "pending" /\ rows'[r].payload = rows[r].payload
          /\ s /= r => rows'[s] = rows[s]
        BY <1>0, <2>1, <2>2 DEF TypeOK, Rows
    <2>4. CASE s /= r
        BY <1>0, <1>c, <2>1, <2>3, <2>4, OtherRequests
    <2>5. CASE s = r /\ r \notin pruned
        <3>1. PICK g \in Execs : /\ Of(r)' = {g} /\ g.payload = p
                                /\ g.phase = "checkpointed" /\ inFlight'[r] /= 0
            BY <1>0, <1>b, <2>1, <2>5
        <3>2. OwnsRow(r, g)' /\ PhaseFitsMethod(g, method'[r])
            BY <2>1, <2>3, <3>1 DEF OwnsRow, Matches, Kept, Recorded, PhaseFitsMethod
        <3>3. r \notin failed => effects[r] = <<>>
            BY <1>a, <2>1, <2>5 DEF Harmless, BeforeEffect
        <3> QED
            BY <1>0, <2>1, <2>3, <2>5, <3>1, <3>2, <3>3 DEF OnceAt, Harmless
    <2> QED
        BY <1>d, <2>1, <2>4, <2>5
<1>2. CASE CommitReport(e)
    <2>1. PICK n \in 1..MaxEffects :
              Apply(r, p, n) /\ Complete(r, n, TRUE) /\ Advance(e, "recorded", n)
        BY <1>2 DEF CommitReport, r, p
    <2>2. /\ method[r] = "worker_done" /\ e.phase = "checkpointed" /\ Matches(r, p)
          /\ UNCHANGED <<method, told, woken, pruned, failed, faults>>
        BY <1>2 DEF CommitReport, r, p
    <2>3. /\ rows'[r].state = "completed" /\ rows'[r].effect = n /\ rows'[r].payload = rows[r].payload
          /\ s /= r => rows'[s] = rows[s]
        BY <1>0, <2>1, <2>2, CompleteFacts DEF Matches
    <2>4. CASE s /= r
        BY <1>0, <1>c, <2>1, <2>2, <2>3, <2>4, ApplyFacts, OtherRequests
    <2>5. CASE s = r /\ r \notin pruned
        <3>1. PICK g \in Execs : /\ Of(r)' = {g} /\ g.payload = p /\ g.effect = n
                                /\ g.phase = "recorded" /\ inFlight'[r] /= 0
            BY <1>0, <1>b, <2>1, <2>5
        <3>2. OwnsRow(r, g)' /\ PhaseFitsMethod(g, method'[r]) /\ ~BeforeEffect(g)
            BY <2>2, <2>3, <3>1 DEF OwnsRow, Matches, Kept, Recorded, PhaseFitsMethod, BeforeEffect
        <3>3. r \notin failed => effects'[r] = <<p>>
            BY <1>0, <1>a, <2>1, <2>2, <2>5, FirstEffect DEF BeforeEffect
        <3>4. r \notin failed => Len(effects'[r]) <= 1
            BY <1>e, <3>3
        <3> QED
            BY <3>4, <1>0, <2>2, <2>3, <2>5, <3>1, <3>2, <3>3 DEF OnceAt, Kept, BeforeEffect
    <2> QED
        BY <1>d, <2>2, <2>4, <2>5
<1>3. CASE AcceptStart(e)
    <2>1. PICK n \in 1..MaxEffects : Apply(r, p, n) /\ Advance(e, "accepted", n)
        BY <1>3 DEF AcceptStart, r, p
    <2>2. /\ method[r] = "worker_start" /\ e.phase = "queued" /\ ~Kept(r) /\ InsertRow(r, p)
          /\ UNCHANGED <<method, told, woken, failed, faults>>
        BY <1>3 DEF AcceptStart, r, p
    <2>3. /\ rows'[r] = PendingRow(p) /\ pruned \subseteq pruned' /\ (r \in pruned' => r \in pruned)
          /\ s /= r => rows'[s] = rows[s] \/ s \in pruned'
        BY <1>0, <2>2, InsertRowFacts
    <2>4. CASE s /= r
        BY <1>0, <1>c, <2>1, <2>2, <2>3, <2>4, ApplyFacts, OtherRequests
    <2>5. CASE s = r /\ r \notin pruned
        <3>1. PICK g \in Execs : /\ Of(r)' = {g} /\ g.payload = p /\ g.effect = n
                                /\ g.phase = "accepted" /\ inFlight'[r] /= 0
            BY <1>0, <1>b, <2>1, <2>5
        <3>2. OwnsRow(r, g)' /\ PhaseFitsMethod(g, method'[r]) /\ ~BeforeEffect(g)
            BY <2>2, <2>3, <3>1 DEF OwnsRow, Matches, Kept, Recorded, PhaseFitsMethod, BeforeEffect, PendingRow
        <3>3. r \notin failed => effects'[r] = <<p>>
            BY <1>0, <1>a, <2>1, <2>2, <2>5, FirstEffect DEF BeforeEffect
        <3>4. r \notin failed => Len(effects'[r]) <= 1
            BY <1>e, <3>3
        <3> QED
            BY <3>4, <1>0, <2>2, <2>3, <2>5, <3>1, <3>2, <3>3 DEF OnceAt, Kept, PendingRow, BeforeEffect
    <2> QED
        BY <1>d, <2>3, <2>4, <2>5
<1>4. CASE MarkEffectPossible(e)
    <2>1. /\ method[r] = "prompt" /\ e.phase = "queued" /\ Advance(e, "possible", 0)
          /\ UNCHANGED <<method, rows, effects, told, woken, pruned, failed, faults>>
        BY <1>4 DEF MarkEffectPossible, ledger, r
    <2>4. CASE s /= r
        BY <1>0, <1>c, <2>1, <2>4, OtherRequests
    <2>5. CASE s = r /\ r \notin pruned
        <3>1. PICK g \in Execs : /\ Of(r)' = {g} /\ g.payload = p /\ g.effect = 0
                                /\ g.phase = "possible" /\ inFlight'[r] /= 0
            BY <1>0, <1>b, <2>1, <2>5
        <3>2. OwnsRow(r, g)' /\ PhaseFitsMethod(g, method'[r])
            BY <1>a, <2>1, <2>5, <3>1 DEF OwnsRow, Matches, Kept, Recorded, PhaseFitsMethod, p
        <3>3. r \notin failed => Harmless(r, p)
            BY <1>a, <2>1, <2>5 DEF BeforeEffect
        <3> QED
            BY <1>0, <2>1, <2>5, <3>1, <3>2, <3>3 DEF OnceAt, Harmless, Kept
    <2> QED
        BY <1>d, <2>1, <2>4, <2>5
<1>5. CASE ApplyEffect(e)
    <2>1. PICK n \in 1..MaxEffects : Apply(r, p, n) /\ Advance(e, "effected", n)
        BY <1>5 DEF ApplyEffect, r, p
    <2>2. /\ method[r] \in {"plain", "send", "release", "prompt"}
          /\ e.phase \in {"queued", "possible"}
          /\ UNCHANGED <<method, rows, told, woken, pruned, failed, faults>>
        BY <1>5 DEF ApplyEffect, EffectFrom, AllMethods, r
    <2>4. CASE s /= r
        BY <1>0, <1>c, <2>1, <2>2, <2>4, ApplyFacts, OtherRequests
    <2>5. CASE s = r /\ r \notin pruned
        <3>1. PICK g \in Execs : /\ Of(r)' = {g} /\ g.payload = p /\ g.effect = n
                                /\ g.phase = "effected" /\ inFlight'[r] /= 0
            BY <1>0, <1>b, <2>1, <2>5
        <3>2. OwnsRow(r, g)' /\ PhaseFitsMethod(g, method'[r]) /\ ~BeforeEffect(g) /\ Matches(r, p)
            BY <1>a, <2>2, <2>5, <3>1
            DEF OwnsRow, Matches, Kept, Recorded, PhaseFitsMethod, BeforeEffect, p
        <3>3. r \notin failed => effects'[r] = <<p>>
            BY <1>0, <1>a, <2>1, <2>2, <2>5, FirstEffect DEF BeforeEffect
        <3>4. r \notin failed => Len(effects'[r]) <= 1
            BY <1>e, <3>3
        <3> QED
            BY <3>4, <1>0, <2>2, <2>5, <3>1, <3>2, <3>3 DEF OnceAt, Kept, Matches, Harmless, BeforeEffect
    <2> QED
        BY <1>d, <2>2, <2>4, <2>5
<1>6. CASE RecordReceipt(e)
    <2>2. /\ method[r] \in {"send", "prompt"} /\ e.phase = "effected" /\ Matches(r, p)
          /\ Complete(r, e.effect, method[r] = "send") /\ Advance(e, "recorded", e.effect)
          /\ UNCHANGED <<method, effects, told, woken, pruned, failed, faults>>
        BY <1>6 DEF RecordReceipt, r, p
    <2>3. /\ rows'[r].state = "completed" /\ rows'[r].effect = e.effect /\ rows'[r].payload = rows[r].payload
          /\ s /= r => rows'[s] = rows[s]
        BY <1>0, <2>2, CompleteFacts DEF Matches
    <2>4. CASE s /= r
        BY <1>0, <1>c, <2>2, <2>3, <2>4, OtherRequests
    <2>5. CASE s = r /\ r \notin pruned
        <3>1. PICK g \in Execs : /\ Of(r)' = {g} /\ g.payload = p /\ g.effect = e.effect
                                /\ g.phase = "recorded" /\ inFlight'[r] /= 0
            BY <1>0, <1>b, <2>2, <2>5
        <3>2. OwnsRow(r, g)' /\ PhaseFitsMethod(g, method'[r]) /\ ~BeforeEffect(g)
            BY <2>2, <2>3, <3>1 DEF OwnsRow, Matches, Kept, Recorded, PhaseFitsMethod, BeforeEffect
        <3> QED
            BY <1>0, <2>2, <2>3, <2>5, <3>1, <3>2 DEF OnceAt, Kept
    <2> QED
        BY <1>d, <2>2, <2>4, <2>5
<1>7. CASE Nudge(e)
    <2>2. /\ method[r] \in Nudging /\ e.phase = "recorded" /\ Advance(e, "nudged", e.effect)
          /\ UNCHANGED <<method, rows, effects, told, pruned, failed, faults>>
        BY <1>7 DEF Nudge, ledger, r
    <2>4. CASE s /= r
        BY <1>0, <1>c, <2>2, <2>4, OtherRequests
    <2>5. CASE s = r /\ r \notin pruned
        <3>1. PICK g \in Execs : /\ Of(r)' = {g} /\ g.payload = p /\ g.effect = e.effect
                                /\ g.phase = "nudged" /\ inFlight'[r] /= 0
            BY <1>0, <1>b, <2>2, <2>5
        <3>2. OwnsRow(r, g)' /\ PhaseFitsMethod(g, method'[r]) /\ ~BeforeEffect(g)
            BY <1>a, <2>2, <2>5, <3>1
            DEF OwnsRow, Matches, Kept, Recorded, PhaseFitsMethod, BeforeEffect, p
        <3> QED
            BY <1>0, <2>2, <2>5, <3>1, <3>2 DEF OnceAt, Kept, Harmless
    <2> QED
        BY <1>d, <2>2, <2>4, <2>5
<1>8. CASE Settle(e)
    <2>2. /\ Matches(r, p) /\ Complete(r, e.effect, FALSE) /\ Leave(e)
          /\ UNCHANGED <<method, effects, woken, pruned, failed, faults>>
        BY <1>8 DEF Settle, r, p
    <2>3. rows'[r].state = "completed" /\ (s /= r => rows'[s] = rows[s])
        BY <1>0, <2>2, CompleteFacts DEF Matches
    <2>4. CASE s /= r
        BY <1>0, <1>c, <2>2, <2>3, <2>4, OtherRequests
    <2>5. CASE s = r /\ r \notin pruned
        BY <1>0, <1>a, <2>2, <2>3, <2>5 DEF OnceAt, Kept
    <2> QED
        BY <1>d, <2>2, <2>4, <2>5
<1>9. CASE Fail(e)
    <2>0. PICK unknown \in BOOLEAN :
              /\ Discard(e, unknown)
              /\ failed' = IF ~KeepsRow(e, unknown) /\ AfterEffect(e)
                           THEN failed \cup {e.request} ELSE failed
        BY <1>9 DEF Fail
    <2>1. /\ e.phase /= "observing" /\ Discard(e, unknown) /\ Leave(e)
          /\ failed' = IF ~KeepsRow(e, unknown) /\ AfterEffect(e)
                       THEN failed \cup {r} ELSE failed
          /\ UNCHANGED <<method, effects, told, woken, pruned>>
        BY <1>9, <2>0 DEF Fail, r
    <2>2. /\ s /= r => rows'[s] = rows[s] /\ (s \in failed' <=> s \in failed)
          /\ \/ rows' = rows
             \/ rows'[r] = Absent /\ rows[r].state = "pending" /\ ~KeepsRow(e, unknown)
        BY <1>0, <2>1, DiscardFacts DEF r
    <2>4. CASE s /= r
        BY <1>0, <1>c, <2>1, <2>2, <2>4, OtherRequests
    <2>5. CASE s = r /\ r \notin pruned
        <3>1. Of(r)' = {} /\ PhaseFitsMethod(e, method[r]) /\ OwnsRow(r, e)
            BY <1>a, <2>1, <2>5
        <3>2. r \in failed' => method[r] \notin {"worker_done", "prompt"}
            <4>1. CASE r \in failed
                BY <1>0, <2>5, <4>1 DEF OnceAt
            <4>2. CASE ~KeepsRow(e, unknown) /\ AfterEffect(e)
                BY <3>1, <4>2 DEF KeepsRow, AfterEffect, PhaseFitsMethod, r
            <4> QED
                BY <2>1, <4>1, <4>2
        <3>3. ASSUME r \notin failed', rows' /= rows PROVE effects[r] = <<>>
            <4>1. ~KeepsRow(e, unknown) /\ ~AfterEffect(e) /\ r \notin failed
                BY <2>1, <2>2, <3>3
            <4>2. ~Recorded(e)
                BY <2>2, <3>1, <3>3 DEF OwnsRow
            <4>3. BeforeEffect(e)
                BY <1>0, <4>1, <4>2 DEF AfterEffect, Recorded, BeforeEffect, Phases
            <4>4. Harmless(r, p)
                BY <1>a, <2>5, <4>1, <4>3
            <4> QED
                BY <4>1, <4>4 DEF Harmless, AfterEffect, r
        <3>4. r \notin failed' => r \notin failed
            BY <2>1
        <3>5. CASE rows' = rows
            BY <1>0, <2>1, <2>5, <3>1, <3>2, <3>4, <3>5 DEF OnceAt, Kept, Harmless
        <3>6. CASE rows' /= rows
            <4>1. rows'[r].state = "absent" /\ (r \notin failed' => effects'[r] = <<>>)
                BY <2>1, <2>2, <3>3, <3>6 DEF Absent
            <4> QED
                BY <1>0, <2>1, <2>5, <3>1, <3>2, <4>1 DEF OnceAt
        <3> QED
            BY <3>5, <3>6
    <2> QED
        BY <1>d, <2>1, <2>4, <2>5
<1>10. CASE ObservationEnds(e)
    <2>1. /\ IF Matches(r, p) THEN Complete(r, e.effect, FALSE) ELSE UNCHANGED rows
          /\ Leave(e) /\ e.phase = "observing"
          /\ UNCHANGED <<method, effects, pruned, failed, faults>>
        BY <1>10 DEF ObservationEnds, r, p
    <2>2. Matches(r, p) => rows'[r].state = "completed" /\ (s /= r => rows'[s] = rows[s])
        BY <1>0, <2>1, CompleteFacts DEF Matches
    <2>4. CASE s /= r
        BY <1>0, <1>c, <2>1, <2>2, <2>4, OtherRequests
    <2>5. CASE s = r /\ r \notin pruned
        <3>1. Matches(r, p)
            BY <1>a, <2>1, <2>5 DEF OwnsRow, p
        <3> QED
            BY <1>0, <1>a, <2>1, <2>2, <2>5, <3>1 DEF OnceAt, Kept
    <2> QED
        BY <1>d, <2>1, <2>4, <2>5
<1>11. CASE ObservationFails(e)
    <2>1. Leave(e) /\ UNCHANGED <<method, rows, effects, woken, pruned, failed>>
        BY <1>11 DEF ObservationFails, ledger
    <2>4. CASE s /= r
        BY <1>0, <1>c, <2>1, <2>4, OtherRequests
    <2>5. CASE s = r /\ r \notin pruned
        BY <1>0, <1>a, <2>1, <2>5 DEF OnceAt, Kept, Harmless
    <2> QED
        BY <1>d, <2>1, <2>4, <2>5
<1> QED
    BY <1>1, <1>2, <1>3, <1>4, <1>5, <1>6, <1>7, <1>8, <1>9, <1>10, <1>11 DEF Step

LEMMA OnceInvInitial == Init => OnceInv
<1> SUFFICES ASSUME Init PROVE OnceInv
    OBVIOUS
<1>1. ASSUME NEW r \in Requests
      PROVE  Of(r) = {} /\ effects[r] = <<>> /\ rows[r] = Absent /\ r \notin failed /\ Len(effects[r]) = 0
    BY DEF Init, Of
<1> QED
    BY <1>1, InitTyped DEF OnceInv, OnceAt, Absent

LEMMA OnceInvPreserved ==
    ASSUME OnceInv, [Next]_vars
    PROVE  OnceInv'
<1>0. TypeOK'
    BY NextTyped DEF OnceInv
<1>1. ASSUME NEW s \in Requests PROVE OnceAt(s)'
    <2>1. CASE \E r \in Requests, p \in Payloads : Call(r, p)
        BY <1>1, <2>1, CallOnce
    <2>2. CASE \E e \in execs : Step(e)
        BY <1>1, <2>2, StepOnce
    <2>3. CASE Restart
        <3>1. Of(s)' = {} /\ OnceAt(s) /\ UNCHANGED <<method, rows, effects, pruned, failed>>
            BY <1>1, <2>3 DEF Restart, Of, OnceInv, ledger, history
        <3> QED
            BY <3>1 DEF OnceAt, Kept, Harmless
    <2>4. CASE UNCHANGED vars
        <3>1. OnceAt(s) /\ UNCHANGED <<method, rows, effects, execs, inFlight, pruned, failed>>
            BY <1>1, <2>4 DEF vars, OnceInv, ledger, memory, history
        <3> QED
            BY <3>1 DEF OnceAt, Kept, Harmless, OwnsRow, Matches, Of
    <2> QED
        BY <2>1, <2>2, <2>3, <2>4 DEF Next
<1> QED
    BY <1>0, <1>1 DEF OnceInv

LEMMA OnceInvHolds == Spec => []OnceInv
BY OnceInvInitial, OnceInvPreserved, PTL DEF Spec

\* Repeats, failures and restarts do not repeat the effect of a request id
\* whose receipt was neither pruned nor discarded after it.
THEOREM ReceiptsAtMostOnce == Spec => []AtMostOnce
<1>1. OnceInv => AtMostOnce
    BY DEF OnceInv, OnceAt, AtMostOnce
<1> QED
    BY <1>1, OnceInvHolds, PTL

\* Calls with one request id never run two handlers at a time.
THEOREM ReceiptsOneExecution == Spec => []OneExecution
<1>1. OnceInv => OneExecution
    <2> SUFFICES ASSUME OnceInv, NEW e \in execs, NEW f \in execs, e.request = f.request
                 PROVE  e = f \/ e.request \in pruned
        BY DEF OneExecution
    <2>1. e.request \in Requests /\ OnceAt(e.request) /\ e \in Of(e.request) /\ f \in Of(e.request)
        BY ExecFields DEF OnceInv, Of
    <2> QED
        BY <2>1 DEF OnceAt
<1> QED
    BY <1>1, OnceInvHolds, PTL

\* A durable effect keeps its row.
THEOREM ReceiptsEffectKeepsItsRow == Spec => []EffectKeepsItsRow
<1>1. OnceInv => EffectKeepsItsRow
    BY DEF OnceInv, OnceAt, EffectKeepsItsRow
<1> QED
    BY <1>1, OnceInvHolds, PTL
-----------------------------------------------------------------------------
(* Answers agree with the receipt, and announced mail was announced.       *)

\* Effects are only ever added, so that what was reported stays right.
LEMMA ReportsKept ==
    ASSUME TypeOK, NEW r \in Requests, NEW x, NEW n \in Nat, Reports(r, x, n),
           \/ effects'[r] = effects[r]
           \/ \E p \in Payloads : effects'[r] = Append(effects[r], p)
    PROVE  Reports(r, x, n)'
<1>1. effects[r] \in Seq(Payloads)
    BY DEF TypeOK
<1>2. CASE effects'[r] = effects[r]
    BY <1>2 DEF Reports
<1>3. ASSUME NEW p \in Payloads, effects'[r] = Append(effects[r], p)
      PROVE  Reports(r, x, n)'
    <2>1. /\ Len(effects'[r]) = Len(effects[r]) + 1
          /\ \A i \in 1..Len(effects[r]) : effects'[r][i] = effects[r][i]
        BY <1>1, <1>3
    <2>2. Len(effects[r]) \in Nat
        BY <1>1
    <2> QED
        BY <2>1, <2>2 DEF Reports
<1> QED
    BY <1>2, <1>3

LEMMA NewReport ==
    ASSUME TypeOK, NEW r \in Requests, NEW p \in Payloads, NEW n \in 1..MaxEffects, Apply(r, p, n)
    PROVE  /\ Reports(r, p, n)'
           /\ \/ effects'[r] = effects[r]
              \/ \E q \in Payloads : effects'[r] = Append(effects[r], q)
<1>1. effects[r] \in Seq(Payloads) /\ Len(effects[r]) \in Nat
    BY DEF TypeOK
<1>2. CASE effects' = effects /\ n \in 1..Len(effects[r]) /\ effects[r][n] = p
    BY <1>1, <1>2 DEF Reports
<1>3. CASE effects'[r] = Append(effects[r], p) /\ n = Len(effects[r]) + 1
    <2>1. Len(effects'[r]) = n /\ effects'[r][n] = p
        BY <1>1, <1>3
    <2> QED
        BY <1>1, <1>3, <2>1 DEF Reports
<1> QED
    BY <1>2, <1>3, ApplyFacts

LEMMA ReportsNothing ==
    ASSUME TypeOK, NEW r \in Requests, NEW x
    PROVE  Reports(r, x, 0)
<1>1. effects[r] \in Seq(Payloads) /\ Len(effects[r]) \in Nat
    BY DEF TypeOK
<1> QED
    BY <1>1 DEF Reports

LEMMA AnswerNumbers ==
    ASSUME TypeOK, NEW r \in Requests
    PROVE  /\ Kept(r) => rows[r].effect \in Nat
           /\ \A e \in Of(r) : e.effect \in Nat
           /\ \A a \in told[r] : a[2] \in Nat /\ a = <<a[1], a[2]>>
<1>1. Kept(r) => rows[r].effect \in Nat
    BY RowFields, ReceiptsAssumption DEF TypeOK, Kept, Rows
<1>2. \A e \in Of(r) : e.effect \in Nat
    BY ReceiptsAssumption DEF TypeOK, Of, Execs
<1>3. told[r] \subseteq Payloads \X (0..MaxEffects)
    BY DEF TypeOK
<1> QED
    BY <1>1, <1>2, <1>3, ReceiptsAssumption

LEMMA OtherAnswers ==
    ASSUME TypeOK, NEW s \in Requests, AnswerAt(s), method' = method,
           rows'[s] = rows[s] \/ (s \in pruned' /\ rows'[s] = Absent),
           effects'[s] = effects[s], told'[s] = told[s],
           {e \in execs' : e.request = s} = Of(s),
           woken \subseteq woken', s \in pruned => s \in pruned'
    PROVE  AnswerAt(s)'
<1>1. Of(s)' = Of(s)
    BY DEF Of
<1>2. CASE rows'[s] = rows[s]
    BY <1>1, <1>2 DEF AnswerAt, Reports, Announced, Kept
<1>3. CASE s \in pruned' /\ rows'[s] = Absent
    <2>1. rows'[s].state = "absent"
        BY <1>3 DEF Absent
    <2> QED
        BY <1>1, <1>3, <2>1 DEF AnswerAt, Reports, Announced, Kept
<1> QED
    BY <1>2, <1>3

\* What is to be shown of the request id that a step is about.
LEMMA SameAnswers ==
    ASSUME TypeOK, NEW r \in Requests, AnswerAt(r), woken \subseteq woken',
           \/ effects'[r] = effects[r]
           \/ \E q \in Payloads : effects'[r] = Append(effects[r], q),
           Kept(r)' => Reports(r, rows[r].payload, rows[r].effect)',
           \A g \in Of(r)' : g \in Of(r) \/ (Reports(r, g.payload, g.effect)'
                                           /\ (g.phase = "nudged" => <<r, g.effect>> \in woken')),
           \A a \in told'[r] : a \in told[r] \/ Reports(r, a[1], a[2])',
           \A a \in told'[r] : r \notin pruned' =>
               rows'[r].state = "completed" /\ a = <<rows'[r].payload, rows'[r].effect>>,
           Announced(r)'
    PROVE  AnswerAt(r)'
<1>1. /\ \A e \in Of(r) : Reports(r, e.payload, e.effect) /\ e.effect \in Nat
      /\ \A a \in told[r] : Reports(r, a[1], a[2]) /\ a[2] \in Nat
    BY AnswerNumbers DEF AnswerAt
<1>2. \A x, n : n \in Nat /\ Reports(r, x, n) => Reports(r, x, n)'
    BY ReportsKept
<1>3. \A g \in Of(r)' : Reports(r, g.payload, g.effect)'
    BY <1>1, <1>2
<1>4. \A g \in Of(r)' : g.phase = "nudged" => <<r, g.effect>> \in woken'
    BY DEF AnswerAt
<1>5. \A a \in told'[r] : Reports(r, a[1], a[2])'
    BY <1>1, <1>2
<1> QED
    BY <1>3, <1>4, <1>5 DEF AnswerAt
\* A row that keeps its payload and effect keeps its report.
LEMMA RowReports ==
    ASSUME TypeOK, NEW r \in Requests, AnswerAt(r), Kept(r),
           \/ effects'[r] = effects[r]
           \/ \E q \in Payloads : effects'[r] = Append(effects[r], q)
    PROVE  Reports(r, rows[r].payload, rows[r].effect) /\
           (rows'[r].payload = rows[r].payload /\ rows'[r].effect = rows[r].effect
               => Reports(r, rows[r].payload, rows[r].effect)')
<1>1. Reports(r, rows[r].payload, rows[r].effect) /\ rows[r].effect \in Nat
    BY AnswerNumbers DEF AnswerAt
<1> DEFINE x == rows[r].payload
           n == rows[r].effect
<1>2. Reports(r, x, n) /\ n \in Nat
    BY <1>1
<1> HIDE DEF x, n
<1>3. \A y, k : k \in Nat /\ Reports(r, y, k) =>
          k <= Len(effects'[r]) /\ (k \in 1..Len(effects'[r]) => effects'[r][k] = y)
    BY ReportsKept DEF Reports
<1>4. n <= Len(effects'[r]) /\ (n \in 1..Len(effects'[r]) => effects'[r][n] = x)
    BY <1>2, <1>3
<1> QED
    BY <1>1, <1>4 DEF x, n, Reports

LEMMA CallAnswers ==
    ASSUME AnswerInv, NEW r \in Requests, NEW p \in Payloads, Call(r, p), NEW s \in Requests
    PROVE  AnswerAt(s)'
<1> USE DEF history
<1>0. /\ TypeOK /\ AnswerAt(s) /\ AnswerAt(r) /\ OnceAt(r)
      /\ 0 \in 0..MaxEffects /\ "queued" \in Phases /\ "observing" \in Phases
    BY ReceiptsAssumption DEF AnswerInv, OnceInv, Phases
<1>1. ASSUME NEW phase \in Phases, NEW n \in 0..MaxEffects, Enter(r, p, phase, n)
      PROVE  /\ r /= s => {e \in execs' : e.request = s} = Of(s)
             /\ \A g \in Of(r)' : g \in Of(r) \/ (g.payload = p /\ g.phase = phase /\ g.effect = n)
    BY <1>0, <1>1, EnterFacts DEF Of, Execs
<1>3. CASE StartCall(r, p)
    <2>1. /\ ~Kept(r) /\ Enter(r, p, "queued", 0)
          /\ UNCHANGED <<rows, pruned>> \/ InsertRow(r, p)
          /\ UNCHANGED <<method, effects, told, woken, failed, faults>>
        BY <1>3 DEF StartCall
    <2>2. /\ pruned \subseteq pruned' /\ (r \in pruned' => r \in pruned)
          /\ s /= r => rows'[s] = rows[s] \/ (s \in pruned' /\ rows'[s] = Absent)
          /\ rows'[r] = rows[r] \/ rows'[r] = PendingRow(p)
        BY <1>0, <2>1, InsertRowFacts
    <2>3. CASE s /= r
        BY <1>0, <1>1, <2>1, <2>2, <2>3, OtherAnswers
    <2>4. CASE s = r
        <3>1. Reports(r, p, 0)
            BY <1>0, ReportsNothing
        <3>2. \A g \in Of(r)' : g \in Of(r) \/ (Reports(r, g.payload, g.effect)'
                                              /\ (g.phase = "nudged" => <<r, g.effect>> \in woken'))
            BY <1>0, <1>1, <2>1, <3>1 DEF Reports
        <3>3. /\ rows'[r].state \in {"absent", "pending"}
              /\ Kept(r)' => Reports(r, rows[r].payload, rows[r].effect)'
            BY <2>1, <2>2, <3>1 DEF Kept, PendingRow, Reports
        <3>4. \A a \in told'[r] : r \in pruned
            BY <1>0, <2>1 DEF AnswerAt, Kept
        <3>5. Announced(r)'
            BY <3>3 DEF Announced
        <3> QED
            BY <1>0, <2>1, <2>2, <2>4, <3>2, <3>3, <3>4, <3>5, SameAnswers
    <2> QED
        BY <2>3, <2>4
<1>4. CASE ResumeCall(r, p) \/ ObserveReceipt(r, p)
    <2>1. /\ UNCHANGED <<method, rows, effects, told, woken, pruned>>
          /\ Matches(r, p)
          /\ Enter(r, p, "queued", 0) \/ Enter(r, p, "observing", rows[r].effect)
        BY <1>4 DEF ResumeCall, ObserveReceipt, ledger
    <2>2. rows[r].effect \in 0..MaxEffects
        BY <1>0, <2>1, RowFields DEF Matches, Kept, TypeOK, Rows
    <2>3. CASE s /= r
        BY <1>0, <1>1, <2>1, <2>2, <2>3, OtherAnswers
    <2>4. CASE s = r
        <3>1. Reports(r, p, 0) /\ Reports(r, p, rows[r].effect)
            BY <1>0, <2>1, ReportsNothing DEF AnswerAt, Matches
        <3>2. \A g \in Of(r)' : g \in Of(r) \/ (Reports(r, g.payload, g.effect)'
                                              /\ (g.phase = "nudged" => <<r, g.effect>> \in woken'))
            BY <1>0, <1>1, <2>1, <2>2, <3>1 DEF Reports
        <3>3. Kept(r)' => Reports(r, rows[r].payload, rows[r].effect)'
            BY <1>0, <2>1 DEF AnswerAt, Kept, Reports
        <3>4. \A a \in told'[r] : r \notin pruned' =>
                  rows'[r].state = "completed" /\ a = <<rows'[r].payload, rows'[r].effect>>
            BY <1>0, <2>1 DEF AnswerAt
        <3>5. Announced(r)'
            BY <1>0, <2>1 DEF Announced, AnswerAt
        <3> QED
            BY <1>0, <2>1, <2>4, <3>2, <3>3, <3>4, <3>5, SameAnswers
    <2> QED
        BY <2>3, <2>4
<1>5. CASE ReplayReceipt(r, p)
    <2>1. /\ UNCHANGED <<method, rows, effects, execs, woken, pruned>>
          /\ Matches(r, p) /\ rows[r].state = "completed" /\ Tell(r, p, rows[r].effect)
        BY <1>5 DEF ReplayReceipt, ledger, memory
    <2>2. told'[r] = told[r] \cup {<<rows[r].payload, rows[r].effect>>} /\ (s /= r => told'[s] = told[s])
        BY <1>0, <2>1 DEF Tell, TypeOK, Matches
    <2>3. CASE s /= r
        BY <1>0, <2>1, <2>2, <2>3, OtherAnswers DEF Of
    <2>4. CASE s = r
        <3>1. Reports(r, rows[r].payload, rows[r].effect)
            BY <1>0, <2>1 DEF AnswerAt, Matches
        <3>2. \A a \in told'[r] : a \in told[r] \/ Reports(r, a[1], a[2])'
            BY <2>1, <2>2, <3>1 DEF Reports
        <3>3. Kept(r)' => Reports(r, rows[r].payload, rows[r].effect)'
            BY <2>1, <3>1 DEF Reports
        <3>4. \A a \in told'[r] : r \notin pruned' =>
                  rows'[r].state = "completed" /\ a = <<rows'[r].payload, rows'[r].effect>>
            BY <1>0, <2>1, <2>2 DEF AnswerAt
        <3>5. Announced(r)'
            BY <1>0, <2>1 DEF Announced, AnswerAt
        <3>6. \A g \in Of(r)' : g \in Of(r)
            BY <2>1 DEF Of
        <3> QED
            BY <1>0, <2>1, <2>4, <3>2, <3>3, <3>4, <3>5, <3>6, SameAnswers
    <2> QED
        BY <2>3, <2>4
<1> QED
    BY <1>3, <1>4, <1>5 DEF Call
LEMMA StepAnswers ==
    ASSUME AnswerInv, NEW e \in execs, Step(e), NEW s \in Requests
    PROVE  AnswerAt(s)'
<1> USE DEF history
<1> DEFINE r == e.request
           p == e.payload
<1>0. /\ r \in Requests /\ p \in Payloads /\ e.phase \in Phases /\ e.effect \in 0..MaxEffects
      /\ 0 \in 0..MaxEffects
      /\ {"checkpointed", "possible", "effected", "recorded", "nudged", "accepted"} \subseteq Phases
      /\ \A n \in 1..MaxEffects : n \in 0..MaxEffects
      /\ TypeOK /\ AnswerAt(s) /\ AnswerAt(r) /\ OnceAt(r)
    BY ExecFields, ReceiptsAssumption DEF Phases, AnswerInv, OnceInv
<1>a. /\ r \notin pruned => PhaseFitsMethod(e, method[r]) /\ OwnsRow(r, e)
      /\ Reports(r, p, e.effect)
      /\ e.phase = "nudged" => <<r, e.effect>> \in woken
    BY <1>0, OnlyHandler DEF AnswerAt, Of
<1>b. ASSUME NEW phase \in Phases, NEW n \in 0..MaxEffects, Advance(e, phase, n)
      PROVE  \A g \in Of(r)' : g \in Of(r) \/ (g.payload = p /\ g.phase = phase /\ g.effect = n)
    BY <1>0, <1>b, AdvanceFacts DEF Of
<1>c. ASSUME s /= r
      PROVE  /\ \A phase \in Phases, n \in 0..MaxEffects : Advance(e, phase, n) =>
                    {f \in execs' : f.request = s} = Of(s)
             /\ Leave(e) => {f \in execs' : f.request = s} = Of(s)
    BY <1>0, <1>c, StepElsewhere
<1>d. Leave(e) => \A g \in Of(r)' : g \in Of(r)
    BY <1>0, LeaveFacts DEF Of
\* Before the receipt is recorded, nobody has been answered.
<1>e. r \notin pruned /\ ~Recorded(e) => told[r] = {}
    BY <1>0, <1>a DEF AnswerAt, OwnsRow
<1>f. r \notin pruned /\ Recorded(e) => \A a \in told[r] : a = <<rows[r].payload, e.effect>>
    BY <1>0, <1>a DEF AnswerAt, OwnsRow
<1> HIDE DEF r, p
<1>1. CASE Checkpoint(e)
    <2>1. /\ e.phase = "queued" /\ Matches(r, p) /\ rows[r].state = "pending"
          /\ rows' = [rows EXCEPT ![r].checkpoint = TRUE]
          /\ Advance(e, "checkpointed", 0)
          /\ UNCHANGED <<method, effects, told, woken, pruned, failed, faults>>
        BY <1>1 DEF Checkpoint, r, p
    <2>2. rows[r] \in Rows
        BY <1>0, <2>1, RowFields DEF Matches, Kept, TypeOK
    <2>3. /\ rows'[r].state = "pending" /\ rows'[r].payload = rows[r].payload
          /\ rows'[r].effect = rows[r].effect
          /\ s /= r => rows'[s] = rows[s]
        BY <1>0, <2>1, <2>2 DEF TypeOK, Rows
    <2>4. CASE s /= r
        BY <1>0, <1>c, <2>1, <2>3, <2>4, OtherAnswers
    <2>5. CASE s = r
        <3>1. Reports(r, p, 0)
            BY <1>0, ReportsNothing
        <3>2. \A g \in Of(r)' : g \in Of(r) \/ (Reports(r, g.payload, g.effect)'
                                              /\ (g.phase = "nudged" => <<r, g.effect>> \in woken'))
            BY <1>0, <1>b, <2>1, <3>1 DEF Reports
        <3>3. Kept(r)' => Reports(r, rows[r].payload, rows[r].effect)'
            BY <1>0, <2>1, <2>3 DEF AnswerAt, Reports, Matches
        <3>4. \A a \in told'[r] : r \in pruned
            BY <1>0, <2>1 DEF AnswerAt
        <3>5. Announced(r)'
            BY <2>3 DEF Announced
        <3> QED
            BY <1>0, <2>1, <2>5, <3>2, <3>3, <3>4, <3>5, SameAnswers
    <2> QED
        BY <2>4, <2>5
<1>2. CASE CommitReport(e)
    <2>1. PICK n \in 1..MaxEffects :
              Apply(r, p, n) /\ Complete(r, n, TRUE) /\ Advance(e, "recorded", n)
        BY <1>2 DEF CommitReport, r, p
    <2>2. /\ e.phase = "checkpointed" /\ Matches(r, p)
          /\ UNCHANGED <<method, told, woken, pruned, failed, faults>>
        BY <1>2 DEF CommitReport, r, p
    <2>3. /\ rows'[r].effect = n /\ rows'[r].payload = p /\ rows'[r].nudge = TRUE
          /\ s /= r => rows'[s] = rows[s]
        BY <1>0, <2>1, <2>2, CompleteFacts DEF Matches
    <2>4. CASE s /= r
        BY <1>0, <1>c, <2>1, <2>2, <2>3, <2>4, ApplyFacts, OtherAnswers
    <2>5. CASE s = r
        <3>1. /\ Reports(r, p, n)'
              /\ \/ effects'[r] = effects[r]
                 \/ \E q \in Payloads : effects'[r] = Append(effects[r], q)
            BY <1>0, <2>1, NewReport
        <3>2. \A g \in Of(r)' : g \in Of(r) \/ (Reports(r, g.payload, g.effect)'
                                              /\ (g.phase = "nudged" => <<r, g.effect>> \in woken'))
            BY <1>0, <1>b, <2>1, <3>1 DEF Reports
        <3>3. Kept(r)' => Reports(r, rows[r].payload, rows[r].effect)'
            BY <2>3, <3>1 DEF Reports
        <3>4. \A a \in told'[r] : r \in pruned
            BY <1>e, <2>2 DEF Recorded
        <3>5. Announced(r)'
            BY <2>3 DEF Announced
        <3> QED
            BY <1>0, <2>2, <2>5, <3>1, <3>2, <3>3, <3>4, <3>5, SameAnswers
    <2> QED
        BY <2>4, <2>5
<1>3. CASE AcceptStart(e)
    <2>1. PICK n \in 1..MaxEffects : Apply(r, p, n) /\ Advance(e, "accepted", n)
        BY <1>3 DEF AcceptStart, r, p
    <2>2. /\ e.phase = "queued" /\ ~Kept(r) /\ InsertRow(r, p)
          /\ UNCHANGED <<method, told, woken, failed, faults>>
        BY <1>3 DEF AcceptStart, r, p
    <2>3. /\ rows'[r] = PendingRow(p) /\ pruned \subseteq pruned'
          /\ s /= r => rows'[s] = rows[s] \/ (s \in pruned' /\ rows'[s] = Absent)
        BY <1>0, <2>2, InsertRowFacts
    <2>4. CASE s /= r
        BY <1>0, <1>c, <2>1, <2>2, <2>3, <2>4, ApplyFacts, OtherAnswers
    <2>5. CASE s = r
        <3>1. /\ Reports(r, p, n)'
              /\ \/ effects'[r] = effects[r]
                 \/ \E q \in Payloads : effects'[r] = Append(effects[r], q)
            BY <1>0, <2>1, NewReport
        <3>2. \A g \in Of(r)' : g \in Of(r) \/ (Reports(r, g.payload, g.effect)'
                                              /\ (g.phase = "nudged" => <<r, g.effect>> \in woken'))
            BY <1>0, <1>b, <2>1, <3>1 DEF Reports
        <3>3. Reports(r, p, 0)'
            <4>1. effects'[r] \in Seq(Payloads) /\ Len(effects'[r]) \in Nat
                BY <1>0, <2>1, ApplyFacts
            <4> QED
                BY <4>1 DEF Reports
        <3>4. \A a \in told'[r] : r \in pruned
            BY <1>e, <2>2 DEF Recorded
        <3>5. Announced(r)' /\ (Kept(r)' => Reports(r, rows[r].payload, rows[r].effect)')
            BY <2>3, <3>3 DEF Announced, PendingRow, Reports
        <3> QED
            BY <1>0, <2>2, <2>3, <2>5, <3>1, <3>2, <3>4, <3>5, SameAnswers
    <2> QED
        BY <2>4, <2>5
<1>4. CASE MarkEffectPossible(e)
    <2>1. /\ Advance(e, "possible", 0)
          /\ UNCHANGED <<method, rows, effects, told, woken, pruned, failed, faults>>
        BY <1>4 DEF MarkEffectPossible, ledger, r
    <2>4. CASE s /= r
        BY <1>0, <1>c, <2>1, <2>4, OtherAnswers
    <2>5. CASE s = r
        <3>1. Reports(r, p, 0)
            BY <1>0, ReportsNothing
        <3>2. \A g \in Of(r)' : g \in Of(r) \/ (Reports(r, g.payload, g.effect)'
                                              /\ (g.phase = "nudged" => <<r, g.effect>> \in woken'))
            BY <1>0, <1>b, <2>1, <3>1 DEF Reports
        <3>3. Kept(r)' => Reports(r, rows[r].payload, rows[r].effect)'
            BY <1>0, <2>1 DEF AnswerAt, Kept, Reports
        <3>4. \A a \in told'[r] : r \notin pruned' =>
                  rows'[r].state = "completed" /\ a = <<rows'[r].payload, rows'[r].effect>>
            BY <1>0, <2>1 DEF AnswerAt
        <3>5. Announced(r)'
            BY <1>0, <2>1 DEF Announced, AnswerAt
        <3> QED
            BY <1>0, <2>1, <2>5, <3>2, <3>3, <3>4, <3>5, SameAnswers
    <2> QED
        BY <2>4, <2>5
<1>5. CASE ApplyEffect(e)
    <2>1. PICK n \in 1..MaxEffects : Apply(r, p, n) /\ Advance(e, "effected", n)
        BY <1>5 DEF ApplyEffect, r, p
    <2>2. UNCHANGED <<method, rows, told, woken, pruned, failed, faults>>
        BY <1>5 DEF ApplyEffect
    <2>4. CASE s /= r
        BY <1>0, <1>c, <2>1, <2>2, <2>4, ApplyFacts, OtherAnswers
    <2>5. CASE s = r
        <3>1. /\ Reports(r, p, n)'
              /\ \/ effects'[r] = effects[r]
                 \/ \E q \in Payloads : effects'[r] = Append(effects[r], q)
            BY <1>0, <2>1, NewReport
        <3>2. \A g \in Of(r)' : g \in Of(r) \/ (Reports(r, g.payload, g.effect)'
                                              /\ (g.phase = "nudged" => <<r, g.effect>> \in woken'))
            BY <1>0, <1>b, <2>1, <3>1 DEF Reports
        <3>3. Kept(r)' => Reports(r, rows[r].payload, rows[r].effect)'
            BY <1>0, <2>2, <3>1, RowReports DEF Kept
        <3>4. \A a \in told'[r] : r \notin pruned' =>
                  rows'[r].state = "completed" /\ a = <<rows'[r].payload, rows'[r].effect>>
            BY <1>0, <2>2 DEF AnswerAt
        <3>5. Announced(r)'
            BY <1>0, <2>2 DEF Announced, AnswerAt
        <3> QED
            BY <1>0, <2>2, <2>5, <3>1, <3>2, <3>3, <3>4, <3>5, SameAnswers
    <2> QED
        BY <2>4, <2>5
<1>6. CASE RecordReceipt(e)
    <2>2. /\ method[r] \in {"send", "prompt"} /\ e.phase = "effected" /\ Matches(r, p)
          /\ Complete(r, e.effect, method[r] = "send") /\ Advance(e, "recorded", e.effect)
          /\ UNCHANGED <<method, effects, told, woken, pruned, failed, faults>>
        BY <1>6 DEF RecordReceipt, r, p
    <2>3. /\ rows'[r].effect = e.effect /\ rows'[r].payload = p
          /\ rows'[r].nudge = (method[r] = "send")
          /\ s /= r => rows'[s] = rows[s]
        BY <1>0, <2>2, CompleteFacts DEF Matches
    <2>4. CASE s /= r
        BY <1>0, <1>c, <2>2, <2>3, <2>4, OtherAnswers
    <2>5. CASE s = r
        <3>2. \A g \in Of(r)' : g \in Of(r) \/ (Reports(r, g.payload, g.effect)'
                                              /\ (g.phase = "nudged" => <<r, g.effect>> \in woken'))
            BY <1>0, <1>a, <1>b, <2>2 DEF Reports
        <3>3. Kept(r)' => Reports(r, rows[r].payload, rows[r].effect)'
            BY <1>a, <2>2, <2>3 DEF Reports
        <3>4. \A a \in told'[r] : r \in pruned
            BY <1>e, <2>2 DEF Recorded
        <3>5. Announced(r)'
            BY <2>2, <2>3 DEF Announced, Nudging
        <3> QED
            BY <1>0, <2>2, <2>5, <3>2, <3>3, <3>4, <3>5, SameAnswers
    <2> QED
        BY <2>4, <2>5
<1>7. CASE Nudge(e)
    <2>2. /\ Advance(e, "nudged", e.effect)
          /\ woken' = woken \cup {<<r, e.effect>>}
          /\ UNCHANGED <<method, rows, effects, told, pruned, failed, faults>>
        BY <1>7 DEF Nudge, ledger, r
    <2>4. CASE s /= r
        BY <1>0, <1>c, <2>2, <2>4, OtherAnswers
    <2>5. CASE s = r
        <3>2. \A g \in Of(r)' : g \in Of(r) \/ (Reports(r, g.payload, g.effect)'
                                              /\ (g.phase = "nudged" => <<r, g.effect>> \in woken'))
            BY <1>0, <1>a, <1>b, <2>2 DEF Reports
        <3>3. Kept(r)' => Reports(r, rows[r].payload, rows[r].effect)'
            BY <1>0, <2>2 DEF AnswerAt, Kept, Reports
        <3>4. \A a \in told'[r] : r \notin pruned' =>
                  rows'[r].state = "completed" /\ a = <<rows'[r].payload, rows'[r].effect>>
            BY <1>0, <2>2 DEF AnswerAt
        <3>5. Announced(r)'
            BY <1>0, <2>2 DEF Announced, AnswerAt
        <3> QED
            BY <1>0, <2>2, <2>5, <3>2, <3>3, <3>4, <3>5, SameAnswers
    <2> QED
        BY <2>4, <2>5
<1>8. CASE Settle(e)
    <2>2. /\ Returns(e) /\ Matches(r, p) /\ Complete(r, e.effect, FALSE) /\ Leave(e)
          /\ Tell(r, p, e.effect)
          /\ UNCHANGED <<method, effects, woken, pruned, failed, faults>>
        BY <1>8 DEF Settle, r, p
    <2>3. /\ rows'[r].state = "completed" /\ rows'[r].effect = e.effect
          /\ rows'[r].payload = p /\ rows[r].payload = p
          /\ s /= r => rows'[s] = rows[s]
        BY <1>0, <2>2, CompleteFacts DEF Matches
    <2>1. told'[r] = told[r] \cup {<<p, e.effect>>} /\ (s /= r => told'[s] = told[s])
        BY <1>0, <2>2 DEF Tell, TypeOK
    <2>4. CASE s /= r
        BY <1>0, <1>c, <2>1, <2>2, <2>3, <2>4, OtherAnswers
    <2>5. CASE s = r
        <3>1. Reports(r, p, e.effect)'
            BY <1>a, <2>2 DEF Reports
        <3>2. \A a \in told'[r] : a \in told[r] \/ Reports(r, a[1], a[2])'
            BY <2>1, <3>1 DEF Reports
        <3>3. Kept(r)' => Reports(r, rows[r].payload, rows[r].effect)'
            BY <2>3, <3>1 DEF Reports
        <3>4. \A a \in told'[r] : r \notin pruned' =>
                  rows'[r].state = "completed" /\ a = <<rows'[r].payload, rows'[r].effect>>
            BY <1>e, <1>f, <2>1, <2>2, <2>3
        <3>5. Announced(r)'
            <4>1. method[r] \in Nudging => e.phase = "nudged"
                BY <2>2 DEF Returns, r
            <4> QED
                BY <1>a, <2>2, <2>3, <4>1 DEF Announced
        <3> QED
            BY <1>0, <1>d, <2>2, <2>5, <3>2, <3>3, <3>4, <3>5, SameAnswers
    <2> QED
        BY <2>4, <2>5
<1>9. CASE Fail(e)
    <2>0. PICK unknown \in BOOLEAN : Discard(e, unknown)
        BY <1>9 DEF Fail
    <2>1. /\ Discard(e, unknown) /\ Leave(e)
          /\ UNCHANGED <<method, effects, told, woken, pruned>>
        BY <1>9, <2>0 DEF Fail, r
    <2>2. /\ s /= r => rows'[s] = rows[s]
          /\ \/ rows' = rows
             \/ rows'[r] = Absent /\ rows[r].state = "pending"
        BY <1>0, <2>1, DiscardFacts DEF r
    <2>4. CASE s /= r
        BY <1>0, <1>c, <2>1, <2>2, <2>4, OtherAnswers
    <2>5. CASE s = r
        <3>1. CASE rows' = rows
            <4>3. Kept(r)' => Reports(r, rows[r].payload, rows[r].effect)'
                BY <1>0, <2>1, <3>1 DEF AnswerAt, Kept, Reports
            <4>4. \A a \in told'[r] : r \notin pruned' =>
                      rows'[r].state = "completed" /\ a = <<rows'[r].payload, rows'[r].effect>>
                BY <1>0, <2>1, <3>1 DEF AnswerAt
            <4>5. Announced(r)'
                BY <1>0, <2>1, <3>1 DEF Announced, AnswerAt
            <4> QED
                BY <1>0, <1>d, <2>1, <2>5, <4>3, <4>4, <4>5, SameAnswers
        <3>2. CASE rows'[r] = Absent /\ rows[r].state = "pending"
            <4>1. rows'[r].state = "absent"
                BY <3>2 DEF Absent
            <4>2. \A a \in told'[r] : r \in pruned
                BY <1>0, <2>1, <3>2 DEF AnswerAt
            <4>3. Announced(r)' /\ ~Kept(r)'
                BY <4>1 DEF Announced, Kept
            <4> QED
                BY <1>0, <1>d, <2>1, <2>5, <4>2, <4>3, SameAnswers
        <3> QED
            BY <2>2, <3>1, <3>2
    <2> QED
        BY <2>4, <2>5
<1>10. CASE ObservationEnds(e) \/ ObservationFails(e)
    <2>1. /\ e.phase = "observing" /\ Leave(e) /\ Tell(r, p, e.effect)
          /\ woken \subseteq woken'
          /\ UNCHANGED <<method, effects, pruned, failed>>
        BY <1>10 DEF ObservationEnds, ObservationFails, ledger, r, p
    <2>2. \/ rows' = rows
          \/ /\ Matches(r, p) /\ Complete(r, e.effect, FALSE)
             /\ method[r] \in Nudging => <<r, e.effect>> \in woken'
        BY <1>10 DEF ObservationEnds, ObservationFails, ledger, r, p
    <2>3. \/ rows' = rows
          \/ /\ rows'[r].state = "completed" /\ rows'[r].effect = e.effect /\ rows'[r].payload = p
             /\ rows[r].payload = p
             /\ s /= r => rows'[s] = rows[s]
             /\ method[r] \in Nudging => <<r, e.effect>> \in woken'
        BY <1>0, <2>2, CompleteFacts DEF Matches
    <2>6. told'[r] = told[r] \cup {<<p, e.effect>>} /\ (s /= r => told'[s] = told[s])
        BY <1>0, <2>1 DEF Tell, TypeOK
    <2>4. CASE s /= r
        BY <1>0, <1>c, <2>1, <2>3, <2>4, <2>6, OtherAnswers
    <2>5. CASE s = r
        <3>1. Reports(r, p, e.effect)'
            BY <1>a, <2>1 DEF Reports
        <3>2. \A a \in told'[r] : a \in told[r] \/ Reports(r, a[1], a[2])'
            BY <2>6, <3>1 DEF Reports
        <3>3. Kept(r)' => Reports(r, rows[r].payload, rows[r].effect)'
            BY <1>0, <2>1, <2>3, <3>1 DEF AnswerAt, Kept, Reports
        <3>4. r \notin pruned => /\ rows[r].state = "completed" /\ rows[r].effect = e.effect
                                /\ rows[r].payload = p
            BY <1>a, <2>1 DEF OwnsRow, Recorded, Matches, p
        <3>5. \A a \in told'[r] : r \notin pruned' =>
                  rows'[r].state = "completed" /\ a = <<rows'[r].payload, rows'[r].effect>>
            BY <1>0, <2>1, <2>3, <2>6, <3>4 DEF AnswerAt
        <3>6. Announced(r)'
            BY <1>0, <2>1, <2>3 DEF Announced, AnswerAt
        <3> QED
            BY <1>0, <1>d, <2>1, <2>5, <3>2, <3>3, <3>5, <3>6, SameAnswers
    <2> QED
        BY <2>4, <2>5
<1> QED
    BY <1>1, <1>2, <1>3, <1>4, <1>5, <1>6, <1>7, <1>8, <1>9, <1>10 DEF Step

LEMMA AnswerInvHolds == Spec => []AnswerInv
<1>1. Init => AnswerInv
    <2> SUFFICES ASSUME Init PROVE AnswerInv
        OBVIOUS
    <2>1. ASSUME NEW r \in Requests
          PROVE  Of(r) = {} /\ told[r] = {} /\ rows[r].state = "absent"
        BY DEF Init, Of, Absent
    <2> QED
        BY <2>1, OnceInvInitial DEF AnswerInv, AnswerAt, Announced, Kept
<1>2. ASSUME AnswerInv, [Next]_vars PROVE AnswerInv'
    <2>0. OnceInv'
        BY <1>2, OnceInvPreserved DEF AnswerInv
    <2>1. ASSUME NEW s \in Requests PROVE AnswerAt(s)'
        <3>1. CASE \E r \in Requests, p \in Payloads : Call(r, p)
            BY <1>2, <2>1, <3>1, CallAnswers
        <3>2. CASE \E e \in execs : Step(e)
            BY <1>2, <2>1, <3>2, StepAnswers
        <3>3. CASE Restart
            <4>1. /\ Of(s)' = {} /\ AnswerAt(s)
                  /\ UNCHANGED <<method, rows, effects, told, woken, pruned>>
                BY <1>2, <2>1, <3>3 DEF Restart, Of, AnswerInv, ledger, history
            <4> QED
                BY <4>1 DEF AnswerAt, Announced, Kept, Reports
        <3>4. CASE UNCHANGED vars
            <4>1. /\ AnswerAt(s)
                  /\ UNCHANGED <<method, rows, effects, execs, told, woken, pruned>>
                BY <1>2, <2>1, <3>4 DEF vars, AnswerInv, ledger, memory, history
            <4> QED
                BY <4>1 DEF AnswerAt, Announced, Kept, Reports, Of
        <3> QED
            BY <1>2, <3>1, <3>2, <3>3, <3>4 DEF Next
    <2> QED
        BY <2>0, <2>1 DEF AnswerInv
<1> QED
    BY <1>1, <1>2, PTL DEF Spec

\* Every successful answer is the one the receipt holds and names an effect
\* of the payload that was asked for.
THEOREM ReceiptsAnswers == Spec => []AnswersComeFromTheReceipt
<1>1. AnswerInv => AnswersComeFromTheReceipt
    BY DEF AnswerInv, AnswerAt, Reports, AnswersComeFromTheReceipt
<1> QED
    BY <1>1, AnswerInvHolds, PTL

\* Mail that was answered was announced, or its receipt still owes the nudge.
THEOREM ReceiptsAnnounced == Spec => []AnsweredMailIsAnnounced
<1>1. AnswerInv => AnsweredMailIsAnnounced
    <2> SUFFICES ASSUME AnswerInv, NEW r \in Requests, NEW a \in told[r], method[r] \in Nudging,
                        r \notin pruned
                 PROVE  <<r, a[2]>> \in woken \/ rows[r].nudge
        BY DEF AnsweredMailIsAnnounced
    <2>1. /\ AnswerAt(r) /\ rows[r].state = "completed"
          /\ a = <<rows[r].payload, rows[r].effect>>
        BY DEF AnswerInv, AnswerAt
    <2> QED
        BY <2>1 DEF AnswerAt, Announced
<1> QED
    BY <1>1, AnswerInvHolds, PTL
=============================================================================
