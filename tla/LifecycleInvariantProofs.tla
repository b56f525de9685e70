---------------------- MODULE LifecycleInvariantProofs ----------------------
(* The type invariant and the inductive invariant of TaskLifecycle: whatever  *)
(* the order of claims, starts, reports, stops, exits and recoveries, a task  *)
(* has at most one active dispatch, its worker ends with it, and the task row *)
(* tells where it is.  For every set of tasks, terminals, gates and           *)
(* questions, every bound and every limit of the circuit breaker.             *)
EXTENDS TaskLifecycle, TLAPS

-----------------------------------------------------------------------------
(* The types *)

\* Counting a failure keeps the columns it writes within their domains.
LEMMA CountFailureType ==
    ASSUME TypeOK, NEW d \in DispatchIds, NEW stalled \in BOOLEAN, CountFailure(d, stalled)
    PROVE  /\ dispatchStatus' \in [DispatchIds -> DispatchStatuses \cup {"absent"}]
           /\ failureCount' \in [DispatchIds -> Nat]
           /\ promptStalled' \in [DispatchIds -> BOOLEAN]
           /\ capability' \in [DispatchIds -> {"none", "live", "revoked"}]
<1>1. FailedStatus(d) \in DispatchStatuses
  BY DEF FailedStatus, DispatchStatuses
<1>2. failureCount[d] + 1 \in Nat
  BY DEF TypeOK
<1> QED BY <1>1, <1>2 DEF CountFailure, TypeOK, Revoked

\* A failed dispatch gives its task back or gives the task up.
LEMMA StatusAfterFailureType ==
    ASSUME NEW d PROVE StatusAfterFailure(d) \in {"ready", "failed"}
BY DEF StatusAfterFailure

\* Every transaction writes every column within its domain.
LEMMA TypeStep == TypeOK /\ [Next]_vars => TypeOK'
<1> SUFFICES ASSUME TypeOK, [Next]_vars PROVE TypeOK'
  OBVIOUS
<1> USE CountAssumption, NullAssumption DEF TypeOK, TaskStatuses, DispatchStatuses,
   ActiveStatuses,
        WorkerStates, taskVars, rowVars, dispatchVars, workerVars, gateVars, questionVars
<1>1. CASE TaskNext
  <2>1. ASSUME NEW t \in Tasks, NEW deps \in SUBSET (Tasks \ {t}), CreateTask(t, deps)
        PROVE TypeOK'
    BY <2>1 DEF CreateTask
  <2>2. ASSUME NEW t \in Tasks, NEW status \in TaskStatuses, TaskUpdate(t, status)
        PROVE TypeOK'
    BY <2>2 DEF TaskUpdate, UpdateTask, MayUpdate, Concluded, Promoted, SettleDispatches,
       Revoked, CloseQuestions
  <2>3. ASSUME NEW t \in Tasks, NEW g \in Gates, CreateGate(g, t)
        PROVE TypeOK'
    BY <2>3 DEF CreateGate, SettleDispatches, Revoked, CloseQuestions
  <2> QED BY <1>1, <2>1, <2>2, <2>3 DEF TaskNext
<1>2. CASE ClaimNext
  <2>1. ASSUME NEW d \in DispatchIds, NEW t \in Tasks, NEW x \in Terminals,
     NEW inject \in BOOLEAN, CreateDispatchContext(d, t, x, inject)
        PROVE TypeOK'
    BY <2>1 DEF CreateDispatchContext, IsNextRow, TerminalFree
  <2>2. ASSUME NEW d \in DispatchIds, NEW t \in Tasks, NEW remote \in BOOLEAN,
     CreateStartingWorkerDispatch(d, t, remote)
        PROVE TypeOK'
    BY <2>2 DEF CreateStartingWorkerDispatch, IsNextRow, MayRetry, SetWorker
  <2> QED BY <1>2, <2>1, <2>2 DEF ClaimNext
<1>3. CASE StartNext
  <2>1. ASSUME NEW d \in DispatchIds, NEW x \in Terminals, PrepareStartingWorkerAuthority(d, x)
        PROVE TypeOK'
    BY <2>1 DEF PrepareStartingWorkerAuthority
  <2>2. ASSUME NEW d \in DispatchIds, MarkWorkerDispatchReady(d)
        PROVE TypeOK'
    BY <2>2 DEF MarkWorkerDispatchReady, SetWorker
  <2>3. ASSUME NEW d \in DispatchIds, NEW stalled \in BOOLEAN, FailWorkerStart(d, stalled)
        PROVE TypeOK'
    BY <2>3 DEF FailWorkerStart, FailUncounted, Revoked, SetWorker, CloseQuestions
  <2>4. ASSUME NEW d \in DispatchIds, MarkWorkerStartUnknown(d)
        PROVE TypeOK'
    BY <2>4 DEF MarkWorkerStartUnknown, SetWorker
  <2> QED BY <1>3, <2>1, <2>2, <2>3, <2>4 DEF StartNext
<1>4. CASE SettleNext
  <2>1. ASSUME NEW d \in DispatchIds, NEW stalled \in BOOLEAN, FailDispatch(d, FALSE, stalled)
        PROVE TypeOK'
    BY <2>1, CountFailureType, StatusAfterFailureType DEF FailDispatch, CloseQuestions
  <2>2. ASSUME NEW d \in DispatchIds, NEW outcome \in {"succeeded", "failed"},
     SettleWorkerReport(d, outcome)
        PROVE TypeOK'
    BY <2>2 DEF SettleWorkerReport, MayReport, SettledByUnobservedPrompt, ReconnectingStart,
       ReportingStart, ReportingRun, ReportableWorker, SettleDispatches, Revoked,
          CloseQuestions, Concluded, Promoted
  <2>3. ASSUME NEW d \in DispatchIds, ProcessExit(d)
        PROVE TypeOK'
    <3>1. CASE StopSettled(d)
      BY <3>1 DEF StopSettled, SetWorker, FailUncounted, Interrupted
    <3>2. CASE FailDispatch(d, TRUE, FALSE)
      BY <3>2, CountFailureType, StatusAfterFailureType DEF FailDispatch, CloseQuestions
    <3> QED BY <2>3, <3>1, <3>2 DEF ProcessExit
  <2>4. ASSUME NEW d \in DispatchIds, ReconcileMissingWorkerTerminal(d)
        PROVE TypeOK'
    BY <2>4, CountFailureType, StatusAfterFailureType
       DEF ReconcileMissingWorkerTerminal, SetWorker, InterruptedThen, CloseQuestions
  <2> QED BY <1>4, <2>1, <2>2, <2>3, <2>4 DEF SettleNext
<1>5. CASE StopNext
  <2>1. ASSUME NEW d \in DispatchIds, ReleaseContextOnlyDispatch(d)
        PROVE TypeOK'
    BY <2>1 DEF ReleaseContextOnlyDispatch, FailUncounted, Revoked, CloseQuestions
  <2>2. ASSUME NEW d \in DispatchIds, BeginWorkerStop(d)
        PROVE TypeOK'
    BY <2>2 DEF BeginWorkerStop, SetWorker, Revoked, Interrupted, CloseQuestions
  <2>3. ASSUME NEW d \in DispatchIds, SettleWorkerStop(d)
        PROVE TypeOK'
    BY <2>3 DEF SettleWorkerStop, StopSettled, SetWorker, FailUncounted, Interrupted
  <2>4. ASSUME NEW d \in DispatchIds, MarkWorkerStopUnknown(d)
        PROVE TypeOK'
    BY <2>4 DEF MarkWorkerStopUnknown, SetWorker
  <2>5. ASSUME NEW d \in DispatchIds, AbandonWorkerDispatch(d)
        PROVE TypeOK'
    BY <2>5 DEF AbandonWorkerDispatch, SetWorker, FailUncounted, Revoked, Interrupted,
       CloseQuestions
  <2> QED BY <1>5, <2>1, <2>2, <2>3, <2>4, <2>5 DEF StopNext
<1>6. CASE FederatedNext
  <2>1. ASSUME NEW d \in DispatchIds, ReconcileFederatedReady(d)
        PROVE TypeOK'
    BY <2>1 DEF ReconcileFederatedReady, SetWorker, Resumed
  <2>2. ASSUME NEW d \in DispatchIds, ReconcileFederatedStartUnknown(d)
        PROVE TypeOK'
    BY <2>2 DEF ReconcileFederatedStartUnknown, SetWorker
  <2>3. ASSUME NEW d \in DispatchIds, NEW state \in {"failed", "stopped"},
     NEW stalled \in BOOLEAN, ReconcileFederatedEnd(d, state, stalled)
        PROVE TypeOK'
    BY <2>3 DEF ReconcileFederatedEnd, SetWorker, FailUncounted, Revoked, InterruptedThen,
       CloseQuestions
  <2>4. ASSUME NEW d \in DispatchIds, ReconcileFederatedWorkerStop(d)
        PROVE TypeOK'
    BY <2>4 DEF ReconcileFederatedWorkerStop, StopSettled, SetWorker, FailUncounted, Interrupted
  <2>5. ASSUME NEW d \in DispatchIds, ResumeFederatedWorkerForTerminalRelay(d)
        PROVE TypeOK'
    BY <2>5 DEF ResumeFederatedWorkerForTerminalRelay, SetWorker, Resumed
  <2> QED BY <1>6, <2>1, <2>2, <2>3, <2>4, <2>5 DEF FederatedNext
<1>7. CASE QuestionNext
  <2>1. ASSUME NEW q \in Questions, NEW d \in DispatchIds, CreateQuestion(q, d)
        PROVE TypeOK'
    BY <2>1 DEF CreateQuestion, OpenQuestion
  <2>2. ASSUME NEW q \in Questions, NEW d \in DispatchIds, RegisterFederatedQuestion(q, d)
        PROVE TypeOK'
    BY <2>2 DEF RegisterFederatedQuestion, OpenQuestion
  <2>3. ASSUME NEW q \in Questions, AnswerQuestion(q)
        PROVE TypeOK'
    BY <2>3 DEF AnswerQuestion
  <2> QED BY <1>7, <2>1, <2>2, <2>3 DEF QuestionNext
<1>8. ASSUME NEW g \in Gates, ResolveGate(g) PROVE TypeOK'
  BY <1>8 DEF ResolveGate, UpdateTask, Concluded, Promoted, SettleDispatches, Revoked,
     CloseQuestions
<1>9. CASE Restart BY <1>9 DEF Restart
<1>10. CASE UNCHANGED vars BY <1>10 DEF vars
<1> QED BY <1>1, <1>2, <1>3, <1>4, <1>5, <1>6, <1>7, <1>8, <1>9, <1>10 DEF Next

\* Type correctness, in every reachable state.
THEOREM TypeCorrect == Spec => []TypeOK
<1>1. Init => TypeOK
  BY CountAssumption, NullAssumption DEF Init, TypeOK, DispatchIds
<1> QED BY <1>1, TypeStep, PTL DEF Spec

-----------------------------------------------------------------------------
(* The invariant of the rows *)

\* The status of a task whose active dispatch has a worker in a state.
StatusUnder(state) ==
    IF state \in {"start_unknown", "stopping", "stop_unknown"} THEN "blocked" ELSE "dispatched"

\* What StartsArePending and WorkerAndDispatchEndTogether say of one dispatch.
RowConsistent(d) ==
    /\ dispatchStatus[d] = "absent" => worker[d] = "none" /\ dispatchTask[d] = NoTask
    /\ dispatchStatus[d] # "absent" => dispatchTask[d] \in Tasks
    /\ dispatchStatus[d] = "pending" => worker[d] # "none"
    /\ worker[d] \in {"starting", "start_unknown"} => dispatchStatus[d] = "pending"
    /\ worker[d] # "none" => (Supervised(d) <=> Active(d))

\* Another dispatch of the task of d is active.
Contended(d, t) == \E e \in DispatchIds \ {d} : Active(e) /\ dispatchTask[e] = t

\* The rows of no dispatch but those in D change.
OnlyRows(D) ==
    \A e \in DispatchIds \ D :
        /\ dispatchTask'[e] = dispatchTask[e]
        /\ dispatchStatus'[e] = dispatchStatus[e]
        /\ worker'[e] = worker[e]

\* The status of no task but t changes, except that pending tasks may become ready.
OnlyTask(t) ==
    \A s \in Tasks \ {t} :
        \/ taskStatus'[s] = taskStatus[s]
        \/ taskStatus[s] = "pending" /\ taskStatus'[s] = "ready"

\* The invariant, one dispatch at a time.
LEMMA RowsConsistent ==
    ASSUME LifecycleInvariant, NEW d \in DispatchIds
    PROVE  RowConsistent(d)
BY DEF LifecycleInvariant, StartsArePending, WorkerAndDispatchEndTogether, RowConsistent

\* An active dispatch is the only one of its task.
LEMMA AloneWhenActive ==
    ASSUME LifecycleInvariant, NEW d \in DispatchIds, Active(d)
    PROVE  /\ OtherActive(d) = {}
           /\ ActiveOf(dispatchTask[d]) = {d}
           /\ ~Contended(d, dispatchTask[d])
           /\ dispatchTask[d] \in Tasks
           /\ taskStatus[dispatchTask[d]] = StatusUnder(worker[d])
<1>1. dispatchTask[d] \in Tasks
  BY DEF LifecycleInvariant, StartsArePending, Active, ActiveStatuses
<1>2. taskStatus[dispatchTask[d]] = StatusUnder(worker[d])
  BY DEF LifecycleInvariant, TaskTracksItsDispatch, StatusUnder
<1> QED BY <1>1, <1>2 DEF LifecycleInvariant, OneActiveDispatchPerTask, OtherActive, ActiveOf,
             Contended

\* A step that changes no dispatch row and takes no task into or out of its place.
LEMMA StepOfNone ==
    ASSUME LifecycleInvariant, TypeOK', OnlyRows({}), UNCHANGED taskStatus
    PROVE  LifecycleInvariant'
<1> USE DEF LifecycleInvariant, OnlyRows, Active, Supervised
<1>1. StartsArePending' BY DEF StartsArePending
<1>2. WorkerAndDispatchEndTogether' BY DEF WorkerAndDispatchEndTogether
<1>3. OneActiveDispatchPerTask' BY DEF OneActiveDispatchPerTask
<1>4. TaskTracksItsDispatch'
  BY DEF TaskTracksItsDispatch, ActiveOf, StartsArePending, ActiveStatuses
<1>5. ActiveIsLatest' BY DEF ActiveIsLatest, IsLatest
<1> QED BY <1>1, <1>2, <1>3, <1>4, <1>5

\* A step of one task that has no active dispatch and gets none.
LEMMA StepOfTask ==
    ASSUME LifecycleInvariant, TypeOK', NEW t \in Tasks, OnlyRows({}), OnlyTask(t),
           ActiveOf(t) = {}, taskStatus'[t] # "dispatched"
    PROVE  LifecycleInvariant'
<1> USE DEF LifecycleInvariant, OnlyRows, Active, Supervised
<1>1. StartsArePending' BY DEF StartsArePending
<1>2. WorkerAndDispatchEndTogether' BY DEF WorkerAndDispatchEndTogether
<1>3. OneActiveDispatchPerTask' BY DEF OneActiveDispatchPerTask
<1>4. TaskTracksItsDispatch'
  <2>1. ASSUME NEW d \in DispatchIds, Active(d)'
        PROVE  taskStatus'[dispatchTask'[d]] = StatusUnder(worker'[d])
    <3>1. Active(d) /\ dispatchTask[d] \in Tasks \ {t}
      BY <2>1 DEF StartsArePending, ActiveStatuses, ActiveOf
    <3> QED BY <3>1, AloneWhenActive DEF OnlyTask, StatusUnder
  <2>2. ASSUME NEW s \in Tasks, taskStatus'[s] = "dispatched" PROVE (ActiveOf(s) # {})'
    <3>1. taskStatus[s] = "dispatched" BY <2>2 DEF OnlyTask
    <3>2. PICK d \in DispatchIds : dispatchTask[d] = s /\ Active(d)
      BY <3>1 DEF TaskTracksItsDispatch, ActiveOf
    <3> QED BY <3>2 DEF ActiveOf
  <2> QED BY <2>1, <2>2 DEF TaskTracksItsDispatch, StatusUnder
<1>5. ActiveIsLatest' BY DEF ActiveIsLatest, IsLatest
<1> QED BY <1>1, <1>2, <1>3, <1>4, <1>5

\* A step of one dispatch and its task.
LEMMA StepOfOne ==
    ASSUME LifecycleInvariant, TypeOK', NEW d \in DispatchIds, NEW t \in Tasks,
           dispatchTask'[d] = t,
           dispatchTask[d] = t \/ (dispatchStatus[d] = "absent" /\ ~Contended(d, t)),
           dispatchStatus[d] # "absent" \/ IsNextRow(d),
           dispatchStatus'[d] # "absent", Active(d)' => IsLatest(d)',
           OnlyRows({d}), OnlyTask(t),
           RowConsistent(d)',
           Active(d)' => taskStatus'[t] = StatusUnder(worker'[d]) /\ ~Contended(d, t),
           ~Active(d)' /\ Contended(d, t) => taskStatus'[t] = taskStatus[t],
           ~Active(d)' /\ taskStatus'[t] = "dispatched" => Contended(d, t)
    PROVE  LifecycleInvariant'
<1> USE DEF LifecycleInvariant, OnlyRows, Active
<1>1. StartsArePending' BY DEF StartsArePending, RowConsistent
<1>2. WorkerAndDispatchEndTogether'
  BY DEF WorkerAndDispatchEndTogether, RowConsistent, Supervised
<1>3. OneActiveDispatchPerTask'
  BY DEF OneActiveDispatchPerTask, Contended
<1>4. TaskTracksItsDispatch'
  <2>1. ASSUME NEW e \in DispatchIds, Active(e)', e # d
        PROVE  taskStatus'[dispatchTask'[e]] = StatusUnder(worker'[e])
    <3>1. Active(e) /\ dispatchTask[e] \in Tasks
      BY <2>1, AloneWhenActive
    <3>2. taskStatus[dispatchTask[e]] = StatusUnder(worker[e])
      BY <3>1, AloneWhenActive
    <3>3. CASE dispatchTask[e] = t
      BY <2>1, <3>1, <3>2, <3>3 DEF Contended
    <3>4. CASE dispatchTask[e] # t
      BY <2>1, <3>1, <3>2, <3>4 DEF OnlyTask, StatusUnder
    <3> QED BY <3>3, <3>4
  <2>2. ASSUME NEW s \in Tasks, taskStatus'[s] = "dispatched" PROVE (ActiveOf(s) # {})'
    <3>1. CASE s = t
      BY <2>2, <3>1 DEF ActiveOf, Contended
    <3>2. CASE s # t
      <4>1. taskStatus[s] = "dispatched" BY <2>2, <3>2 DEF OnlyTask
      <4>2. PICK e \in DispatchIds : dispatchTask[e] = s /\ Active(e)
        BY <4>1 DEF TaskTracksItsDispatch, ActiveOf
      <4>3. e # d BY <4>2, <3>2 DEF ActiveStatuses
      <4> QED BY <4>2, <4>3 DEF ActiveOf
    <3> QED BY <3>1, <3>2
  <2> QED BY <2>1, <2>2 DEF TaskTracksItsDispatch, StatusUnder
<1>5. ActiveIsLatest'
  <2>1. ASSUME NEW e \in DispatchIds, NEW f \in DispatchIds, e < f,
     dispatchStatus'[e] = "absent"
        PROVE  dispatchStatus'[f] = "absent"
    BY <2>1 DEF ActiveIsLatest, IsNextRow
  <2>2. ASSUME NEW e \in DispatchIds, Active(e)', e # d PROVE IsLatest(e)'
    BY <2>2 DEF ActiveIsLatest, IsLatest, Contended
  <2> QED BY <2>1, <2>2 DEF ActiveIsLatest
<1> QED BY <1>1, <1>2, <1>3, <1>4, <1>5

\* A step of an active dispatch and its task.
LEMMA StepOfActive ==
    ASSUME LifecycleInvariant, TypeOK', NEW d \in DispatchIds, Active(d),
           dispatchTask' = dispatchTask, OnlyRows({d}), OnlyTask(dispatchTask[d]),
           RowConsistent(d)', dispatchStatus'[d] # "absent",
           Active(d)' => taskStatus'[dispatchTask[d]] = StatusUnder(worker'[d]),
           ~Active(d)' => taskStatus'[dispatchTask[d]] # "dispatched"
    PROVE  LifecycleInvariant'
<1>1. dispatchTask[d] \in Tasks /\ ~Contended(d, dispatchTask[d])
  BY AloneWhenActive
<1>2. IsLatest(d)'
  BY DEF LifecycleInvariant, ActiveIsLatest, IsLatest
<1>3. dispatchStatus[d] # "absent"
  BY DEF Active, ActiveStatuses
<1> QED BY <1>1, <1>2, <1>3, StepOfOne

\* The row a claim inserts is the latest of its task.
LEMMA NextRowIsLatest ==
    ASSUME LifecycleInvariant, NEW d \in DispatchIds, NEW t \in Tasks, IsNextRow(d),
           dispatchTask' = [dispatchTask EXCEPT ![d] = t]
    PROVE  IsLatest(d)'
<1> SUFFICES ASSUME NEW e \in DispatchIds, dispatchTask'[e] = dispatchTask'[d],
   d < e PROVE FALSE
  BY DEF IsLatest, DispatchIds
<1>1. dispatchTask'[d] = t /\ dispatchTask'[e] = dispatchTask[e]
  BY DEF LifecycleInvariant, TypeOK, DispatchIds
<1>2. dispatchStatus[e] = "absent"
  BY DEF IsNextRow, LifecycleInvariant, ActiveIsLatest
<1> QED BY <1>1, <1>2, NullAssumption DEF LifecycleInvariant, StartsArePending

\* A transaction that settles the active dispatches of a task, none of them supervised, and
\* then takes the task out of "dispatched".
LEMMA SettleStep ==
    ASSUME LifecycleInvariant, TypeOK', NEW t \in Tasks, NEW verdict \in {"completed",
       "failed"},
           SettleDispatches(ActiveOf(t), verdict), UNCHANGED <<dispatchTask, worker>>,
           \A d \in ActiveOf(t) : ~Supervised(d),
           OnlyTask(t), taskStatus'[t] # "dispatched"
    PROVE  LifecycleInvariant'
<1>1. CASE ActiveOf(t) = {}
  BY <1>1, StepOfTask DEF SettleDispatches, OnlyRows, LifecycleInvariant, TypeOK
<1>2. ASSUME NEW d \in DispatchIds, Active(d), dispatchTask[d] = t PROVE LifecycleInvariant'
  <2>1. ActiveOf(t) = {d} /\ RowConsistent(d)
    BY <1>2, AloneWhenActive, RowsConsistent
  <2>2. OnlyRows({d}) /\ dispatchStatus'[d] = verdict /\ worker'[d] = "none" /\ ~Active(d)'
    BY <1>2, <2>1
       DEF OnlyRows, SettleDispatches, LifecycleInvariant, TypeOK, RowConsistent, Active,
          ActiveStatuses
  <2>3. RowConsistent(d)'
    BY <1>2, <2>1, <2>2 DEF RowConsistent, Supervised, Active, ActiveStatuses
  <2> QED BY <1>2, <2>2, <2>3, StepOfActive
<1> QED BY <1>1, <1>2 DEF ActiveOf

\* updateTaskStatus keeps the invariant, for a task update and for a resolved gate.
LEMMA UpdateStep ==
    ASSUME LifecycleInvariant, TypeOK', NEW t \in Tasks, NEW status \in TaskStatuses,
           UpdateTask(t, status)
    PROVE  LifecycleInvariant'
<1> USE DEF UpdateTask, MayUpdate
<1>1. CASE status \in {"completed", "failed"}
  <2>1. OnlyTask(t) /\ taskStatus'[t] # "dispatched"
    BY <1>1 DEF OnlyTask, Concluded, Promoted, LifecycleInvariant, TypeOK
  <2> QED BY <1>1, <2>1, SettleStep DEF rowVars, workerVars
<1>2. CASE status \notin {"completed", "failed"} /\ ActiveOf(t) = {}
  BY <1>2, StepOfTask DEF OnlyTask, OnlyRows, rowVars, workerVars, LifecycleInvariant, TypeOK
<1>3. CASE status \notin {"completed", "failed"} /\ ActiveOf(t) # {}
  <2>1. status = "dispatched"
    BY <1>3
  <2>2. PICK d \in DispatchIds : Active(d) /\ dispatchTask[d] = t
    BY <1>3 DEF ActiveOf
  <2>3. RowConsistent(d)
    BY RowsConsistent
  <2>4. taskStatus[t] = StatusUnder(worker[d])
    BY <2>2, AloneWhenActive
  <2>5. taskStatus[t] = "dispatched"
    BY <1>3, <2>1, <2>2, <2>3, <2>4
       DEF StatusUnder, ActiveOf, RowConsistent, TaskStatuses, SettledStates
  <2> QED BY <1>3, <2>1, <2>5, StepOfNone
       DEF OnlyRows, rowVars, workerVars, LifecycleInvariant, TypeOK
<1> QED BY <1>1, <1>2, <1>3

\* A report that is taken settles no dispatch but its own.
LEMMA ReportedAlone ==
    ASSUME LifecycleInvariant, NEW d \in DispatchIds, NEW outcome,
           SettleWorkerReport(d, outcome)
    PROVE  /\ RowConsistent(d) /\ dispatchTask[d] \in Tasks
           /\ OtherActive(d) = {} /\ ~Contended(d, dispatchTask[d])
<1>1. CASE Active(d)
  BY <1>1, RowsConsistent, AloneWhenActive
<1>2. CASE ~Active(d)
  <2>1. taskStatus[dispatchTask[d]] = "failed" /\ dispatchTask[d] \in Tasks
    BY <1>2, RowsConsistent DEF SettleWorkerReport, SettledByUnobservedPrompt,
      ReconnectingStart, ReportingStart, ReportingRun, Active, RowConsistent, ActiveStatuses
  <2>2. \A e \in DispatchIds : Active(e) => dispatchTask[e] # dispatchTask[d]
    BY <2>1, AloneWhenActive DEF StatusUnder
  <2> QED BY <2>1, <2>2, RowsConsistent DEF OtherActive, ActiveOf, Contended
<1> QED BY <1>1, <1>2

\* Every transaction keeps the invariant.
LEMMA InvariantStep == LifecycleInvariant /\ [Next]_vars => LifecycleInvariant'
<1> SUFFICES ASSUME LifecycleInvariant, [Next]_vars PROVE LifecycleInvariant'
  OBVIOUS
<1>0. TypeOK /\ TypeOK' BY TypeStep DEF LifecycleInvariant
<1> USE <1>0, CountAssumption, NullAssumption DEF TaskStatuses, DispatchStatuses,
        ActiveStatuses, WorkerStates, SettledStates, rowVars, taskVars
<1>3. CASE StartNext
  <2>1. ASSUME NEW d \in DispatchIds, NEW x \in Terminals, PrepareStartingWorkerAuthority(d, x)
       PROVE  LifecycleInvariant'
    BY <2>1, StepOfNone DEF OnlyRows, taskVars, workerVars, PrepareStartingWorkerAuthority
  <2>2. ASSUME NEW d \in DispatchIds, MarkWorkerDispatchReady(d)
       PROVE  LifecycleInvariant'
    <3>1. /\ Active(d)
          /\ RowConsistent(d)
          /\ taskStatus[dispatchTask[d]] = StatusUnder(worker[d])
          /\ OtherActive(d) = {}
          /\ dispatchTask[d] \in Tasks
      BY <2>2, RowsConsistent, AloneWhenActive DEF TypeOK, RowConsistent, Active, Supervised,
         MarkWorkerDispatchReady, SetWorker
    <3>2. dispatchTask' = dispatchTask /\ OnlyRows({d}) /\ OnlyTask(dispatchTask[d])
      BY <2>2 DEF TypeOK, OnlyRows, OnlyTask, MarkWorkerDispatchReady, SetWorker
    <3>3. RowConsistent(d)' /\ dispatchStatus'[d] # "absent"
      BY <2>2, <3>1 DEF TypeOK, RowConsistent, Active, Supervised, MarkWorkerDispatchReady,
         SetWorker
    <3>4. /\ Active(d)' => taskStatus'[dispatchTask[d]] = StatusUnder(worker'[d])
          /\ ~Active(d)' => taskStatus'[dispatchTask[d]] # "dispatched"
      BY <2>2, <3>1 DEF TypeOK, RowConsistent, StatusUnder, Active, Supervised,
         MarkWorkerDispatchReady, SetWorker
    <3> QED BY <3>1, <3>2, <3>3, <3>4, StepOfActive
  <2>3. ASSUME NEW d \in DispatchIds, NEW stalled \in BOOLEAN, FailWorkerStart(d, stalled)
       PROVE  LifecycleInvariant'
    <3>1. /\ Active(d)
          /\ RowConsistent(d)
          /\ taskStatus[dispatchTask[d]] = StatusUnder(worker[d])
          /\ OtherActive(d) = {}
          /\ dispatchTask[d] \in Tasks
      BY <2>3, RowsConsistent, AloneWhenActive DEF TypeOK, RowConsistent, Active, Supervised,
         FailWorkerStart, SetWorker, FailUncounted
    <3>2. dispatchTask' = dispatchTask /\ OnlyRows({d}) /\ OnlyTask(dispatchTask[d])
      BY <2>3 DEF TypeOK, OnlyRows, OnlyTask, FailWorkerStart, SetWorker, FailUncounted
    <3>3. RowConsistent(d)' /\ dispatchStatus'[d] # "absent"
      BY <2>3, <3>1 DEF TypeOK, RowConsistent, Active, Supervised, FailWorkerStart, SetWorker,
         FailUncounted
    <3>4. /\ Active(d)' => taskStatus'[dispatchTask[d]] = StatusUnder(worker'[d])
          /\ ~Active(d)' => taskStatus'[dispatchTask[d]] # "dispatched"
      BY <2>3, <3>1 DEF TypeOK, RowConsistent, StatusUnder, Active, Supervised,
         FailWorkerStart, SetWorker, FailUncounted
    <3> QED BY <3>1, <3>2, <3>3, <3>4, StepOfActive
  <2>4. ASSUME NEW d \in DispatchIds, MarkWorkerStartUnknown(d)
       PROVE  LifecycleInvariant'
    <3>1. /\ Active(d)
          /\ RowConsistent(d)
          /\ taskStatus[dispatchTask[d]] = StatusUnder(worker[d])
          /\ OtherActive(d) = {}
          /\ dispatchTask[d] \in Tasks
      BY <2>4, RowsConsistent, AloneWhenActive DEF TypeOK, RowConsistent, Active, Supervised,
         MarkWorkerStartUnknown, SetWorker, dispatchVars
    <3>2. dispatchTask' = dispatchTask /\ OnlyRows({d}) /\ OnlyTask(dispatchTask[d])
      BY <2>4 DEF TypeOK, OnlyRows, OnlyTask, MarkWorkerStartUnknown, SetWorker, dispatchVars
    <3>3. RowConsistent(d)' /\ dispatchStatus'[d] # "absent"
      BY <2>4, <3>1 DEF TypeOK, RowConsistent, Active, Supervised, MarkWorkerStartUnknown,
         SetWorker, dispatchVars
    <3>4. /\ Active(d)' => taskStatus'[dispatchTask[d]] = StatusUnder(worker'[d])
          /\ ~Active(d)' => taskStatus'[dispatchTask[d]] # "dispatched"
      BY <2>4, <3>1 DEF TypeOK, RowConsistent, StatusUnder, Active, Supervised,
         MarkWorkerStartUnknown, SetWorker, dispatchVars
    <3> QED BY <3>1, <3>2, <3>3, <3>4, StepOfActive
  <2> QED BY <1>3, <2>1, <2>2, <2>3, <2>4 DEF StartNext
<1>4. CASE SettleNext
  <2>1. ASSUME NEW d \in DispatchIds, NEW stalled \in BOOLEAN, FailDispatch(d, FALSE, stalled)
       PROVE  LifecycleInvariant'
    <3>1. /\ Active(d)
          /\ RowConsistent(d)
          /\ taskStatus[dispatchTask[d]] = StatusUnder(worker[d])
          /\ OtherActive(d) = {}
          /\ dispatchTask[d] \in Tasks
      BY <2>1, RowsConsistent, AloneWhenActive DEF TypeOK, RowConsistent, Active, Supervised,
         FailDispatch, MayFail, CountFailure, FailedStatus, StatusAfterFailure
    <3>2. dispatchTask' = dispatchTask /\ OnlyRows({d}) /\ OnlyTask(dispatchTask[d])
      BY <2>1 DEF TypeOK, OnlyRows, OnlyTask, FailDispatch, MayFail, CountFailure,
         FailedStatus, StatusAfterFailure
    <3>3. RowConsistent(d)' /\ dispatchStatus'[d] # "absent"
      BY <2>1, <3>1 DEF TypeOK, RowConsistent, Active, Supervised, FailDispatch, MayFail,
         CountFailure, FailedStatus, StatusAfterFailure
    <3>4. /\ Active(d)' => taskStatus'[dispatchTask[d]] = StatusUnder(worker'[d])
          /\ ~Active(d)' => taskStatus'[dispatchTask[d]] # "dispatched"
      BY <2>1, <3>1 DEF TypeOK, RowConsistent, StatusUnder, Active, Supervised, FailDispatch,
         MayFail, CountFailure, FailedStatus, StatusAfterFailure
    <3> QED BY <3>1, <3>2, <3>3, <3>4, StepOfActive
  <2>2. ASSUME NEW d \in DispatchIds, NEW outcome \in {"succeeded", "failed"},
     SettleWorkerReport(d, outcome)
       PROVE  LifecycleInvariant'
    <3>1. /\ RowConsistent(d) /\ dispatchTask[d] \in Tasks
          /\ OtherActive(d) = {} /\ ~Contended(d, dispatchTask[d])
      BY <2>2, ReportedAlone
    <3>2. dispatchTask' = dispatchTask /\ OnlyRows({d})
      BY <2>2, <3>1 DEF TypeOK, OnlyRows, SettleWorkerReport, SettleDispatches
    <3>3. OnlyTask(dispatchTask[d])
      BY <2>2, <3>1 DEF TypeOK, OnlyTask, SettleWorkerReport, Concluded, Promoted
    <3>4. RowConsistent(d)' /\ ~Active(d)' /\ dispatchStatus[d] # "absent" /\ dispatchStatus'[d] # "absent"
      BY <2>2, <3>1 DEF TypeOK, RowConsistent, Active, Supervised, SettleWorkerReport,
         SettleDispatches
    <3>5. taskStatus'[dispatchTask[d]] # "dispatched"
      BY <2>2, <3>1 DEF TypeOK, SettleWorkerReport, Concluded, Promoted
    <3> QED BY <3>1, <3>2, <3>3, <3>4, <3>5, StepOfOne
  <2>3. ASSUME NEW d \in DispatchIds, ProcessExit(d)
       PROVE  LifecycleInvariant'
    <3>1. CASE StopSettled(d)
      <4>1. /\ Active(d)
            /\ RowConsistent(d)
            /\ taskStatus[dispatchTask[d]] = StatusUnder(worker[d])
            /\ OtherActive(d) = {}
            /\ dispatchTask[d] \in Tasks
        BY <2>3, <3>1, RowsConsistent, AloneWhenActive DEF TypeOK, RowConsistent, Active,
           Supervised, ProcessExit, StopSettled, SetWorker, FailUncounted, Interrupted
      <4>2. dispatchTask' = dispatchTask /\ OnlyRows({d}) /\ OnlyTask(dispatchTask[d])
        BY <2>3, <3>1 DEF TypeOK, OnlyRows, OnlyTask, ProcessExit, StopSettled, SetWorker,
           FailUncounted, Interrupted
      <4>3. RowConsistent(d)' /\ dispatchStatus'[d] # "absent"
        BY <2>3, <3>1, <4>1 DEF TypeOK, RowConsistent, Active, Supervised, ProcessExit,
           StopSettled, SetWorker, FailUncounted, Interrupted
      <4>4. /\ Active(d)' => taskStatus'[dispatchTask[d]] = StatusUnder(worker'[d])
            /\ ~Active(d)' => taskStatus'[dispatchTask[d]] # "dispatched"
        BY <2>3, <3>1, <4>1 DEF TypeOK, RowConsistent, StatusUnder, Active, Supervised,
           ProcessExit, StopSettled, SetWorker, FailUncounted, Interrupted
      <4> QED BY <4>1, <4>2, <4>3, <4>4, StepOfActive
    <3>2. CASE FailDispatch(d, TRUE, FALSE)
      <4>1. /\ Active(d)
            /\ RowConsistent(d)
            /\ taskStatus[dispatchTask[d]] = StatusUnder(worker[d])
            /\ OtherActive(d) = {}
            /\ dispatchTask[d] \in Tasks
        BY <2>3, <3>2, RowsConsistent, AloneWhenActive DEF TypeOK, RowConsistent, Active,
           Supervised, ProcessExit, FailDispatch, MayFail, CountFailure, FailedStatus,
              StatusAfterFailure
      <4>2. dispatchTask' = dispatchTask /\ OnlyRows({d}) /\ OnlyTask(dispatchTask[d])
        BY <2>3, <3>2 DEF TypeOK, OnlyRows, OnlyTask, ProcessExit, FailDispatch, MayFail,
           CountFailure, FailedStatus, StatusAfterFailure
      <4>3. RowConsistent(d)' /\ dispatchStatus'[d] # "absent"
        BY <2>3, <3>2, <4>1 DEF TypeOK, RowConsistent, Active, Supervised, ProcessExit,
           FailDispatch, MayFail, CountFailure, FailedStatus, StatusAfterFailure
      <4>4. /\ Active(d)' => taskStatus'[dispatchTask[d]] = StatusUnder(worker'[d])
            /\ ~Active(d)' => taskStatus'[dispatchTask[d]] # "dispatched"
        BY <2>3, <3>2, <4>1 DEF TypeOK, RowConsistent, StatusUnder, Active, Supervised,
           ProcessExit, FailDispatch, MayFail, CountFailure, FailedStatus, StatusAfterFailure
      <4> QED BY <4>1, <4>2, <4>3, <4>4, StepOfActive
    <3> QED BY <2>3, <3>1, <3>2 DEF ProcessExit
  <2>4. ASSUME NEW d \in DispatchIds, ReconcileMissingWorkerTerminal(d)
       PROVE  LifecycleInvariant'
    <3>1. /\ Active(d)
          /\ RowConsistent(d)
          /\ taskStatus[dispatchTask[d]] = StatusUnder(worker[d])
          /\ OtherActive(d) = {}
          /\ dispatchTask[d] \in Tasks
      BY <2>4, RowsConsistent, AloneWhenActive DEF TypeOK, RowConsistent, Active, Supervised,
         ReconcileMissingWorkerTerminal, SetWorker, CountFailure, FailedStatus,
            StatusAfterFailure, InterruptedThen
    <3>2. dispatchTask' = dispatchTask /\ OnlyRows({d}) /\ OnlyTask(dispatchTask[d])
      BY <2>4 DEF TypeOK, OnlyRows, OnlyTask, ReconcileMissingWorkerTerminal, SetWorker,
         CountFailure, FailedStatus, StatusAfterFailure, InterruptedThen
    <3>3. RowConsistent(d)' /\ dispatchStatus'[d] # "absent"
      BY <2>4, <3>1 DEF TypeOK, RowConsistent, Active, Supervised,
         ReconcileMissingWorkerTerminal, SetWorker, CountFailure, FailedStatus,
            StatusAfterFailure, InterruptedThen
    <3>4. /\ Active(d)' => taskStatus'[dispatchTask[d]] = StatusUnder(worker'[d])
          /\ ~Active(d)' => taskStatus'[dispatchTask[d]] # "dispatched"
      BY <2>4, <3>1 DEF TypeOK, RowConsistent, StatusUnder, Active, Supervised,
         ReconcileMissingWorkerTerminal, SetWorker, CountFailure, FailedStatus,
            StatusAfterFailure, InterruptedThen
    <3> QED BY <3>1, <3>2, <3>3, <3>4, StepOfActive
  <2> QED BY <1>4, <2>1, <2>2, <2>3, <2>4 DEF SettleNext
<1>5. CASE StopNext
  <2>1. ASSUME NEW d \in DispatchIds, ReleaseContextOnlyDispatch(d)
       PROVE  LifecycleInvariant'
    <3>1. /\ Active(d)
          /\ RowConsistent(d)
          /\ taskStatus[dispatchTask[d]] = StatusUnder(worker[d])
          /\ OtherActive(d) = {}
          /\ dispatchTask[d] \in Tasks
      BY <2>1, RowsConsistent, AloneWhenActive DEF TypeOK, RowConsistent, Active, Supervised,
         ReleaseContextOnlyDispatch, FailUncounted, workerVars
    <3>2. dispatchTask' = dispatchTask /\ OnlyRows({d}) /\ OnlyTask(dispatchTask[d])
      BY <2>1 DEF TypeOK, OnlyRows, OnlyTask, ReleaseContextOnlyDispatch, FailUncounted,
         workerVars
    <3>3. RowConsistent(d)' /\ dispatchStatus'[d] # "absent"
      BY <2>1, <3>1 DEF TypeOK, RowConsistent, Active, Supervised, ReleaseContextOnlyDispatch,
         FailUncounted, workerVars
    <3>4. /\ Active(d)' => taskStatus'[dispatchTask[d]] = StatusUnder(worker'[d])
          /\ ~Active(d)' => taskStatus'[dispatchTask[d]] # "dispatched"
      BY <2>1, <3>1 DEF TypeOK, RowConsistent, StatusUnder, Active, Supervised,
         ReleaseContextOnlyDispatch, FailUncounted, workerVars
    <3> QED BY <3>1, <3>2, <3>3, <3>4, StepOfActive
  <2>2. ASSUME NEW d \in DispatchIds, BeginWorkerStop(d)
       PROVE  LifecycleInvariant'
    <3>1. /\ Active(d)
          /\ RowConsistent(d)
          /\ taskStatus[dispatchTask[d]] = StatusUnder(worker[d])
          /\ OtherActive(d) = {}
          /\ dispatchTask[d] \in Tasks
      BY <2>2, RowsConsistent, AloneWhenActive DEF TypeOK, RowConsistent, Active, Supervised,
         BeginWorkerStop, MayStop, SetWorker, Interrupted
    <3>2. dispatchTask' = dispatchTask /\ OnlyRows({d}) /\ OnlyTask(dispatchTask[d])
      BY <2>2 DEF TypeOK, OnlyRows, OnlyTask, BeginWorkerStop, MayStop, SetWorker, Interrupted
    <3>3. RowConsistent(d)' /\ dispatchStatus'[d] # "absent"
      BY <2>2, <3>1 DEF TypeOK, RowConsistent, Active, Supervised, BeginWorkerStop, MayStop,
         SetWorker, Interrupted
    <3>4. /\ Active(d)' => taskStatus'[dispatchTask[d]] = StatusUnder(worker'[d])
          /\ ~Active(d)' => taskStatus'[dispatchTask[d]] # "dispatched"
      BY <2>2, <3>1 DEF TypeOK, RowConsistent, StatusUnder, Active, Supervised,
         BeginWorkerStop, MayStop, SetWorker, Interrupted
    <3> QED BY <3>1, <3>2, <3>3, <3>4, StepOfActive
  <2>3. ASSUME NEW d \in DispatchIds, SettleWorkerStop(d)
       PROVE  LifecycleInvariant'
    <3>1. /\ Active(d)
          /\ RowConsistent(d)
          /\ taskStatus[dispatchTask[d]] = StatusUnder(worker[d])
          /\ OtherActive(d) = {}
          /\ dispatchTask[d] \in Tasks
      BY <2>3, RowsConsistent, AloneWhenActive DEF TypeOK, RowConsistent, Active, Supervised,
         SettleWorkerStop, StopSettled, SetWorker, FailUncounted, Interrupted
    <3>2. dispatchTask' = dispatchTask /\ OnlyRows({d}) /\ OnlyTask(dispatchTask[d])
      BY <2>3 DEF TypeOK, OnlyRows, OnlyTask, SettleWorkerStop, StopSettled, SetWorker,
         FailUncounted, Interrupted
    <3>3. RowConsistent(d)' /\ dispatchStatus'[d] # "absent"
      BY <2>3, <3>1 DEF TypeOK, RowConsistent, Active, Supervised, SettleWorkerStop,
         StopSettled, SetWorker, FailUncounted, Interrupted
    <3>4. /\ Active(d)' => taskStatus'[dispatchTask[d]] = StatusUnder(worker'[d])
          /\ ~Active(d)' => taskStatus'[dispatchTask[d]] # "dispatched"
      BY <2>3, <3>1 DEF TypeOK, RowConsistent, StatusUnder, Active, Supervised,
         SettleWorkerStop, StopSettled, SetWorker, FailUncounted, Interrupted
    <3> QED BY <3>1, <3>2, <3>3, <3>4, StepOfActive
  <2>4. ASSUME NEW d \in DispatchIds, MarkWorkerStopUnknown(d)
       PROVE  LifecycleInvariant'
    <3>1. /\ Active(d)
          /\ RowConsistent(d)
          /\ taskStatus[dispatchTask[d]] = StatusUnder(worker[d])
          /\ OtherActive(d) = {}
          /\ dispatchTask[d] \in Tasks
      BY <2>4, RowsConsistent, AloneWhenActive DEF TypeOK, RowConsistent, Active, Supervised,
         MarkWorkerStopUnknown, SetWorker, dispatchVars, taskVars
    <3>2. dispatchTask' = dispatchTask /\ OnlyRows({d}) /\ OnlyTask(dispatchTask[d])
      BY <2>4 DEF TypeOK, OnlyRows, OnlyTask, MarkWorkerStopUnknown, SetWorker, dispatchVars,
         taskVars
    <3>3. RowConsistent(d)' /\ dispatchStatus'[d] # "absent"
      BY <2>4, <3>1 DEF TypeOK, RowConsistent, Active, Supervised, MarkWorkerStopUnknown,
         SetWorker, dispatchVars, taskVars
    <3>4. /\ Active(d)' => taskStatus'[dispatchTask[d]] = StatusUnder(worker'[d])
          /\ ~Active(d)' => taskStatus'[dispatchTask[d]] # "dispatched"
      BY <2>4, <3>1 DEF TypeOK, RowConsistent, StatusUnder, Active, Supervised,
         MarkWorkerStopUnknown, SetWorker, dispatchVars, taskVars
    <3> QED BY <3>1, <3>2, <3>3, <3>4, StepOfActive
  <2>5. ASSUME NEW d \in DispatchIds, AbandonWorkerDispatch(d)
       PROVE  LifecycleInvariant'
    <3>1. /\ Active(d)
          /\ RowConsistent(d)
          /\ taskStatus[dispatchTask[d]] = StatusUnder(worker[d])
          /\ OtherActive(d) = {}
          /\ dispatchTask[d] \in Tasks
      BY <2>5, RowsConsistent, AloneWhenActive DEF TypeOK, RowConsistent, Active, Supervised,
         AbandonWorkerDispatch, SetWorker, FailUncounted, Interrupted
    <3>2. dispatchTask' = dispatchTask /\ OnlyRows({d}) /\ OnlyTask(dispatchTask[d])
      BY <2>5 DEF TypeOK, OnlyRows, OnlyTask, AbandonWorkerDispatch, SetWorker, FailUncounted,
         Interrupted
    <3>3. RowConsistent(d)' /\ dispatchStatus'[d] # "absent"
      BY <2>5, <3>1 DEF TypeOK, RowConsistent, Active, Supervised, AbandonWorkerDispatch,
         SetWorker, FailUncounted, Interrupted
    <3>4. /\ Active(d)' => taskStatus'[dispatchTask[d]] = StatusUnder(worker'[d])
          /\ ~Active(d)' => taskStatus'[dispatchTask[d]] # "dispatched"
      BY <2>5, <3>1 DEF TypeOK, RowConsistent, StatusUnder, Active, Supervised,
         AbandonWorkerDispatch, SetWorker, FailUncounted, Interrupted
    <3> QED BY <3>1, <3>2, <3>3, <3>4, StepOfActive
  <2> QED BY <1>5, <2>1, <2>2, <2>3, <2>4, <2>5 DEF StopNext
<1>6. CASE FederatedNext
  <2>1. ASSUME NEW d \in DispatchIds, ReconcileFederatedReady(d)
       PROVE  LifecycleInvariant'
    <3>1. /\ Active(d)
          /\ RowConsistent(d)
          /\ taskStatus[dispatchTask[d]] = StatusUnder(worker[d])
          /\ OtherActive(d) = {}
          /\ dispatchTask[d] \in Tasks
      BY <2>1, RowsConsistent, AloneWhenActive DEF TypeOK, RowConsistent, Active, Supervised,
         ReconcileFederatedReady, SetWorker, Resumed
    <3>2. dispatchTask' = dispatchTask /\ OnlyRows({d}) /\ OnlyTask(dispatchTask[d])
      BY <2>1 DEF TypeOK, OnlyRows, OnlyTask, ReconcileFederatedReady, SetWorker, Resumed
    <3>3. RowConsistent(d)' /\ dispatchStatus'[d] # "absent"
      BY <2>1, <3>1 DEF TypeOK, RowConsistent, Active, Supervised, ReconcileFederatedReady,
         SetWorker, Resumed
    <3>4. /\ Active(d)' => taskStatus'[dispatchTask[d]] = StatusUnder(worker'[d])
          /\ ~Active(d)' => taskStatus'[dispatchTask[d]] # "dispatched"
      BY <2>1, <3>1 DEF TypeOK, RowConsistent, StatusUnder, Active, Supervised,
         ReconcileFederatedReady, SetWorker, Resumed
    <3> QED BY <3>1, <3>2, <3>3, <3>4, StepOfActive
  <2>2. ASSUME NEW d \in DispatchIds, ReconcileFederatedStartUnknown(d)
       PROVE  LifecycleInvariant'
    <3>1. /\ Active(d)
          /\ RowConsistent(d)
          /\ taskStatus[dispatchTask[d]] = StatusUnder(worker[d])
          /\ OtherActive(d) = {}
          /\ dispatchTask[d] \in Tasks
      BY <2>2, RowsConsistent, AloneWhenActive DEF TypeOK, RowConsistent, Active, Supervised,
         ReconcileFederatedStartUnknown, SetWorker, dispatchVars
    <3>2. dispatchTask' = dispatchTask /\ OnlyRows({d}) /\ OnlyTask(dispatchTask[d])
      BY <2>2 DEF TypeOK, OnlyRows, OnlyTask, ReconcileFederatedStartUnknown, SetWorker,
         dispatchVars
    <3>3. RowConsistent(d)' /\ dispatchStatus'[d] # "absent"
      BY <2>2, <3>1 DEF TypeOK, RowConsistent, Active, Supervised,
         ReconcileFederatedStartUnknown, SetWorker, dispatchVars
    <3>4. /\ Active(d)' => taskStatus'[dispatchTask[d]] = StatusUnder(worker'[d])
          /\ ~Active(d)' => taskStatus'[dispatchTask[d]] # "dispatched"
      BY <2>2, <3>1 DEF TypeOK, RowConsistent, StatusUnder, Active, Supervised,
         ReconcileFederatedStartUnknown, SetWorker, dispatchVars
    <3> QED BY <3>1, <3>2, <3>3, <3>4, StepOfActive
  <2>3. ASSUME NEW d \in DispatchIds, NEW state \in {"failed", "stopped"},
     NEW stalled \in BOOLEAN, ReconcileFederatedEnd(d, state, stalled)
       PROVE  LifecycleInvariant'
    <3>1. /\ Active(d)
          /\ RowConsistent(d)
          /\ taskStatus[dispatchTask[d]] = StatusUnder(worker[d])
          /\ OtherActive(d) = {}
          /\ dispatchTask[d] \in Tasks
      BY <2>3, RowsConsistent, AloneWhenActive DEF TypeOK, RowConsistent, Active, Supervised,
         ReconcileFederatedEnd, SetWorker, FailUncounted, InterruptedThen
    <3>2. dispatchTask' = dispatchTask /\ OnlyRows({d}) /\ OnlyTask(dispatchTask[d])
      BY <2>3 DEF TypeOK, OnlyRows, OnlyTask, ReconcileFederatedEnd, SetWorker, FailUncounted,
         InterruptedThen
    <3>3. RowConsistent(d)' /\ dispatchStatus'[d] # "absent"
      BY <2>3, <3>1 DEF TypeOK, RowConsistent, Active, Supervised, ReconcileFederatedEnd,
         SetWorker, FailUncounted, InterruptedThen
    <3>4. /\ Active(d)' => taskStatus'[dispatchTask[d]] = StatusUnder(worker'[d])
          /\ ~Active(d)' => taskStatus'[dispatchTask[d]] # "dispatched"
      BY <2>3, <3>1 DEF TypeOK, RowConsistent, StatusUnder, Active, Supervised,
         ReconcileFederatedEnd, SetWorker, FailUncounted, InterruptedThen
    <3> QED BY <3>1, <3>2, <3>3, <3>4, StepOfActive
  <2>4. ASSUME NEW d \in DispatchIds, ReconcileFederatedWorkerStop(d)
       PROVE  LifecycleInvariant'
    <3>1. /\ Active(d)
          /\ RowConsistent(d)
          /\ taskStatus[dispatchTask[d]] = StatusUnder(worker[d])
          /\ OtherActive(d) = {}
          /\ dispatchTask[d] \in Tasks
      BY <2>4, RowsConsistent, AloneWhenActive DEF TypeOK, RowConsistent, Active, Supervised,
         ReconcileFederatedWorkerStop, StopSettled, SetWorker, FailUncounted, Interrupted
    <3>2. dispatchTask' = dispatchTask /\ OnlyRows({d}) /\ OnlyTask(dispatchTask[d])
      BY <2>4 DEF TypeOK, OnlyRows, OnlyTask, ReconcileFederatedWorkerStop, StopSettled,
         SetWorker, FailUncounted, Interrupted
    <3>3. RowConsistent(d)' /\ dispatchStatus'[d] # "absent"
      BY <2>4, <3>1 DEF TypeOK, RowConsistent, Active, Supervised,
         ReconcileFederatedWorkerStop, StopSettled, SetWorker, FailUncounted, Interrupted
    <3>4. /\ Active(d)' => taskStatus'[dispatchTask[d]] = StatusUnder(worker'[d])
          /\ ~Active(d)' => taskStatus'[dispatchTask[d]] # "dispatched"
      BY <2>4, <3>1 DEF TypeOK, RowConsistent, StatusUnder, Active, Supervised,
         ReconcileFederatedWorkerStop, StopSettled, SetWorker, FailUncounted, Interrupted
    <3> QED BY <3>1, <3>2, <3>3, <3>4, StepOfActive
  <2>5. ASSUME NEW d \in DispatchIds, ResumeFederatedWorkerForTerminalRelay(d)
       PROVE  LifecycleInvariant'
    <3>1. /\ Active(d)
          /\ RowConsistent(d)
          /\ taskStatus[dispatchTask[d]] = StatusUnder(worker[d])
          /\ OtherActive(d) = {}
          /\ dispatchTask[d] \in Tasks
      BY <2>5, RowsConsistent, AloneWhenActive DEF TypeOK, RowConsistent, Active, Supervised,
         ResumeFederatedWorkerForTerminalRelay, SetWorker, Resumed, dispatchVars
    <3>2. dispatchTask' = dispatchTask /\ OnlyRows({d}) /\ OnlyTask(dispatchTask[d])
      BY <2>5 DEF TypeOK, OnlyRows, OnlyTask, ResumeFederatedWorkerForTerminalRelay,
         SetWorker, Resumed, dispatchVars
    <3>3. RowConsistent(d)' /\ dispatchStatus'[d] # "absent"
      BY <2>5, <3>1 DEF TypeOK, RowConsistent, Active, Supervised,
         ResumeFederatedWorkerForTerminalRelay, SetWorker, Resumed, dispatchVars
    <3>4. /\ Active(d)' => taskStatus'[dispatchTask[d]] = StatusUnder(worker'[d])
          /\ ~Active(d)' => taskStatus'[dispatchTask[d]] # "dispatched"
      BY <2>5, <3>1 DEF TypeOK, RowConsistent, StatusUnder, Active, Supervised,
         ResumeFederatedWorkerForTerminalRelay, SetWorker, Resumed, dispatchVars
    <3> QED BY <3>1, <3>2, <3>3, <3>4, StepOfActive
  <2> QED BY <1>6, <2>1, <2>2, <2>3, <2>4, <2>5 DEF FederatedNext
<1>1. CASE TaskNext
  <2>1. ASSUME NEW t \in Tasks, NEW deps \in SUBSET (Tasks \ {t}), CreateTask(t, deps)
       PROVE  LifecycleInvariant'
    <3>1. ActiveOf(t) = {}
      BY <2>1, AloneWhenActive DEF CreateTask, ActiveOf, StatusUnder
    <3>2. OnlyRows({}) /\ OnlyTask(t) /\ taskStatus'[t] # "dispatched"
      BY <2>1 DEF TypeOK, CreateTask, OnlyRows, OnlyTask, dispatchVars, workerVars
    <3> QED BY <3>1, <3>2, StepOfTask
  <2>2. ASSUME NEW t \in Tasks, NEW status \in TaskStatuses, TaskUpdate(t, status)
       PROVE  LifecycleInvariant'
    BY <2>2, UpdateStep DEF TaskUpdate
  <2>3. ASSUME NEW t \in Tasks, NEW g \in Gates, CreateGate(g, t)
       PROVE  LifecycleInvariant'
    <3>1. /\ OnlyTask(t) /\ taskStatus'[t] # "dispatched" /\ UNCHANGED <<dispatchTask, worker>>
          /\ SettleDispatches(ActiveOf(t), "completed")
          /\ \A d \in ActiveOf(t) : ~Supervised(d)
      BY <2>3 DEF TypeOK, CreateGate, OnlyTask, workerVars
    <3> QED BY <3>1, SettleStep
  <2> QED BY <1>1, <2>1, <2>2, <2>3 DEF TaskNext
<1>2. CASE ClaimNext
  <2>1. ASSUME NEW d \in DispatchIds, NEW t \in Tasks, NEW x \in Terminals,
     NEW inject \in BOOLEAN,
              CreateDispatchContext(d, t, x, inject)
       PROVE  LifecycleInvariant'
    <3>1. ~Contended(d, t)
      BY <2>1, AloneWhenActive DEF CreateDispatchContext, Contended, StatusUnder
    <3>2. /\ OnlyRows({d}) /\ OnlyTask(t) /\ IsNextRow(d) /\ dispatchStatus[d] = "absent"
          /\ dispatchTask' = [dispatchTask EXCEPT ![d] = t] /\ dispatchTask'[d] = t
      BY <2>1 DEF TypeOK, CreateDispatchContext, IsNextRow, OnlyRows, OnlyTask, workerVars
    <3>3. /\ RowConsistent(d)' /\ Active(d)' /\ taskStatus'[t] = StatusUnder(worker'[d])
          /\ dispatchStatus'[d] # "absent"
      BY <2>1, <3>2, RowsConsistent
         DEF TypeOK, CreateDispatchContext, RowConsistent, Active, Supervised, StatusUnder,
            workerVars
    <3>4. IsLatest(d)' BY <3>2, NextRowIsLatest
    <3> QED BY <3>1, <3>2, <3>3, <3>4, StepOfOne
  <2>2. ASSUME NEW d \in DispatchIds, NEW t \in Tasks, NEW remote \in BOOLEAN,
              CreateStartingWorkerDispatch(d, t, remote)
       PROVE  LifecycleInvariant'
    <3>1. ~Contended(d, t)
      <4>1. CASE taskStatus[t] = "ready"
        BY <4>1, AloneWhenActive DEF Contended, StatusUnder
      <4>2. ASSUME NEW prior \in DispatchIds, MayRetry(prior, t) PROVE ~Contended(d, t)
        <5> SUFFICES ASSUME NEW e \in DispatchIds, Active(e), dispatchTask[e] = t PROVE FALSE
          BY DEF Contended
        <5>1. e <= prior /\ prior <= e
          BY <4>2 DEF MayRetry, IsLatest, LifecycleInvariant, ActiveIsLatest
        <5>2. e = prior
          BY <5>1 DEF DispatchIds
        <5> QED BY <4>2, <5>2, RowsConsistent DEF MayRetry, RowConsistent, Active, Supervised
      <4> QED BY <2>2, <4>1, <4>2 DEF CreateStartingWorkerDispatch
    <3>2. /\ OnlyRows({d}) /\ OnlyTask(t) /\ IsNextRow(d) /\ dispatchStatus[d] = "absent"
          /\ dispatchTask' = [dispatchTask EXCEPT ![d] = t] /\ dispatchTask'[d] = t
      BY <2>2 DEF TypeOK, CreateStartingWorkerDispatch, IsNextRow, OnlyRows, OnlyTask, SetWorker
    <3>3. /\ RowConsistent(d)' /\ Active(d)' /\ taskStatus'[t] = StatusUnder(worker'[d])
          /\ dispatchStatus'[d] # "absent"
      BY <2>2, <3>2 DEF TypeOK, CreateStartingWorkerDispatch, SetWorker, RowConsistent,
         Active, Supervised,
         StatusUnder
    <3>4. IsLatest(d)' BY <3>2, NextRowIsLatest
    <3> QED BY <3>1, <3>2, <3>3, <3>4, StepOfOne
  <2> QED BY <1>2, <2>1, <2>2 DEF ClaimNext
<1>7. CASE QuestionNext
  BY <1>7, StepOfNone DEF QuestionNext, CreateQuestion, RegisterFederatedQuestion, OpenQuestion,
     AnswerQuestion, OnlyRows, taskVars, dispatchVars, workerVars
<1>8. ASSUME NEW g \in Gates, ResolveGate(g) PROVE LifecycleInvariant'
  <2>1. gateTask[g] \in Tasks BY <1>8 DEF TypeOK, ResolveGate, UpdateTask, MayUpdate
  <2> QED BY <1>8, <2>1, UpdateStep DEF TypeOK, ResolveGate
<1>9. CASE Restart
  BY <1>9, StepOfNone DEF Restart, OnlyRows, taskVars, dispatchVars, workerVars
<1>10. CASE UNCHANGED vars
  BY <1>10, StepOfNone DEF vars, OnlyRows, taskVars, dispatchVars, workerVars
<1> QED BY <1>1, <1>2, <1>3, <1>4, <1>5, <1>6, <1>7, <1>8, <1>9, <1>10 DEF Next

\* The inductive invariant holds in every reachable state.
THEOREM InvariantHolds == Spec => []LifecycleInvariant
<1>1. Init => LifecycleInvariant
  BY CountAssumption, NullAssumption DEF Init, LifecycleInvariant, TypeOK, DispatchIds,
     StartsArePending, WorkerAndDispatchEndTogether, ActiveIsLatest, OneActiveDispatchPerTask,
     TaskTracksItsDispatch, Active, ActiveStatuses, TaskStatuses, DispatchStatuses, WorkerStates
<1> QED BY <1>1, InvariantStep, PTL DEF Spec

\* No task is worked on twice at once.
THEOREM OneActivePerTask == Spec => []OneActiveDispatchPerTask
<1>1. LifecycleInvariant => OneActiveDispatchPerTask BY DEF LifecycleInvariant
<1> QED BY <1>1, InvariantHolds, PTL

\* A worker and its dispatch end in the same transaction.
THEOREM EndTogether == Spec => []WorkerAndDispatchEndTogether
<1>1. LifecycleInvariant => WorkerAndDispatchEndTogether BY DEF LifecycleInvariant
<1> QED BY <1>1, InvariantHolds, PTL

\* The task row tells where its dispatch is.
THEOREM TaskTracks == Spec => []TaskTracksItsDispatch
<1>1. LifecycleInvariant => TaskTracksItsDispatch BY DEF LifecycleInvariant
<1> QED BY <1>1, InvariantHolds, PTL
=============================================================================
