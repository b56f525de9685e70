---------------------------- MODULE TaskLifecycle ----------------------------
(***************************************************************************)
(* The orchestration database of orcad: tasks, dispatch contexts,          *)
(* supervised workers, decision gates and question threads, and the        *)
(* SQLite transactions that change them                                    *)
(* (src/main/runtime/orchestration/db).                                    *)
(*                                                                         *)
(* Every action is one committed transaction.  A code path that throws     *)
(* rolls its transaction back, so a condition under which the code throws  *)
(* is a guard of the action, and so is an early return that writes         *)
(* nothing.  Guards that come from the only callers of an operation, not   *)
(* from its own body, are marked "caller".                                 *)
(***************************************************************************)
EXTENDS Integers, FiniteSets

CONSTANTS
    Tasks,          \* task ids
    Terminals,      \* agent terminals (handle and pane identity together)
    Gates,          \* decision gate ids
    Questions,      \* question thread ids
    MaxDispatches,  \* bound: dispatch rows ever inserted
    MaxEpoch,       \* bound: runtime restarts
    BreakFailures,  \* DISPATCH_CIRCUIT_BREAK_FAILURES
    NoTask, NoTerminal

ASSUME CountAssumption ==
    /\ MaxDispatches \in Nat /\ MaxEpoch \in Nat
    /\ BreakFailures \in Nat \ {0}

ASSUME NullAssumption == NoTask \notin Tasks /\ NoTerminal \notin Terminals

\* Dispatch ids in insertion order: the number is the rowid of dispatch_contexts.
DispatchIds == 1 .. MaxDispatches

TaskStatuses == {"pending", "ready", "dispatched", "completed", "failed", "blocked"}
DispatchStatuses == {"pending", "dispatched", "completed", "failed", "circuit_broken"}
ActiveStatuses == {"pending", "dispatched"}
WorkerStates == {"starting", "start_unknown", "ready", "stopping", "stop_unknown",
                 "succeeded", "failed", "stopped", "abandoned"}
SettledStates == {"succeeded", "failed", "stopped", "abandoned"}

VARIABLES
    taskStatus,     \* tasks.status, "absent" before the row exists
    taskDeps,       \* tasks.deps
    dispatchTask,   \* dispatch_contexts.task_id
    dispatchStatus, \* dispatch_contexts.status, "absent" before the row exists
    failureCount,   \* dispatch_contexts.failure_count
    promptStalled,  \* dispatch_contexts.last_failure = 'agent_prompt_stalled'
    assignee,       \* dispatch_contexts.assignee_handle / assignee_pane_key
    capability,     \* capability_hash and capability_revoked_at
    worker,         \* worker_dispatches.state, "none" for a context-only dispatch
    workerEpoch,    \* worker_dispatches.runtime_epoch
    federated,      \* a federated_dispatches row exists: the worker runs on a peer
    gateTask, gateStatus,               \* decision_gates
    questionDispatch, questionStatus,   \* question_threads
    runtimeEpoch    \* id of the running orcad process

taskVars == <<taskStatus, taskDeps>>
rowVars == <<dispatchTask, federated>>
dispatchVars == <<dispatchStatus, failureCount, promptStalled, assignee, capability>>
workerVars == <<worker, workerEpoch>>
gateVars == <<gateTask, gateStatus>>
questionVars == <<questionDispatch, questionStatus>>
vars == <<taskVars, rowVars, dispatchVars, workerVars, gateVars, questionVars, runtimeEpoch>>

Init ==
    /\ taskStatus = [t \in Tasks |-> "absent"]
    /\ taskDeps = [t \in Tasks |-> {}]
    /\ dispatchTask = [d \in DispatchIds |-> NoTask]
    /\ dispatchStatus = [d \in DispatchIds |-> "absent"]
    /\ failureCount = [d \in DispatchIds |-> 0]
    /\ promptStalled = [d \in DispatchIds |-> FALSE]
    /\ assignee = [d \in DispatchIds |-> NoTerminal]
    /\ capability = [d \in DispatchIds |-> "none"]
    /\ worker = [d \in DispatchIds |-> "none"]
    /\ workerEpoch = [d \in DispatchIds |-> 0]
    /\ federated = [d \in DispatchIds |-> FALSE]
    /\ gateTask = [g \in Gates |-> NoTask]
    /\ gateStatus = [g \in Gates |-> "absent"]
    /\ questionDispatch = [q \in Questions |-> 0]
    /\ questionStatus = [q \in Questions |-> "absent"]
    /\ runtimeEpoch = 0

-----------------------------------------------------------------------------
(* Reading the tables *)

Active(d) == dispatchStatus[d] \in ActiveStatuses

\* The worker row exists and its process is not known to have ended.
Supervised(d) == worker[d] \notin SettledStates \cup {"none"}

ActiveOf(t) == {d \in DispatchIds : dispatchTask[d] = t /\ Active(d)}

OtherActive(d) == ActiveOf(dispatchTask[d]) \ {d}

\* getDispatchContext: the row of a task with the greatest rowid.
IsLatest(d) == \A e \in DispatchIds : dispatchTask[e] = dispatchTask[d] => e <= d

\* The id the next INSERT INTO dispatch_contexts takes.
IsNextRow(d) ==
    /\ dispatchStatus[d] = "absent"
    /\ \A e \in DispatchIds : e < d => dispatchStatus[e] # "absent"

\* Mutant: a terminal attached by a start that is still pending counts as free.
TerminalNotDispatched(x) ==
    \A e \in DispatchIds : dispatchStatus[e] = "dispatched" => assignee[e] # x

\* findActiveDispatchForAssignee finds nothing.
TerminalFree(x) == \A e \in DispatchIds : Active(e) => assignee[e] # x

\* SELECT MAX(failure_count) over the rows of a task, 0 when there is none.
IsMaxFailures(t, n) ==
    /\ n = 0 \/ \E d \in DispatchIds : dispatchTask[d] = t /\ failureCount[d] = n
    /\ \A d \in DispatchIds : dispatchTask[d] = t => failureCount[d] <= n

-----------------------------------------------------------------------------
(* LEGAL_TRANSITIONS: the edges transitionLifecycleWithDb accepts; for any other it throws. *)

DispatchEdges ==
    [pending |-> DispatchStatuses,
     dispatched |-> DispatchStatuses \ {"pending"},
     completed |-> {"completed"}, failed |-> {"failed"}, circuit_broken |-> {"circuit_broken"}]

WorkerEdges ==
    LET ends == {"failed", "stopped", "abandoned"}
    IN  [starting |-> {"starting", "ready", "start_unknown", "stopping"} \cup ends,
         start_unknown |-> {"start_unknown", "ready", "stopping"} \cup ends,
         ready |-> {"ready", "succeeded", "failed", "stopping", "abandoned"},
         stopping |-> {"stopping", "stop_unknown", "ready"} \cup ends,
         stop_unknown |-> {"stop_unknown"} \cup ends,
         succeeded |-> {"succeeded"}, failed |-> {"failed"},
         stopped |-> {"stopped"}, abandoned |-> {"abandoned"}]

-----------------------------------------------------------------------------
(* Writes shared by several transactions *)

\* promoteReadyTasks: every pending task waiting for "done" whose dependencies are all completed.
Promoted(status, done) ==
    [t \in Tasks |->
        IF /\ status[t] = "pending"
           /\ done \in taskDeps[t]
           /\ \A dep \in taskDeps[t] : status[dep] = "completed"
        THEN "ready" ELSE status[t]]

\* Mutant: promotes before the completion is written.
ConcludedTooLate(t, verdict) ==
    LET promoted == IF verdict = "completed" THEN Promoted(taskStatus, t) ELSE taskStatus
    IN  [promoted EXCEPT ![t] = verdict]

\* A task reaches a terminal status; success promotes what waited for it.
Concluded(t, verdict) ==
    LET marked == [taskStatus EXCEPT ![t] = verdict]
    IN  IF verdict = "completed" THEN Promoted(marked, t) ELSE marked

\* Mutant: forgets the capability of a start that is still pending.
RevokedIfDispatched(D) ==
    [d \in DispatchIds |->
        IF d \in D /\ capability[d] = "live" /\ dispatchStatus[d] = "dispatched"
        THEN "revoked" ELSE capability[d]]

\* capability_revoked_at is set; without a capability_hash there is nothing to revoke.
Revoked(D) ==
    [d \in DispatchIds |->
        IF d \in D /\ capability[d] = "live" THEN "revoked" ELSE capability[d]]

\* closeQuestionsForDispatch, for a set of dispatches.
CloseQuestions(D) ==
    /\ questionStatus' = [q \in Questions |->
         IF questionStatus[q] = "pending" /\ questionDispatch[q] \in D
         THEN "closed" ELSE questionStatus[q]]
    /\ UNCHANGED questionDispatch

\* reconcileTaskAfterDispatchInterruption
Interrupted(d) ==
    LET t == dispatchTask[d]
    IN  IF taskStatus[t] \in {"dispatched", "blocked"}
        THEN [taskStatus EXCEPT ![t] = IF OtherActive(d) # {} THEN "dispatched" ELSE "blocked"]
        ELSE taskStatus

\* Mutant: a task blocked while its worker was uncertain stays blocked.
NotResumed(d) == taskStatus

\* A task blocked while its worker was uncertain is dispatched again.
Resumed(d) ==
    [taskStatus EXCEPT ![dispatchTask[d]] = IF @ = "blocked" THEN "dispatched" ELSE @]

\* Reconcile as above, then give a task left without any active dispatch its next status.
InterruptedThen(d, next) ==
    LET t == dispatchTask[d]
    IN  IF taskStatus[t] \in {"dispatched", "blocked"}
        THEN [taskStatus EXCEPT ![t] = IF OtherActive(d) # {} THEN "dispatched" ELSE next]
        ELSE taskStatus

\* settleActiveDispatchesForTask for a set of active dispatches of one task.
SettleDispatches(D, verdict) ==
    /\ dispatchStatus' = [d \in DispatchIds |-> IF d \in D THEN verdict ELSE dispatchStatus[d]]
    /\ capability' = Revoked(D)
    /\ CloseQuestions(D)

\* Mutant: the circuit breaks one failure late.
FailedStatusLate(d) ==
    IF failureCount[d] >= BreakFailures THEN "circuit_broken" ELSE "failed"

\* The status and count of a dispatch that counts one more failure.
FailedStatus(d) ==
    IF failureCount[d] + 1 >= BreakFailures THEN "circuit_broken" ELSE "failed"

\* Back to "ready", or given up for good once the circuit breaker tripped.
StatusAfterFailure(d) == IF FailedStatus(d) = "circuit_broken" THEN "failed" ELSE "ready"

CountFailure(d, stalled) ==
    /\ dispatchStatus' = [dispatchStatus EXCEPT ![d] = FailedStatus(d)]
    /\ failureCount' = [failureCount EXCEPT ![d] = @ + 1]
    /\ promptStalled' = [promptStalled EXCEPT ![d] = stalled]
    /\ capability' = Revoked({d})

\* A dispatch, if still active, fails without counting toward the circuit breaker.
FailUncounted(d) ==
    dispatchStatus' = [dispatchStatus EXCEPT ![d] = IF Active(d) THEN "failed" ELSE @]

SetWorker(d, state) == worker' = [worker EXCEPT ![d] = state]

-----------------------------------------------------------------------------
(* Tasks *)

\* createTask: dependencies are existing tasks of the same run.
CreateTask(t, deps) ==
    /\ taskStatus[t] = "absent"
    /\ \A dep \in deps : taskStatus[dep] # "absent"
    /\ taskDeps' = [taskDeps EXCEPT ![t] = deps]
    /\ taskStatus' = [taskStatus EXCEPT ![t] =
         IF \A dep \in deps : taskStatus[dep] = "completed" THEN "ready" ELSE "pending"]
    /\ UNCHANGED <<rowVars, dispatchVars, workerVars, gateVars, questionVars, runtimeEpoch>>

\* Mutant: lets an update take a task away from its active dispatch.
MayUpdateAny(t, status) ==
    /\ taskStatus[t] # "absent"
    /\ status = "dispatched" => ActiveOf(t) # {}

\* updateTaskStatus, called by taskUpdate with any status.  Re-asserting a status with a
\* result runs the whole transaction again; without one it writes nothing.
MayUpdate(t, status) ==
    LET active == ActiveOf(t)
        terminal == status \in {"completed", "failed"}
        reopens == status = "dispatched" /\ taskStatus[t] # "dispatched"
    IN  /\ taskStatus[t] # "absent"
        /\ terminal \/ reopens => \A d \in active : ~Supervised(d)
        /\ status = "dispatched" => active # {}
        /\ active # {} => terminal \/ status = "dispatched"

UpdateTask(t, status) ==
    /\ MayUpdate(t, status)
    /\ IF status \in {"completed", "failed"}
       THEN /\ taskStatus' = Concluded(t, status)
            /\ SettleDispatches(ActiveOf(t), status)
       ELSE /\ taskStatus' = [taskStatus EXCEPT ![t] = status]
            /\ UNCHANGED <<dispatchStatus, capability, questionVars>>
    /\ UNCHANGED <<taskDeps, rowVars, failureCount, promptStalled, assignee, workerVars,
                   runtimeEpoch>>

TaskUpdate(t, status) == UpdateTask(t, status) /\ UNCHANGED gateVars

-----------------------------------------------------------------------------
(* Decision gates *)

\* createGate.  An agent that asks must own the latest active dispatch, the coordinator need
\* not: what an agent may open, the coordinator may open too, so one action covers both.
CreateGate(g, t) ==
    /\ gateStatus[g] = "absent"
    /\ taskStatus[t] # "absent"
    /\ \A d \in ActiveOf(t) : ~Supervised(d)
    /\ gateTask' = [gateTask EXCEPT ![g] = t]
    /\ gateStatus' = [gateStatus EXCEPT ![g] = "pending"]
    /\ SettleDispatches(ActiveOf(t), "completed")
    /\ taskStatus' = [taskStatus EXCEPT ![t] = "blocked"]
    /\ UNCHANGED <<taskDeps, rowVars, failureCount, promptStalled, assignee, workerVars,
                   runtimeEpoch>>

\* resolveGate, which rolls back when updateTaskStatus refuses.
ResolveGate(g) ==
    /\ gateStatus[g] = "pending"
    /\ gateStatus' = [gateStatus EXCEPT ![g] = "resolved"]
    /\ UpdateTask(gateTask[g], "ready")
    /\ UNCHANGED gateTask

-----------------------------------------------------------------------------
(* Dispatching to an agent terminal that already exists *)

\* createDispatchContext; with "inject" its only caller mints the capability at once.
CreateDispatchContext(d, t, x, inject) ==
    /\ IsNextRow(d)
    /\ taskStatus[t] = "ready"
    /\ TerminalFree(x)
    /\ \E n \in {0} \cup {failureCount[e] : e \in DispatchIds} :
         /\ IsMaxFailures(t, n)
         /\ failureCount' = [failureCount EXCEPT ![d] = n]
    /\ dispatchTask' = [dispatchTask EXCEPT ![d] = t]
    /\ dispatchStatus' = [dispatchStatus EXCEPT ![d] = "dispatched"]
    /\ assignee' = [assignee EXCEPT ![d] = x]
    /\ capability' = [capability EXCEPT ![d] = IF inject THEN "live" ELSE "none"]
    /\ taskStatus' = [taskStatus EXCEPT ![t] = "dispatched"]
    /\ UNCHANGED <<taskDeps, federated, promptStalled, workerVars, gateVars, questionVars,
                   runtimeEpoch>>

MayFail(d, exited) == Active(d) /\ (Supervised(d) => exited)

\* failDispatch on an active dispatch.  "exited": the caller saw the process end.
FailDispatch(d, exited, stalled) ==
    LET t == dispatchTask[d]
    IN  /\ MayFail(d, exited)
        /\ CountFailure(d, stalled)
        /\ worker' = [worker EXCEPT ![d] = IF @ = "none" \/ ~exited THEN @ ELSE "failed"]
        /\ taskStatus' = IF taskStatus[t] = "dispatched" /\ OtherActive(d) = {}
                         THEN [taskStatus EXCEPT ![t] = StatusAfterFailure(d)]
                         ELSE taskStatus
        /\ CloseQuestions({d})
        /\ UNCHANGED <<taskDeps, rowVars, assignee, workerEpoch, gateVars, runtimeEpoch>>

-----------------------------------------------------------------------------
(* Starting a supervised worker *)

MayRetry(prior, t) ==
    /\ dispatchTask[prior] = t
    /\ IsLatest(prior)
    /\ IF worker[prior] = "none" THEN dispatchStatus[prior] = "failed"
       ELSE worker[prior] \in {"failed", "stopped", "abandoned"}
    /\ taskStatus[t] \in {"failed", "blocked"}

\* createStartingWorkerDispatch on a ready task, or as a retry of its latest dispatch.
CreateStartingWorkerDispatch(d, t, remote) ==
    /\ IsNextRow(d)
    /\ taskStatus[t] = "ready" \/ \E prior \in DispatchIds : MayRetry(prior, t)
    /\ dispatchTask' = [dispatchTask EXCEPT ![d] = t]
    /\ federated' = [federated EXCEPT ![d] = remote]
    /\ dispatchStatus' = [dispatchStatus EXCEPT ![d] = "pending"]
    /\ SetWorker(d, "starting")
    /\ workerEpoch' = [workerEpoch EXCEPT ![d] = runtimeEpoch]
    /\ taskStatus' = [taskStatus EXCEPT ![t] = "dispatched"]
    /\ UNCHANGED <<taskDeps, failureCount, promptStalled, assignee, capability, gateVars,
                   questionVars, runtimeEpoch>>

\* prepareStartingWorkerAuthority.  caller: the local start of the runtime that owns the row.
PrepareStartingWorkerAuthority(d, x) ==
    /\ ~federated[d] /\ workerEpoch[d] = runtimeEpoch
    /\ dispatchStatus[d] = "pending" /\ worker[d] = "starting"
    /\ \A e \in DispatchIds \ {d} : Active(e) => assignee[e] # x
    /\ assignee' = [assignee EXCEPT ![d] = x]
    /\ capability' = [capability EXCEPT ![d] = "live"]
    /\ UNCHANGED <<taskVars, rowVars, dispatchStatus, failureCount, promptStalled, workerVars,
                   gateVars, questionVars, runtimeEpoch>>

\* markWorkerDispatchReady.  caller: a local start has attached the authority before.
MarkWorkerDispatchReady(d) ==
    /\ federated[d] \/ assignee[d] # NoTerminal
    /\ workerEpoch[d] = runtimeEpoch
    /\ dispatchStatus[d] = "pending" /\ worker[d] = "starting"
    /\ dispatchStatus' = [dispatchStatus EXCEPT ![d] = "dispatched"]
    /\ SetWorker(d, "ready")
    /\ UNCHANGED <<taskVars, rowVars, failureCount, promptStalled, assignee, capability,
                   workerEpoch, gateVars, questionVars, runtimeEpoch>>

\* failWorkerStart; the capability of a worker whose prompt only went unobserved is retained.
\* caller: the start is still running in its own runtime.
FailWorkerStart(d, stalled) ==
    LET t == dispatchTask[d]
    IN  /\ worker[d] = "starting" /\ workerEpoch[d] = runtimeEpoch
        /\ stalled => federated[d] \/ assignee[d] # NoTerminal
        /\ FailUncounted(d)
        /\ promptStalled' = [promptStalled EXCEPT ![d] = stalled]
        /\ capability' = IF stalled THEN capability ELSE Revoked({d})
        /\ SetWorker(d, "failed")
        /\ taskStatus' = IF OtherActive(d) = {} /\ taskStatus[t] # "completed"
                         THEN [taskStatus EXCEPT ![t] = "failed"] ELSE taskStatus
        /\ CloseQuestions({d})
        /\ UNCHANGED <<taskDeps, rowVars, failureCount, assignee, workerEpoch, gateVars,
                       runtimeEpoch>>

\* markWorkerStartUnknown, by the start itself or by workerShow after a restart.
MarkWorkerStartUnknown(d) ==
    LET t == dispatchTask[d]
    IN  /\ worker[d] = "starting"
        /\ taskStatus[t] = "dispatched"
        /\ SetWorker(d, "start_unknown")
        /\ taskStatus' = [taskStatus EXCEPT ![t] = "blocked"]
        /\ UNCHANGED <<taskDeps, rowVars, dispatchVars, workerEpoch, gateVars, questionVars,
                       runtimeEpoch>>

-----------------------------------------------------------------------------
(* The worker's own report *)

\* Who may report (send, or the federation relay): a capability-backed dispatch needs it
\* unrevoked, one without needs its assignee, a federated report comes over the relay.
MayReport(d) ==
    \/ federated[d]
    \/ capability[d] = "live"
    \/ capability[d] = "none" /\ assignee[d] # NoTerminal

\* Mutant: corrects a stalled start whatever became of its task since.
StalledPrompt(d) == dispatchStatus[d] = "failed" /\ promptStalled[d]

\* Mutant: corrects every failure, not only a stalled prompt.
FailedBefore(d) ==
    dispatchStatus[d] = "failed" /\ taskStatus[dispatchTask[d]] = "failed"

\* A start recorded as a stalled prompt, whose worker reports after all.
SettledByUnobservedPrompt(d) ==
    /\ dispatchStatus[d] = "failed" /\ promptStalled[d]
    /\ taskStatus[dispatchTask[d]] = "failed"

ReconnectingStart(d) ==
    /\ Active(d) /\ worker[d] = "start_unknown"
    /\ taskStatus[dispatchTask[d]] = "blocked"

ReportingStart(d) ==
    /\ dispatchStatus[d] = "pending" /\ worker[d] = "starting"
    /\ taskStatus[dispatchTask[d]] = "dispatched"

ReportingRun(d) ==
    /\ dispatchStatus[d] = "dispatched"
    /\ taskStatus[dispatchTask[d]] = "dispatched"

\* From which worker state settleWorkerReport records the outcome.
ReportableWorker(d, outcome) ==
    \/ worker[d] = "none"
    \/ SettledByUnobservedPrompt(d) /\ worker[d] = "failed"
    \/ ReconnectingStart(d) \/ ReportingStart(d)
    \/ worker[d] = "ready"
    \/ outcome = "failed" /\ worker[d] \in {"start_unknown", "starting"}

\* settleWorkerReport; every report it rejects or finds settled already writes no row here.
SettleWorkerReport(d, outcome) ==
    LET verdict == IF outcome = "succeeded" THEN "completed" ELSE "failed"
    IN  /\ dispatchStatus[d] # "absent"
        /\ MayReport(d)
        /\ \/ SettledByUnobservedPrompt(d) \/ ReconnectingStart(d)
           \/ ReportingStart(d) \/ ReportingRun(d)
        /\ \A e \in OtherActive(d) : ~Supervised(e)
        /\ worker[d] = "none" => Active(d) /\ \A e \in OtherActive(d) : e < d
        /\ ReportableWorker(d, outcome)
        /\ SettleDispatches({d} \cup OtherActive(d), verdict)
        /\ promptStalled' = [promptStalled EXCEPT ![d] = @ /\ outcome = "succeeded"]
        /\ worker' = [worker EXCEPT ![d] = IF @ = "none" THEN "none" ELSE outcome]
        /\ taskStatus' = Concluded(dispatchTask[d], verdict)
        /\ UNCHANGED <<taskDeps, rowVars, failureCount, assignee, workerEpoch, gateVars,
                       runtimeEpoch>>

-----------------------------------------------------------------------------
(* Stopping, abandoning and losing a worker *)

\* releaseContextOnlyDispatch, for a stop or an abandon of a dispatch without a worker.
ReleaseContextOnlyDispatch(d) ==
    LET t == dispatchTask[d]
    IN  /\ worker[d] = "none" /\ Active(d)
        /\ FailUncounted(d)
        /\ promptStalled' = [promptStalled EXCEPT ![d] = FALSE]
        /\ capability' = Revoked({d})
        /\ taskStatus' = IF OtherActive(d) = {} /\ taskStatus[t] = "dispatched"
                         THEN [taskStatus EXCEPT ![t] = "blocked"] ELSE taskStatus
        /\ CloseQuestions({d})
        /\ UNCHANGED <<taskDeps, rowVars, failureCount, assignee, workerVars, gateVars,
                       runtimeEpoch>>

\* Mutant: a stop whose outcome is unknown can be issued again.
MayStopAgain(d) == worker[d] \in {"ready", "start_unknown", "stop_unknown"}

\* A supervised worker, or a stop that another runtime stranded.
MayStop(d) ==
    \/ worker[d] \in {"ready", "start_unknown"}
    \/ worker[d] = "stopping" /\ workerEpoch[d] # runtimeEpoch

\* beginWorkerStop
BeginWorkerStop(d) ==
    /\ MayStop(d)
    /\ SetWorker(d, "stopping")
    /\ workerEpoch' = [workerEpoch EXCEPT ![d] = runtimeEpoch]
    /\ capability' = Revoked({d})
    /\ taskStatus' = Interrupted(d)
    /\ CloseQuestions({d})
    /\ UNCHANGED <<taskDeps, rowVars, dispatchStatus, failureCount, promptStalled, assignee,
                   gateVars, runtimeEpoch>>

\* The writes settleWorkerStop and reconcileFederatedWorkerStop have in common.
StopSettled(d) ==
    /\ SetWorker(d, "stopped")
    /\ FailUncounted(d)
    /\ promptStalled' = [promptStalled EXCEPT ![d] = IF Active(d) THEN FALSE ELSE @]
    /\ taskStatus' = Interrupted(d)
    /\ UNCHANGED <<taskDeps, rowVars, failureCount, assignee, capability, workerEpoch,
                   gateVars, questionVars, runtimeEpoch>>

\* settleWorkerStop.  caller: the worker-stop request still running in the runtime that began it.
SettleWorkerStop(d) ==
    /\ worker[d] = "stopping" /\ workerEpoch[d] = runtimeEpoch /\ ~federated[d]
    /\ StopSettled(d)

\* markWorkerStopUnknown, by the stop itself or by workerShow after a restart.
MarkWorkerStopUnknown(d) ==
    /\ worker[d] = "stopping"
    /\ SetWorker(d, "stop_unknown")
    /\ UNCHANGED <<taskVars, rowVars, dispatchVars, workerEpoch, gateVars, questionVars,
                   runtimeEpoch>>

\* abandonWorkerDispatch on a supervised worker.
AbandonWorkerDispatch(d) ==
    /\ Supervised(d) /\ worker[d] # "stopping"
    /\ IsLatest(d)
    /\ SetWorker(d, "abandoned")
    /\ FailUncounted(d)
    /\ capability' = IF Active(d) THEN Revoked({d}) ELSE capability
    /\ taskStatus' = Interrupted(d)
    /\ CloseQuestions({d})
    /\ UNCHANGED <<taskDeps, rowVars, failureCount, promptStalled, assignee, workerEpoch,
                   gateVars, runtimeEpoch>>

\* failActiveDispatchOnExit: the agent process of a local dispatch ended.
ProcessExit(d) ==
    /\ Active(d) /\ assignee[d] # NoTerminal
    /\ IF worker[d] = "stopping" /\ workerEpoch[d] = runtimeEpoch
       THEN StopSettled(d) ELSE FailDispatch(d, TRUE, FALSE)

\* reconcileMissingWorkerTerminal.  caller: terminal recovery, for an active dispatch whose
\* recorded terminal the host no longer lists.
ReconcileMissingWorkerTerminal(d) ==
    LET stopWasPending == worker[d] \in {"stopping", "stop_unknown"}
    IN  /\ Supervised(d) /\ Active(d) /\ assignee[d] # NoTerminal
        /\ CountFailure(d, FALSE)
        /\ SetWorker(d, IF stopWasPending THEN "stopped" ELSE "abandoned")
        /\ taskStatus' = IF stopWasPending THEN taskStatus
                         ELSE InterruptedThen(d, StatusAfterFailure(d))
        /\ CloseQuestions({d})
        /\ UNCHANGED <<taskDeps, rowVars, assignee, workerEpoch, gateVars, runtimeEpoch>>

-----------------------------------------------------------------------------
(* What the home learns of a worker on a peer *)

\* reconcileFederatedWorkerStart with the state the worker server reports.
ReconcileFederatedReady(d) ==
    /\ federated[d] /\ worker[d] \in {"starting", "start_unknown"}
    /\ SetWorker(d, "ready")
    /\ dispatchStatus' = [dispatchStatus EXCEPT ![d] = IF @ = "pending" THEN "dispatched" ELSE @]
    /\ taskStatus' = Resumed(d)
    /\ UNCHANGED <<taskDeps, rowVars, failureCount, promptStalled, assignee, capability,
                   workerEpoch, gateVars, questionVars, runtimeEpoch>>

ReconcileFederatedStartUnknown(d) ==
    LET t == dispatchTask[d]
    IN  /\ federated[d] /\ worker[d] \in {"starting", "start_unknown"}
        /\ SetWorker(d, "start_unknown")
        /\ taskStatus' = [taskStatus EXCEPT ![t] = IF @ = "dispatched" THEN "blocked" ELSE @]
        /\ UNCHANGED <<taskDeps, rowVars, dispatchVars, workerEpoch, gateVars, questionVars,
                       runtimeEpoch>>

ReconcileFederatedEnd(d, state, stalled) ==
    /\ federated[d] /\ worker[d] \in {"starting", "start_unknown"}
    /\ SetWorker(d, state)
    /\ FailUncounted(d)
    /\ promptStalled' = [promptStalled EXCEPT ![d] = IF Active(d) THEN stalled ELSE @]
    /\ capability' = IF Active(d) THEN Revoked({d}) ELSE capability
    /\ taskStatus' = InterruptedThen(d, "failed")
    /\ CloseQuestions({d})
    /\ UNCHANGED <<taskDeps, rowVars, failureCount, assignee, workerEpoch, gateVars,
                   runtimeEpoch>>

\* reconcileFederatedWorkerStop
ReconcileFederatedWorkerStop(d) ==
    /\ federated[d] /\ worker[d] \in {"stopping", "stop_unknown"}
    /\ StopSettled(d)

\* resumeFederatedWorkerForTerminalRelay.  caller: the worker-stop request of this runtime,
\* told by the peer that the worker had already reported.
ResumeFederatedWorkerForTerminalRelay(d) ==
    /\ federated[d] /\ worker[d] = "stopping" /\ workerEpoch[d] = runtimeEpoch
    /\ SetWorker(d, "ready")
    /\ taskStatus' = Resumed(d)
    /\ UNCHANGED <<taskDeps, rowVars, dispatchVars, workerEpoch, gateVars, questionVars,
                   runtimeEpoch>>

-----------------------------------------------------------------------------
(* Question threads *)

OpenQuestion(q, d) ==
    /\ questionStatus[q] = "absent"
    /\ questionDispatch' = [questionDispatch EXCEPT ![q] = d]
    /\ questionStatus' = [questionStatus EXCEPT ![q] = "pending"]
    /\ UNCHANGED <<taskVars, rowVars, dispatchVars, workerVars, gateVars, runtimeEpoch>>

\* Mutant: asks with the terminal's identity alone, after the capability was revoked.
AskAnyway(q, d) ==
    /\ Active(d) /\ assignee[d] # NoTerminal
    /\ OpenQuestion(q, d)

\* createQuestion, from "ask" in the agent's own terminal.
CreateQuestion(q, d) ==
    /\ Active(d) /\ assignee[d] # NoTerminal
    /\ capability[d] # "revoked"
    /\ OpenQuestion(q, d)

\* registerFederatedQuestion, while a relay page of a federated dispatch is imported.
RegisterFederatedQuestion(q, d) == federated[d] /\ OpenQuestion(q, d)

\* answerQuestion
AnswerQuestion(q) ==
    /\ questionStatus[q] = "pending"
    /\ questionStatus' = [questionStatus EXCEPT ![q] = "answered"]
    /\ UNCHANGED <<taskVars, rowVars, dispatchVars, workerVars, gateVars, questionDispatch,
                   runtimeEpoch>>

-----------------------------------------------------------------------------

\* orcad is killed and started again on the same database.
Restart ==
    /\ runtimeEpoch < MaxEpoch
    /\ runtimeEpoch' = runtimeEpoch + 1
    /\ UNCHANGED <<taskVars, rowVars, dispatchVars, workerVars, gateVars, questionVars>>

TaskNext == \E t \in Tasks :
    \/ \E deps \in SUBSET (Tasks \ {t}) : CreateTask(t, deps)
    \/ \E status \in TaskStatuses : TaskUpdate(t, status)
    \/ \E g \in Gates : CreateGate(g, t)

ClaimNext == \E d \in DispatchIds, t \in Tasks :
    \/ \E x \in Terminals, inject \in BOOLEAN : CreateDispatchContext(d, t, x, inject)
    \/ \E remote \in BOOLEAN : CreateStartingWorkerDispatch(d, t, remote)

StartNext == \E d \in DispatchIds :
    \/ \E x \in Terminals : PrepareStartingWorkerAuthority(d, x)
    \/ MarkWorkerDispatchReady(d)
    \/ \E stalled \in BOOLEAN : FailWorkerStart(d, stalled)
    \/ MarkWorkerStartUnknown(d)

SettleNext == \E d \in DispatchIds :
    \/ \E stalled \in BOOLEAN : FailDispatch(d, FALSE, stalled)
    \/ \E outcome \in {"succeeded", "failed"} : SettleWorkerReport(d, outcome)
    \/ ProcessExit(d)
    \/ ReconcileMissingWorkerTerminal(d)

StopNext == \E d \in DispatchIds :
    \/ ReleaseContextOnlyDispatch(d)
    \/ BeginWorkerStop(d)
    \/ SettleWorkerStop(d)
    \/ MarkWorkerStopUnknown(d)
    \/ AbandonWorkerDispatch(d)

FederatedNext == \E d \in DispatchIds :
    \/ ReconcileFederatedReady(d)
    \/ ReconcileFederatedStartUnknown(d)
    \/ \E state \in {"failed", "stopped"}, stalled \in BOOLEAN :
          ReconcileFederatedEnd(d, state, stalled)
    \/ ReconcileFederatedWorkerStop(d)
    \/ ResumeFederatedWorkerForTerminalRelay(d)

QuestionNext == \E q \in Questions :
    \/ \E d \in DispatchIds : CreateQuestion(q, d)
    \/ \E d \in DispatchIds : RegisterFederatedQuestion(q, d)
    \/ AnswerQuestion(q)

Next ==
    \/ TaskNext \/ ClaimNext \/ StartNext \/ SettleNext \/ StopNext
    \/ FederatedNext \/ QuestionNext
    \/ \E g \in Gates : ResolveGate(g)
    \/ Restart

Spec == Init /\ [][Next]_vars

-----------------------------------------------------------------------------
(* Properties *)

\* Every column holds a value its SQL CHECK constraint or its writers allow.
TypeOK ==
    /\ taskStatus \in [Tasks -> TaskStatuses \cup {"absent"}]
    /\ taskDeps \in [Tasks -> SUBSET Tasks]
    /\ dispatchTask \in [DispatchIds -> Tasks \cup {NoTask}]
    /\ dispatchStatus \in [DispatchIds -> DispatchStatuses \cup {"absent"}]
    /\ failureCount \in [DispatchIds -> Nat]
    /\ promptStalled \in [DispatchIds -> BOOLEAN]
    /\ assignee \in [DispatchIds -> Terminals \cup {NoTerminal}]
    /\ capability \in [DispatchIds -> {"none", "live", "revoked"}]
    /\ worker \in [DispatchIds -> WorkerStates \cup {"none"}]
    /\ workerEpoch \in [DispatchIds -> Nat]
    /\ federated \in [DispatchIds -> BOOLEAN]
    /\ gateTask \in [Gates -> Tasks \cup {NoTask}]
    /\ gateStatus \in [Gates -> {"absent", "pending", "resolved"}]
    /\ \A g \in Gates : gateStatus[g] # "absent" => gateTask[g] \in Tasks
    /\ questionDispatch \in [Questions -> DispatchIds \cup {0}]
    /\ questionStatus \in [Questions -> {"absent", "pending", "answered", "closed"}]
    /\ runtimeEpoch \in Nat

\* No task is ever worked on twice at once: whatever the order of claims, retries, late
\* reports and recoveries, a task has at most one active dispatch.
OneActiveDispatchPerTask ==
    \A d, e \in DispatchIds :
        Active(d) /\ Active(e) /\ dispatchTask[d] = dispatchTask[e] => d = e

\* No agent terminal is handed two dispatches at once, whether adopted by a claim or
\* attached by a worker start.
OneActiveDispatchPerTerminal ==
    \A d, e \in DispatchIds :
        Active(d) /\ Active(e) /\ assignee[d] = assignee[e] /\ assignee[d] # NoTerminal
            => d = e

\* A supervised worker and its dispatch row end in the same transaction: neither outlives
\* the other, whichever of report, stop, exit, abandon or recovery ends them.
WorkerAndDispatchEndTogether ==
    \A d \in DispatchIds : worker[d] # "none" => (Supervised(d) <=> Active(d))

\* The task row always tells where its dispatch is: dispatched while an agent may work,
\* blocked while the worker's start or stop is uncertain, and never dispatched alone.
TaskTracksItsDispatch ==
    /\ \A d \in DispatchIds : Active(d) =>
         taskStatus[dispatchTask[d]] =
           IF worker[d] \in {"start_unknown", "stopping", "stop_unknown"}
           THEN "blocked" ELSE "dispatched"
    /\ \A t \in Tasks : taskStatus[t] = "dispatched" => ActiveOf(t) # {}

\* Rows are created whole, a pending dispatch has a worker row, and a start that has not
\* ended has a pending dispatch.
StartsArePending ==
    \A d \in DispatchIds :
        /\ dispatchStatus[d] = "absent" => worker[d] = "none" /\ dispatchTask[d] = NoTask
        /\ dispatchStatus[d] # "absent" => dispatchTask[d] \in Tasks
        /\ dispatchStatus[d] = "pending" => worker[d] # "none"
        /\ worker[d] \in {"starting", "start_unknown"} => dispatchStatus[d] = "pending"

\* Rows are appended, and no dispatch is claimed behind an active one: the latest row of a
\* task, which a retry must name, is the active one as long as there is one.
ActiveIsLatest ==
    /\ \A d, e \in DispatchIds :
         dispatchStatus[d] = "absent" /\ d < e => dispatchStatus[e] = "absent"
    /\ \A d \in DispatchIds : Active(d) => IsLatest(d)

\* The inductive invariant: what a transaction needs to know of the rows it does not read.
LifecycleInvariant ==
    /\ TypeOK
    /\ StartsArePending
    /\ WorkerAndDispatchEndTogether
    /\ ActiveIsLatest
    /\ OneActiveDispatchPerTask
    /\ TaskTracksItsDispatch

\* A worker can act under a capability only while its dispatch is active and nobody stops
\* it; afterwards only the worker of a start recorded as a stalled prompt keeps it.
AuthorityEndsWithTheDispatch ==
    \A d \in DispatchIds : capability[d] = "live" =>
        \/ Active(d) /\ worker[d] \notin {"stopping", "stop_unknown"}
        \/ dispatchStatus[d] = "failed" /\ worker[d] = "failed" /\ promptStalled[d]

\* A question asked from a local terminal is pending only while its dispatch is active and
\* not being stopped, so nobody is asked to answer a worker that is gone.
LocalQuestionsAreAnswerable ==
    \A q \in Questions :
        questionStatus[q] = "pending" /\ ~federated[questionDispatch[q]] =>
            /\ Active(questionDispatch[q])
            /\ worker[questionDispatch[q]] \notin {"stopping", "stop_unknown"}

\* A step that completes a dependency also promotes every pending task it was the last
\* open dependency of, on every path that can complete a task.
PromotionIsNeverLost ==
    [][\A t \in Tasks :
          /\ taskStatus[t] = "pending" /\ taskStatus'[t] = "pending"
          /\ \E dep \in taskDeps[t] : taskStatus[dep] # "completed" /\ taskStatus'[dep] = "completed"
          => \E dep \in taskDeps[t] : taskStatus'[dep] # "completed"]_vars

\* A settled dispatch and a settled worker keep their verdict for ever, through duplicate
\* and late reports, stops and recoveries; only a stalled start is corrected, to success.
VerdictsAreFinal ==
    [][\A d \in DispatchIds :
          /\ dispatchStatus[d] \in DispatchStatuses \ ActiveStatuses
               => \/ dispatchStatus'[d] = dispatchStatus[d]
                  \/ promptStalled[d] /\ dispatchStatus[d] = "failed"
                       /\ dispatchStatus'[d] = "completed" /\ worker'[d] = "succeeded"
          /\ worker[d] \in SettledStates
               => \/ worker'[d] = worker[d]
                  \/ promptStalled[d] /\ worker[d] = "failed" /\ worker'[d] = "succeeded"
                       /\ taskStatus'[dispatchTask[d]] = "completed"]_vars

\* No transaction asks transitionLifecycleWithDb for an edge it refuses, which would roll a
\* report, a stop or a recovery back each time it is tried: every change of a dispatch or of
\* a worker is an edge of its graph, two of them through "ready" for the report of a start,
\* or the one correction from "failed" to success.
TransitionsAreLegal ==
    [][\A d \in DispatchIds :
          /\ dispatchStatus[d] # "absent"
               => \/ dispatchStatus'[d] \in DispatchEdges[dispatchStatus[d]]
                  \/ dispatchStatus[d] = "failed" /\ dispatchStatus'[d] = "completed"
          /\ worker[d] # "none"
               => \/ worker'[d] \in WorkerEdges[worker[d]]
                  \/ worker[d] \in {"starting", "start_unknown"} /\ worker'[d] = "succeeded"
                  \/ worker[d] = "failed" /\ worker'[d] = "succeeded"]_vars

\* What ends or starts a dispatch never takes a completed task back: a late failure, exit,
\* stop or recovery leaves it completed; only a task update or a gate reopens it.
CompletedIsReopenedOnlyByHand ==
    [][\A t \in Tasks : taskStatus[t] = "completed" /\ taskStatus'[t] # "completed"
          => UNCHANGED <<dispatchVars, workerVars>>]_vars

\* Counting a failure trips the circuit breaker exactly at the limit, and a tripped breaker
\* never puts the task back on the ready list.
BreakerStopsAutomaticRetry ==
    [][\A d \in DispatchIds : Active(d) =>
          /\ failureCount'[d] # failureCount[d] =>
               (failureCount'[d] >= BreakFailures <=> dispatchStatus'[d] = "circuit_broken")
          /\ dispatchStatus'[d] = "circuit_broken" => taskStatus'[dispatchTask[d]] # "ready"]_vars

=============================================================================
