---------------------------- MODULE VerdictProofs ----------------------------
(* What a transaction may do to the past: a verdict once given stays, every   *)
(* change of a dispatch or of a worker is one transitionLifecycleWithDb       *)
(* accepts, and the circuit breaker trips at its limit and not after.         *)
EXTENDS LifecycleInvariantProofs

\* What VerdictsAreFinal asks of a step, for one dispatch.
VerdictKept(d) ==
    /\ dispatchStatus[d] \in DispatchStatuses \ ActiveStatuses
         => \/ dispatchStatus'[d] = dispatchStatus[d]
            \/ promptStalled[d] /\ dispatchStatus[d] = "failed"
                 /\ dispatchStatus'[d] = "completed" /\ worker'[d] = "succeeded"
    /\ worker[d] \in SettledStates
         => \/ worker'[d] = worker[d]
            \/ promptStalled[d] /\ worker[d] = "failed" /\ worker'[d] = "succeeded"
                 /\ taskStatus'[dispatchTask[d]] = "completed"

\* What TransitionsAreLegal asks of a step, for one dispatch.
EdgeTaken(d) ==
    /\ dispatchStatus[d] # "absent"
         => \/ dispatchStatus'[d] \in DispatchEdges[dispatchStatus[d]]
            \/ dispatchStatus[d] = "failed" /\ dispatchStatus'[d] = "completed"
    /\ worker[d] # "none"
         => \/ worker'[d] \in WorkerEdges[worker[d]]
            \/ worker[d] \in {"starting", "start_unknown"} /\ worker'[d] = "succeeded"
            \/ worker[d] = "failed" /\ worker'[d] = "succeeded"

\* What BreakerStopsAutomaticRetry asks of a step, for one dispatch.
BreakerObeyed(d) ==
    Active(d) =>
      /\ failureCount'[d] # failureCount[d] =>
           (failureCount'[d] >= BreakFailures <=> dispatchStatus'[d] = "circuit_broken")
      /\ dispatchStatus'[d] = "circuit_broken" => taskStatus'[dispatchTask[d]] # "ready"

\* The step gives no verdict back, takes no edge that is refused, and obeys the breaker.
LawfulFor(d) == VerdictKept(d) /\ EdgeTaken(d) /\ BreakerObeyed(d)

\* The rows of d do not change.
RowKept(d) ==
    /\ dispatchStatus'[d] = dispatchStatus[d]
    /\ failureCount'[d] = failureCount[d]
    /\ worker'[d] = worker[d]

\* A status and a worker state may always stay as they are.
LEMMA SelfEdges ==
    /\ \A s \in DispatchStatuses : s \in DispatchEdges[s]
    /\ \A s \in WorkerStates : s \in WorkerEdges[s]
BY DEF DispatchStatuses, WorkerStates, DispatchEdges, WorkerEdges

\* A dispatch whose rows a step leaves alone has nothing to fear from it.
LEMMA KeptIsLawful ==
    ASSUME TypeOK, NEW d \in DispatchIds, RowKept(d)
    PROVE  LawfulFor(d)
BY SelfEdges DEF TypeOK, RowKept, LawfulFor, VerdictKept, EdgeTaken, BreakerObeyed, Active,
   ActiveStatuses

\* A claim or a start appends a row and leaves the others alone.
LEMMA ClaimIsLawful ==
    ASSUME LifecycleInvariant, TypeOK', ClaimNext
    PROVE  \A e \in DispatchIds : LawfulFor(e)
<1>1. ASSUME NEW d \in DispatchIds, NEW t \in Tasks, NEW x \in Terminals, NEW inject \in BOOLEAN,
             CreateDispatchContext(d, t, x, inject)
      PROVE  \A e \in DispatchIds : LawfulFor(e)
  <2>1. \A e \in DispatchIds \ {d} : RowKept(e)
    BY <1>1 DEF LifecycleInvariant, TypeOK, RowKept, CreateDispatchContext, IsNextRow, workerVars
  <2>2. RowConsistent(d) BY RowsConsistent
  <2>3. VerdictKept(d)
    BY <1>1, <2>2, CountAssumption DEF LifecycleInvariant, TypeOK, RowConsistent, Active,
       Supervised, ActiveStatuses, SettledStates, DispatchStatuses, WorkerStates, TaskStatuses,
       VerdictKept,
       CreateDispatchContext, IsNextRow, workerVars
  <2>4. EdgeTaken(d)
    BY <1>1, <2>2, CountAssumption DEF LifecycleInvariant, TypeOK, RowConsistent, Active,
       Supervised, ActiveStatuses, SettledStates, DispatchStatuses, WorkerStates, TaskStatuses,
       EdgeTaken, DispatchEdges, WorkerEdges,
       CreateDispatchContext, IsNextRow, workerVars
  <2>5. BreakerObeyed(d)
    BY <1>1, <2>2, CountAssumption DEF LifecycleInvariant, TypeOK, RowConsistent, Active,
       Supervised, ActiveStatuses, SettledStates, DispatchStatuses, WorkerStates, TaskStatuses,
       BreakerObeyed,
       CreateDispatchContext, IsNextRow, workerVars
  <2> QED BY <2>1, <2>3, <2>4, <2>5, KeptIsLawful DEF LawfulFor, LifecycleInvariant
<1>2. ASSUME NEW d \in DispatchIds, NEW t \in Tasks, NEW remote \in BOOLEAN,
             CreateStartingWorkerDispatch(d, t, remote)
      PROVE  \A e \in DispatchIds : LawfulFor(e)
  <2>1. \A e \in DispatchIds \ {d} : RowKept(e)
    BY <1>2 DEF LifecycleInvariant, TypeOK, RowKept, CreateStartingWorkerDispatch, IsNextRow, SetWorker
  <2>2. RowConsistent(d) BY RowsConsistent
  <2>3. VerdictKept(d)
    BY <1>2, <2>2, CountAssumption DEF LifecycleInvariant, TypeOK, RowConsistent, Active,
       Supervised, ActiveStatuses, SettledStates, DispatchStatuses, WorkerStates, TaskStatuses,
       VerdictKept,
       CreateStartingWorkerDispatch, IsNextRow, SetWorker
  <2>4. EdgeTaken(d)
    BY <1>2, <2>2, CountAssumption DEF LifecycleInvariant, TypeOK, RowConsistent, Active,
       Supervised, ActiveStatuses, SettledStates, DispatchStatuses, WorkerStates, TaskStatuses,
       EdgeTaken, DispatchEdges, WorkerEdges,
       CreateStartingWorkerDispatch, IsNextRow, SetWorker
  <2>5. BreakerObeyed(d)
    BY <1>2, <2>2, CountAssumption DEF LifecycleInvariant, TypeOK, RowConsistent, Active,
       Supervised, ActiveStatuses, SettledStates, DispatchStatuses, WorkerStates, TaskStatuses,
       BreakerObeyed,
       CreateStartingWorkerDispatch, IsNextRow, SetWorker
  <2> QED BY <2>1, <2>3, <2>4, <2>5, KeptIsLawful DEF LawfulFor, LifecycleInvariant
<1> QED BY <1>1, <1>2 DEF ClaimNext

\* A start moves a pending dispatch on, never one that has ended.
LEMMA StartIsLawful ==
    ASSUME LifecycleInvariant, TypeOK', StartNext
    PROVE  \A e \in DispatchIds : LawfulFor(e)
<1>1. ASSUME NEW d \in DispatchIds, NEW x \in Terminals, PrepareStartingWorkerAuthority(d, x)
      PROVE  \A e \in DispatchIds : LawfulFor(e)
  <2>1. \A e \in DispatchIds \ {d} : RowKept(e)
    BY <1>1 DEF LifecycleInvariant, TypeOK, RowKept, PrepareStartingWorkerAuthority, workerVars
  <2>2. RowConsistent(d) BY RowsConsistent
  <2>3. VerdictKept(d)
    BY <1>1, <2>2, CountAssumption DEF LifecycleInvariant, TypeOK, RowConsistent, Active,
       Supervised, ActiveStatuses, SettledStates, DispatchStatuses, WorkerStates, TaskStatuses,
       VerdictKept,
       PrepareStartingWorkerAuthority, workerVars
  <2>4. EdgeTaken(d)
    BY <1>1, <2>2, CountAssumption DEF LifecycleInvariant, TypeOK, RowConsistent, Active,
       Supervised, ActiveStatuses, SettledStates, DispatchStatuses, WorkerStates, TaskStatuses,
       EdgeTaken, DispatchEdges, WorkerEdges,
       PrepareStartingWorkerAuthority, workerVars
  <2>5. BreakerObeyed(d)
    BY <1>1, <2>2, CountAssumption DEF LifecycleInvariant, TypeOK, RowConsistent, Active,
       Supervised, ActiveStatuses, SettledStates, DispatchStatuses, WorkerStates, TaskStatuses,
       BreakerObeyed,
       PrepareStartingWorkerAuthority, workerVars
  <2> QED BY <2>1, <2>3, <2>4, <2>5, KeptIsLawful DEF LawfulFor, LifecycleInvariant
<1>2. ASSUME NEW d \in DispatchIds, MarkWorkerDispatchReady(d)
      PROVE  \A e \in DispatchIds : LawfulFor(e)
  <2>1. \A e \in DispatchIds \ {d} : RowKept(e)
    BY <1>2 DEF LifecycleInvariant, TypeOK, RowKept, MarkWorkerDispatchReady, SetWorker
  <2>2. RowConsistent(d) BY RowsConsistent
  <2>3. VerdictKept(d)
    BY <1>2, <2>2, CountAssumption DEF LifecycleInvariant, TypeOK, RowConsistent, Active,
       Supervised, ActiveStatuses, SettledStates, DispatchStatuses, WorkerStates, TaskStatuses,
       VerdictKept,
       MarkWorkerDispatchReady, SetWorker
  <2>4. EdgeTaken(d)
    BY <1>2, <2>2, CountAssumption DEF LifecycleInvariant, TypeOK, RowConsistent, Active,
       Supervised, ActiveStatuses, SettledStates, DispatchStatuses, WorkerStates, TaskStatuses,
       EdgeTaken, DispatchEdges, WorkerEdges,
       MarkWorkerDispatchReady, SetWorker
  <2>5. BreakerObeyed(d)
    BY <1>2, <2>2, CountAssumption DEF LifecycleInvariant, TypeOK, RowConsistent, Active,
       Supervised, ActiveStatuses, SettledStates, DispatchStatuses, WorkerStates, TaskStatuses,
       BreakerObeyed,
       MarkWorkerDispatchReady, SetWorker
  <2> QED BY <2>1, <2>3, <2>4, <2>5, KeptIsLawful DEF LawfulFor, LifecycleInvariant
<1>3. ASSUME NEW d \in DispatchIds, NEW stalled \in BOOLEAN, FailWorkerStart(d, stalled)
      PROVE  \A e \in DispatchIds : LawfulFor(e)
  <2>1. \A e \in DispatchIds \ {d} : RowKept(e)
    BY <1>3 DEF LifecycleInvariant, TypeOK, RowKept, FailWorkerStart, FailUncounted, SetWorker
  <2>2. RowConsistent(d) BY RowsConsistent
  <2>3. VerdictKept(d)
    BY <1>3, <2>2, CountAssumption DEF LifecycleInvariant, TypeOK, RowConsistent, Active,
       Supervised, ActiveStatuses, SettledStates, DispatchStatuses, WorkerStates, TaskStatuses,
       VerdictKept,
       FailWorkerStart, FailUncounted, SetWorker
  <2>4. EdgeTaken(d)
    BY <1>3, <2>2, CountAssumption DEF LifecycleInvariant, TypeOK, RowConsistent, Active,
       Supervised, ActiveStatuses, SettledStates, DispatchStatuses, WorkerStates, TaskStatuses,
       EdgeTaken, DispatchEdges, WorkerEdges,
       FailWorkerStart, FailUncounted, SetWorker
  <2>5. BreakerObeyed(d)
    BY <1>3, <2>2, CountAssumption DEF LifecycleInvariant, TypeOK, RowConsistent, Active,
       Supervised, ActiveStatuses, SettledStates, DispatchStatuses, WorkerStates, TaskStatuses,
       BreakerObeyed,
       FailWorkerStart, FailUncounted, SetWorker
  <2> QED BY <2>1, <2>3, <2>4, <2>5, KeptIsLawful DEF LawfulFor, LifecycleInvariant
<1>4. ASSUME NEW d \in DispatchIds, MarkWorkerStartUnknown(d)
      PROVE  \A e \in DispatchIds : LawfulFor(e)
  <2>1. \A e \in DispatchIds \ {d} : RowKept(e)
    BY <1>4 DEF LifecycleInvariant, TypeOK, RowKept, MarkWorkerStartUnknown, SetWorker, dispatchVars
  <2>2. RowConsistent(d) BY RowsConsistent
  <2>3. VerdictKept(d)
    BY <1>4, <2>2, CountAssumption DEF LifecycleInvariant, TypeOK, RowConsistent, Active,
       Supervised, ActiveStatuses, SettledStates, DispatchStatuses, WorkerStates, TaskStatuses,
       VerdictKept,
       MarkWorkerStartUnknown, SetWorker, dispatchVars
  <2>4. EdgeTaken(d)
    BY <1>4, <2>2, CountAssumption DEF LifecycleInvariant, TypeOK, RowConsistent, Active,
       Supervised, ActiveStatuses, SettledStates, DispatchStatuses, WorkerStates, TaskStatuses,
       EdgeTaken, DispatchEdges, WorkerEdges,
       MarkWorkerStartUnknown, SetWorker, dispatchVars
  <2>5. BreakerObeyed(d)
    BY <1>4, <2>2, CountAssumption DEF LifecycleInvariant, TypeOK, RowConsistent, Active,
       Supervised, ActiveStatuses, SettledStates, DispatchStatuses, WorkerStates, TaskStatuses,
       BreakerObeyed,
       MarkWorkerStartUnknown, SetWorker, dispatchVars
  <2> QED BY <2>1, <2>3, <2>4, <2>5, KeptIsLawful DEF LawfulFor, LifecycleInvariant
<1> QED BY <1>1, <1>2, <1>3, <1>4 DEF StartNext

\* A report, a failure or an exit ends an active dispatch, or corrects a stalled start.
LEMMA SettleIsLawful ==
    ASSUME LifecycleInvariant, TypeOK', SettleNext
    PROVE  \A e \in DispatchIds : LawfulFor(e)
<1>1. ASSUME NEW d \in DispatchIds, NEW stalled \in BOOLEAN, FailDispatch(d, FALSE, stalled)
      PROVE  \A e \in DispatchIds : LawfulFor(e)
  <2>1. \A e \in DispatchIds \ {d} : RowKept(e)
    BY <1>1 DEF LifecycleInvariant, TypeOK, RowKept, FailDispatch, MayFail, CountFailure, FailedStatus
  <2>2. RowConsistent(d) BY RowsConsistent
  <2>3. VerdictKept(d)
    BY <1>1, <2>2, CountAssumption DEF LifecycleInvariant, TypeOK, RowConsistent, Active,
       Supervised, ActiveStatuses, SettledStates, DispatchStatuses, WorkerStates, TaskStatuses,
       VerdictKept,
       FailDispatch, MayFail, CountFailure, FailedStatus
  <2>4. EdgeTaken(d)
    BY <1>1, <2>2, CountAssumption DEF LifecycleInvariant, TypeOK, RowConsistent, Active,
       Supervised, ActiveStatuses, SettledStates, DispatchStatuses, WorkerStates, TaskStatuses,
       EdgeTaken, DispatchEdges, WorkerEdges,
       FailDispatch, MayFail, CountFailure, FailedStatus
  <2>5. BreakerObeyed(d)
    BY <1>1, <2>2, CountAssumption, AloneWhenActive DEF LifecycleInvariant, TypeOK, RowConsistent, Active,
       Supervised, ActiveStatuses, SettledStates, DispatchStatuses, WorkerStates, TaskStatuses,
       BreakerObeyed, StatusAfterFailure, InterruptedThen, StatusUnder,
       FailDispatch, MayFail, CountFailure, FailedStatus
  <2> QED BY <2>1, <2>3, <2>4, <2>5, KeptIsLawful DEF LawfulFor, LifecycleInvariant
<1>2. ASSUME NEW d \in DispatchIds, NEW outcome \in {"succeeded", "failed"},
              SettleWorkerReport(d, outcome)
      PROVE  \A e \in DispatchIds : LawfulFor(e)
  <2>1. RowConsistent(d) /\ dispatchTask[d] \in Tasks /\ OtherActive(d) = {}
    BY <1>2, ReportedAlone
  <2>2. \A e \in DispatchIds \ {d} : RowKept(e)
    BY <1>2, <2>1 DEF LifecycleInvariant, TypeOK, RowKept, SettleWorkerReport, SettleDispatches
  <2>3. VerdictKept(d)
    <3>1. CASE Active(d)
      <4>1. worker[d] \notin SettledStates
        BY <2>1, <3>1 DEF RowConsistent, Supervised, SettledStates
      <4> QED BY <3>1, <4>1 DEF Active, VerdictKept
    <3>2. CASE ~Active(d)
      <4>1. /\ SettledByUnobservedPrompt(d)
            /\ worker[d] = "failed"
        <5>1. SettledByUnobservedPrompt(d)
          BY <1>2, <3>2 DEF Active, ActiveStatuses, SettleWorkerReport, ReconnectingStart,
             ReportingStart, ReportingRun
        <5>2. ReportableWorker(d, outcome) /\ worker[d] # "none"
          BY <1>2, <3>2 DEF SettleWorkerReport
        <5>3. ~Supervised(d)
          BY <2>1, <3>2, <5>2 DEF RowConsistent
        <5> QED BY <3>2, <5>1, <5>2, <5>3 DEF ReportableWorker, ReconnectingStart,
                   ReportingStart, Active, ActiveStatuses, Supervised, SettledStates
      <4>2. /\ dispatchStatus'[d] = IF outcome = "succeeded" THEN "completed" ELSE "failed"
            /\ worker'[d] = outcome
        BY <1>2, <4>1 DEF LifecycleInvariant, TypeOK, SettleWorkerReport, SettleDispatches
      <4>3. outcome = "succeeded" => taskStatus'[dispatchTask[d]] = "completed"
        BY <1>2, <2>1 DEF LifecycleInvariant, TypeOK, SettleWorkerReport, Concluded, Promoted
      <4> QED BY <1>2, <4>1, <4>2, <4>3 DEF SettledByUnobservedPrompt, VerdictKept
    <3> QED BY <3>1, <3>2
  <2>4. EdgeTaken(d)
    BY <1>2, <2>1, CountAssumption DEF LifecycleInvariant, TypeOK, RowConsistent, Active,
       Supervised, ActiveStatuses, SettledStates, DispatchStatuses, WorkerStates, TaskStatuses,
       EdgeTaken, DispatchEdges, WorkerEdges, ReportableWorker,
       SettledByUnobservedPrompt, ReconnectingStart, ReportingStart, ReportingRun,
       SettleWorkerReport, SettleDispatches
  <2>5. BreakerObeyed(d)
    BY <1>2, <2>1, CountAssumption DEF LifecycleInvariant, TypeOK, RowConsistent, Active,
       Supervised, ActiveStatuses, SettledStates, DispatchStatuses, WorkerStates, TaskStatuses,
       BreakerObeyed,
       SettleWorkerReport, SettleDispatches
  <2> QED BY <2>2, <2>3, <2>4, <2>5, KeptIsLawful DEF LawfulFor, LifecycleInvariant
<1>3. ASSUME NEW d \in DispatchIds, ProcessExit(d)
      PROVE  \A e \in DispatchIds : LawfulFor(e)
  <2>1. \A e \in DispatchIds \ {d} : RowKept(e)
    BY <1>3 DEF LifecycleInvariant, TypeOK, RowKept, ProcessExit, StopSettled, FailUncounted, SetWorker, FailDispatch, MayFail,
        CountFailure, FailedStatus
  <2>2. RowConsistent(d) BY RowsConsistent
  <2>3. VerdictKept(d)
    BY <1>3, <2>2, CountAssumption DEF LifecycleInvariant, TypeOK, RowConsistent, Active,
       Supervised, ActiveStatuses, SettledStates, DispatchStatuses, WorkerStates, TaskStatuses,
       VerdictKept,
       ProcessExit, StopSettled, FailUncounted, SetWorker, FailDispatch, MayFail,
        CountFailure, FailedStatus
  <2>4. EdgeTaken(d)
    BY <1>3, <2>2, CountAssumption DEF LifecycleInvariant, TypeOK, RowConsistent, Active,
       Supervised, ActiveStatuses, SettledStates, DispatchStatuses, WorkerStates, TaskStatuses,
       EdgeTaken, DispatchEdges, WorkerEdges,
       ProcessExit, StopSettled, FailUncounted, SetWorker, FailDispatch, MayFail,
        CountFailure, FailedStatus
  <2>5. BreakerObeyed(d)
    BY <1>3, <2>2, CountAssumption, AloneWhenActive DEF LifecycleInvariant, TypeOK, RowConsistent, Active,
       Supervised, ActiveStatuses, SettledStates, DispatchStatuses, WorkerStates, TaskStatuses,
       BreakerObeyed, StatusAfterFailure, InterruptedThen, StatusUnder,
       ProcessExit, StopSettled, FailUncounted, SetWorker, FailDispatch, MayFail,
        CountFailure, FailedStatus
  <2> QED BY <2>1, <2>3, <2>4, <2>5, KeptIsLawful DEF LawfulFor, LifecycleInvariant
<1>4. ASSUME NEW d \in DispatchIds, ReconcileMissingWorkerTerminal(d)
      PROVE  \A e \in DispatchIds : LawfulFor(e)
  <2>1. \A e \in DispatchIds \ {d} : RowKept(e)
    BY <1>4 DEF LifecycleInvariant, TypeOK, RowKept, ReconcileMissingWorkerTerminal, CountFailure, FailedStatus, SetWorker
  <2>2. RowConsistent(d) BY RowsConsistent
  <2>3. VerdictKept(d)
    BY <1>4, <2>2, CountAssumption DEF LifecycleInvariant, TypeOK, RowConsistent, Active,
       Supervised, ActiveStatuses, SettledStates, DispatchStatuses, WorkerStates, TaskStatuses,
       VerdictKept,
       ReconcileMissingWorkerTerminal, CountFailure, FailedStatus, SetWorker
  <2>4. EdgeTaken(d)
    BY <1>4, <2>2, CountAssumption DEF LifecycleInvariant, TypeOK, RowConsistent, Active,
       Supervised, ActiveStatuses, SettledStates, DispatchStatuses, WorkerStates, TaskStatuses,
       EdgeTaken, DispatchEdges, WorkerEdges,
       ReconcileMissingWorkerTerminal, CountFailure, FailedStatus, SetWorker
  <2>5. BreakerObeyed(d)
    BY <1>4, <2>2, CountAssumption, AloneWhenActive DEF LifecycleInvariant, TypeOK, RowConsistent, Active,
       Supervised, ActiveStatuses, SettledStates, DispatchStatuses, WorkerStates, TaskStatuses,
       BreakerObeyed, StatusAfterFailure, InterruptedThen, StatusUnder,
       ReconcileMissingWorkerTerminal, CountFailure, FailedStatus, SetWorker
  <2> QED BY <2>1, <2>3, <2>4, <2>5, KeptIsLawful DEF LawfulFor, LifecycleInvariant
<1> QED BY <1>1, <1>2, <1>3, <1>4 DEF SettleNext

\* A stop or an abandon ends only what has not ended yet.
LEMMA StopIsLawful ==
    ASSUME LifecycleInvariant, TypeOK', StopNext
    PROVE  \A e \in DispatchIds : LawfulFor(e)
<1>1. ASSUME NEW d \in DispatchIds, ReleaseContextOnlyDispatch(d)
      PROVE  \A e \in DispatchIds : LawfulFor(e)
  <2>1. \A e \in DispatchIds \ {d} : RowKept(e)
    BY <1>1 DEF LifecycleInvariant, TypeOK, RowKept, ReleaseContextOnlyDispatch, FailUncounted, workerVars
  <2>2. RowConsistent(d) BY RowsConsistent
  <2>3. VerdictKept(d)
    BY <1>1, <2>2, CountAssumption DEF LifecycleInvariant, TypeOK, RowConsistent, Active,
       Supervised, ActiveStatuses, SettledStates, DispatchStatuses, WorkerStates, TaskStatuses,
       VerdictKept,
       ReleaseContextOnlyDispatch, FailUncounted, workerVars
  <2>4. EdgeTaken(d)
    BY <1>1, <2>2, CountAssumption DEF LifecycleInvariant, TypeOK, RowConsistent, Active,
       Supervised, ActiveStatuses, SettledStates, DispatchStatuses, WorkerStates, TaskStatuses,
       EdgeTaken, DispatchEdges, WorkerEdges,
       ReleaseContextOnlyDispatch, FailUncounted, workerVars
  <2>5. BreakerObeyed(d)
    BY <1>1, <2>2, CountAssumption DEF LifecycleInvariant, TypeOK, RowConsistent, Active,
       Supervised, ActiveStatuses, SettledStates, DispatchStatuses, WorkerStates, TaskStatuses,
       BreakerObeyed,
       ReleaseContextOnlyDispatch, FailUncounted, workerVars
  <2> QED BY <2>1, <2>3, <2>4, <2>5, KeptIsLawful DEF LawfulFor, LifecycleInvariant
<1>2. ASSUME NEW d \in DispatchIds, BeginWorkerStop(d)
      PROVE  \A e \in DispatchIds : LawfulFor(e)
  <2>1. \A e \in DispatchIds \ {d} : RowKept(e)
    BY <1>2 DEF LifecycleInvariant, TypeOK, RowKept, BeginWorkerStop, MayStop, SetWorker
  <2>2. RowConsistent(d) BY RowsConsistent
  <2>3. VerdictKept(d)
    BY <1>2, <2>2, CountAssumption DEF LifecycleInvariant, TypeOK, RowConsistent, Active,
       Supervised, ActiveStatuses, SettledStates, DispatchStatuses, WorkerStates, TaskStatuses,
       VerdictKept,
       BeginWorkerStop, MayStop, SetWorker
  <2>4. EdgeTaken(d)
    BY <1>2, <2>2, CountAssumption DEF LifecycleInvariant, TypeOK, RowConsistent, Active,
       Supervised, ActiveStatuses, SettledStates, DispatchStatuses, WorkerStates, TaskStatuses,
       EdgeTaken, DispatchEdges, WorkerEdges,
       BeginWorkerStop, MayStop, SetWorker
  <2>5. BreakerObeyed(d)
    BY <1>2, <2>2, CountAssumption DEF LifecycleInvariant, TypeOK, RowConsistent, Active,
       Supervised, ActiveStatuses, SettledStates, DispatchStatuses, WorkerStates, TaskStatuses,
       BreakerObeyed,
       BeginWorkerStop, MayStop, SetWorker
  <2> QED BY <2>1, <2>3, <2>4, <2>5, KeptIsLawful DEF LawfulFor, LifecycleInvariant
<1>3. ASSUME NEW d \in DispatchIds, SettleWorkerStop(d)
      PROVE  \A e \in DispatchIds : LawfulFor(e)
  <2>1. \A e \in DispatchIds \ {d} : RowKept(e)
    BY <1>3 DEF LifecycleInvariant, TypeOK, RowKept, SettleWorkerStop, StopSettled, FailUncounted, SetWorker
  <2>2. RowConsistent(d) BY RowsConsistent
  <2>3. VerdictKept(d)
    BY <1>3, <2>2, CountAssumption DEF LifecycleInvariant, TypeOK, RowConsistent, Active,
       Supervised, ActiveStatuses, SettledStates, DispatchStatuses, WorkerStates, TaskStatuses,
       VerdictKept,
       SettleWorkerStop, StopSettled, FailUncounted, SetWorker
  <2>4. EdgeTaken(d)
    BY <1>3, <2>2, CountAssumption DEF LifecycleInvariant, TypeOK, RowConsistent, Active,
       Supervised, ActiveStatuses, SettledStates, DispatchStatuses, WorkerStates, TaskStatuses,
       EdgeTaken, DispatchEdges, WorkerEdges,
       SettleWorkerStop, StopSettled, FailUncounted, SetWorker
  <2>5. BreakerObeyed(d)
    BY <1>3, <2>2, CountAssumption DEF LifecycleInvariant, TypeOK, RowConsistent, Active,
       Supervised, ActiveStatuses, SettledStates, DispatchStatuses, WorkerStates, TaskStatuses,
       BreakerObeyed,
       SettleWorkerStop, StopSettled, FailUncounted, SetWorker
  <2> QED BY <2>1, <2>3, <2>4, <2>5, KeptIsLawful DEF LawfulFor, LifecycleInvariant
<1>4. ASSUME NEW d \in DispatchIds, MarkWorkerStopUnknown(d)
      PROVE  \A e \in DispatchIds : LawfulFor(e)
  <2>1. \A e \in DispatchIds \ {d} : RowKept(e)
    BY <1>4 DEF LifecycleInvariant, TypeOK, RowKept, MarkWorkerStopUnknown, SetWorker, dispatchVars
  <2>2. RowConsistent(d) BY RowsConsistent
  <2>3. VerdictKept(d)
    BY <1>4, <2>2, CountAssumption DEF LifecycleInvariant, TypeOK, RowConsistent, Active,
       Supervised, ActiveStatuses, SettledStates, DispatchStatuses, WorkerStates, TaskStatuses,
       VerdictKept,
       MarkWorkerStopUnknown, SetWorker, dispatchVars
  <2>4. EdgeTaken(d)
    BY <1>4, <2>2, CountAssumption DEF LifecycleInvariant, TypeOK, RowConsistent, Active,
       Supervised, ActiveStatuses, SettledStates, DispatchStatuses, WorkerStates, TaskStatuses,
       EdgeTaken, DispatchEdges, WorkerEdges,
       MarkWorkerStopUnknown, SetWorker, dispatchVars
  <2>5. BreakerObeyed(d)
    BY <1>4, <2>2, CountAssumption DEF LifecycleInvariant, TypeOK, RowConsistent, Active,
       Supervised, ActiveStatuses, SettledStates, DispatchStatuses, WorkerStates, TaskStatuses,
       BreakerObeyed,
       MarkWorkerStopUnknown, SetWorker, dispatchVars
  <2> QED BY <2>1, <2>3, <2>4, <2>5, KeptIsLawful DEF LawfulFor, LifecycleInvariant
<1>5. ASSUME NEW d \in DispatchIds, AbandonWorkerDispatch(d)
      PROVE  \A e \in DispatchIds : LawfulFor(e)
  <2>1. \A e \in DispatchIds \ {d} : RowKept(e)
    BY <1>5 DEF LifecycleInvariant, TypeOK, RowKept, AbandonWorkerDispatch, FailUncounted, SetWorker
  <2>2. RowConsistent(d) BY RowsConsistent
  <2>3. VerdictKept(d)
    BY <1>5, <2>2, CountAssumption DEF LifecycleInvariant, TypeOK, RowConsistent, Active,
       Supervised, ActiveStatuses, SettledStates, DispatchStatuses, WorkerStates, TaskStatuses,
       VerdictKept,
       AbandonWorkerDispatch, FailUncounted, SetWorker
  <2>4. EdgeTaken(d)
    BY <1>5, <2>2, CountAssumption DEF LifecycleInvariant, TypeOK, RowConsistent, Active,
       Supervised, ActiveStatuses, SettledStates, DispatchStatuses, WorkerStates, TaskStatuses,
       EdgeTaken, DispatchEdges, WorkerEdges,
       AbandonWorkerDispatch, FailUncounted, SetWorker
  <2>5. BreakerObeyed(d)
    BY <1>5, <2>2, CountAssumption DEF LifecycleInvariant, TypeOK, RowConsistent, Active,
       Supervised, ActiveStatuses, SettledStates, DispatchStatuses, WorkerStates, TaskStatuses,
       BreakerObeyed,
       AbandonWorkerDispatch, FailUncounted, SetWorker
  <2> QED BY <2>1, <2>3, <2>4, <2>5, KeptIsLawful DEF LawfulFor, LifecycleInvariant
<1> QED BY <1>1, <1>2, <1>3, <1>4, <1>5 DEF StopNext

\* What the peer says late changes no verdict.
LEMMA FederatedIsLawful ==
    ASSUME LifecycleInvariant, TypeOK', FederatedNext
    PROVE  \A e \in DispatchIds : LawfulFor(e)
<1>1. ASSUME NEW d \in DispatchIds, ReconcileFederatedReady(d)
      PROVE  \A e \in DispatchIds : LawfulFor(e)
  <2>1. \A e \in DispatchIds \ {d} : RowKept(e)
    BY <1>1 DEF LifecycleInvariant, TypeOK, RowKept, ReconcileFederatedReady, SetWorker
  <2>2. RowConsistent(d) BY RowsConsistent
  <2>3. VerdictKept(d)
    BY <1>1, <2>2, CountAssumption DEF LifecycleInvariant, TypeOK, RowConsistent, Active,
       Supervised, ActiveStatuses, SettledStates, DispatchStatuses, WorkerStates, TaskStatuses,
       VerdictKept,
       ReconcileFederatedReady, SetWorker
  <2>4. EdgeTaken(d)
    BY <1>1, <2>2, CountAssumption DEF LifecycleInvariant, TypeOK, RowConsistent, Active,
       Supervised, ActiveStatuses, SettledStates, DispatchStatuses, WorkerStates, TaskStatuses,
       EdgeTaken, DispatchEdges, WorkerEdges,
       ReconcileFederatedReady, SetWorker
  <2>5. BreakerObeyed(d)
    BY <1>1, <2>2, CountAssumption DEF LifecycleInvariant, TypeOK, RowConsistent, Active,
       Supervised, ActiveStatuses, SettledStates, DispatchStatuses, WorkerStates, TaskStatuses,
       BreakerObeyed,
       ReconcileFederatedReady, SetWorker
  <2> QED BY <2>1, <2>3, <2>4, <2>5, KeptIsLawful DEF LawfulFor, LifecycleInvariant
<1>2. ASSUME NEW d \in DispatchIds, ReconcileFederatedStartUnknown(d)
      PROVE  \A e \in DispatchIds : LawfulFor(e)
  <2>1. \A e \in DispatchIds \ {d} : RowKept(e)
    BY <1>2 DEF LifecycleInvariant, TypeOK, RowKept, ReconcileFederatedStartUnknown, SetWorker, dispatchVars
  <2>2. RowConsistent(d) BY RowsConsistent
  <2>3. VerdictKept(d)
    BY <1>2, <2>2, CountAssumption DEF LifecycleInvariant, TypeOK, RowConsistent, Active,
       Supervised, ActiveStatuses, SettledStates, DispatchStatuses, WorkerStates, TaskStatuses,
       VerdictKept,
       ReconcileFederatedStartUnknown, SetWorker, dispatchVars
  <2>4. EdgeTaken(d)
    BY <1>2, <2>2, CountAssumption DEF LifecycleInvariant, TypeOK, RowConsistent, Active,
       Supervised, ActiveStatuses, SettledStates, DispatchStatuses, WorkerStates, TaskStatuses,
       EdgeTaken, DispatchEdges, WorkerEdges,
       ReconcileFederatedStartUnknown, SetWorker, dispatchVars
  <2>5. BreakerObeyed(d)
    BY <1>2, <2>2, CountAssumption DEF LifecycleInvariant, TypeOK, RowConsistent, Active,
       Supervised, ActiveStatuses, SettledStates, DispatchStatuses, WorkerStates, TaskStatuses,
       BreakerObeyed,
       ReconcileFederatedStartUnknown, SetWorker, dispatchVars
  <2> QED BY <2>1, <2>3, <2>4, <2>5, KeptIsLawful DEF LawfulFor, LifecycleInvariant
<1>3. ASSUME NEW d \in DispatchIds, NEW state \in {"failed", "stopped"}, NEW stalled \in BOOLEAN,
              ReconcileFederatedEnd(d, state, stalled)
      PROVE  \A e \in DispatchIds : LawfulFor(e)
  <2>1. \A e \in DispatchIds \ {d} : RowKept(e)
    BY <1>3 DEF LifecycleInvariant, TypeOK, RowKept, ReconcileFederatedEnd, FailUncounted, SetWorker
  <2>2. RowConsistent(d) BY RowsConsistent
  <2>3. VerdictKept(d)
    BY <1>3, <2>2, CountAssumption DEF LifecycleInvariant, TypeOK, RowConsistent, Active,
       Supervised, ActiveStatuses, SettledStates, DispatchStatuses, WorkerStates, TaskStatuses,
       VerdictKept,
       ReconcileFederatedEnd, FailUncounted, SetWorker
  <2>4. EdgeTaken(d)
    BY <1>3, <2>2, CountAssumption DEF LifecycleInvariant, TypeOK, RowConsistent, Active,
       Supervised, ActiveStatuses, SettledStates, DispatchStatuses, WorkerStates, TaskStatuses,
       EdgeTaken, DispatchEdges, WorkerEdges,
       ReconcileFederatedEnd, FailUncounted, SetWorker
  <2>5. BreakerObeyed(d)
    BY <1>3, <2>2, CountAssumption DEF LifecycleInvariant, TypeOK, RowConsistent, Active,
       Supervised, ActiveStatuses, SettledStates, DispatchStatuses, WorkerStates, TaskStatuses,
       BreakerObeyed,
       ReconcileFederatedEnd, FailUncounted, SetWorker
  <2> QED BY <2>1, <2>3, <2>4, <2>5, KeptIsLawful DEF LawfulFor, LifecycleInvariant
<1>4. ASSUME NEW d \in DispatchIds, ReconcileFederatedWorkerStop(d)
      PROVE  \A e \in DispatchIds : LawfulFor(e)
  <2>1. \A e \in DispatchIds \ {d} : RowKept(e)
    BY <1>4 DEF LifecycleInvariant, TypeOK, RowKept, ReconcileFederatedWorkerStop, StopSettled, FailUncounted, SetWorker
  <2>2. RowConsistent(d) BY RowsConsistent
  <2>3. VerdictKept(d)
    BY <1>4, <2>2, CountAssumption DEF LifecycleInvariant, TypeOK, RowConsistent, Active,
       Supervised, ActiveStatuses, SettledStates, DispatchStatuses, WorkerStates, TaskStatuses,
       VerdictKept,
       ReconcileFederatedWorkerStop, StopSettled, FailUncounted, SetWorker
  <2>4. EdgeTaken(d)
    BY <1>4, <2>2, CountAssumption DEF LifecycleInvariant, TypeOK, RowConsistent, Active,
       Supervised, ActiveStatuses, SettledStates, DispatchStatuses, WorkerStates, TaskStatuses,
       EdgeTaken, DispatchEdges, WorkerEdges,
       ReconcileFederatedWorkerStop, StopSettled, FailUncounted, SetWorker
  <2>5. BreakerObeyed(d)
    BY <1>4, <2>2, CountAssumption DEF LifecycleInvariant, TypeOK, RowConsistent, Active,
       Supervised, ActiveStatuses, SettledStates, DispatchStatuses, WorkerStates, TaskStatuses,
       BreakerObeyed,
       ReconcileFederatedWorkerStop, StopSettled, FailUncounted, SetWorker
  <2> QED BY <2>1, <2>3, <2>4, <2>5, KeptIsLawful DEF LawfulFor, LifecycleInvariant
<1>5. ASSUME NEW d \in DispatchIds, ResumeFederatedWorkerForTerminalRelay(d)
      PROVE  \A e \in DispatchIds : LawfulFor(e)
  <2>1. \A e \in DispatchIds \ {d} : RowKept(e)
    BY <1>5 DEF LifecycleInvariant, TypeOK, RowKept, ResumeFederatedWorkerForTerminalRelay, SetWorker, dispatchVars
  <2>2. RowConsistent(d) BY RowsConsistent
  <2>3. VerdictKept(d)
    BY <1>5, <2>2, CountAssumption DEF LifecycleInvariant, TypeOK, RowConsistent, Active,
       Supervised, ActiveStatuses, SettledStates, DispatchStatuses, WorkerStates, TaskStatuses,
       VerdictKept,
       ResumeFederatedWorkerForTerminalRelay, SetWorker, dispatchVars
  <2>4. EdgeTaken(d)
    BY <1>5, <2>2, CountAssumption DEF LifecycleInvariant, TypeOK, RowConsistent, Active,
       Supervised, ActiveStatuses, SettledStates, DispatchStatuses, WorkerStates, TaskStatuses,
       EdgeTaken, DispatchEdges, WorkerEdges,
       ResumeFederatedWorkerForTerminalRelay, SetWorker, dispatchVars
  <2>5. BreakerObeyed(d)
    BY <1>5, <2>2, CountAssumption DEF LifecycleInvariant, TypeOK, RowConsistent, Active,
       Supervised, ActiveStatuses, SettledStates, DispatchStatuses, WorkerStates, TaskStatuses,
       BreakerObeyed,
       ResumeFederatedWorkerForTerminalRelay, SetWorker, dispatchVars
  <2> QED BY <2>1, <2>3, <2>4, <2>5, KeptIsLawful DEF LawfulFor, LifecycleInvariant
<1> QED BY <1>1, <1>2, <1>3, <1>4, <1>5 DEF FederatedNext

\* Tasks, gates, questions and restarts settle active dispatches at most.
LEMMA OthersAreLawful ==
    ASSUME LifecycleInvariant, TypeOK',
           \/ TaskNext \/ QuestionNext \/ Restart \/ UNCHANGED vars
           \/ \E g \in Gates : ResolveGate(g)
    PROVE  \A e \in DispatchIds : LawfulFor(e)
<1>0. \A e \in DispatchIds : RowConsistent(e) BY RowsConsistent
<1>1. ASSUME NEW t, NEW verdict \in {"completed", "failed"},
             SettleDispatches(ActiveOf(t), verdict), UNCHANGED <<failureCount, workerVars>>
      PROVE  \A e \in DispatchIds : LawfulFor(e)
  <2>1. \A e \in DispatchIds \ ActiveOf(t) : RowKept(e)
    BY <1>1 DEF SettleDispatches, RowKept, workerVars
  <2>2. \A e \in ActiveOf(t) : LawfulFor(e)
    BY <1>0, <1>1, SelfEdges DEF LifecycleInvariant, TypeOK, SettleDispatches, ActiveOf, Active,
       ActiveStatuses, LawfulFor, VerdictKept, EdgeTaken, DispatchEdges, DispatchStatuses,
       BreakerObeyed, workerVars, RowConsistent, Supervised
  <2> QED BY <2>1, <2>2, KeptIsLawful DEF LifecycleInvariant, ActiveOf
<1>2. ASSUME UNCHANGED <<dispatchStatus, failureCount, worker>>
      PROVE  \A e \in DispatchIds : LawfulFor(e)
  BY <1>2, KeptIsLawful DEF RowKept, LifecycleInvariant
<1>3. ASSUME NEW t, NEW status, UpdateTask(t, status)
      PROVE  \A e \in DispatchIds : LawfulFor(e)
  <2>1. CASE status \in {"completed", "failed"}
    BY <1>1, <1>3, <2>1 DEF UpdateTask
  <2>2. CASE status \notin {"completed", "failed"}
    BY <1>2, <1>3, <2>2 DEF UpdateTask, workerVars
  <2> QED BY <2>1, <2>2
<1>4. CASE TaskNext
  <2>1. ASSUME NEW t \in Tasks, NEW deps \in SUBSET (Tasks \ {t}), CreateTask(t, deps)
        PROVE  \A e \in DispatchIds : LawfulFor(e)
    BY <1>2, <2>1 DEF CreateTask, dispatchVars, workerVars
  <2>2. ASSUME NEW t \in Tasks, NEW g \in Gates, CreateGate(g, t)
        PROVE  \A e \in DispatchIds : LawfulFor(e)
    BY <1>1, <2>2 DEF CreateGate
  <2> QED BY <1>3, <1>4, <2>1, <2>2 DEF TaskNext, TaskUpdate
<1>5. CASE QuestionNext
  BY <1>2, <1>5 DEF QuestionNext, CreateQuestion, RegisterFederatedQuestion, OpenQuestion,
     AnswerQuestion, dispatchVars, workerVars
<1>6. CASE Restart
  BY <1>2, <1>6 DEF Restart, dispatchVars, workerVars
<1>7. CASE UNCHANGED vars
  BY <1>2, <1>7 DEF vars, dispatchVars, workerVars
<1>8. CASE \E g \in Gates : ResolveGate(g)
  BY <1>3, <1>8 DEF ResolveGate
<1> QED BY <1>4, <1>5, <1>6, <1>7, <1>8

\* Every transaction that starts from the inductive invariant is lawful.
LEMMA EveryStepIsLawful ==
    ASSUME LifecycleInvariant, [Next]_vars
    PROVE  \A d \in DispatchIds : LawfulFor(d)
<1>1. TypeOK' BY InvariantStep DEF LifecycleInvariant
<1> QED BY <1>1, ClaimIsLawful, StartIsLawful, SettleIsLawful, StopIsLawful, FederatedIsLawful,
           OthersAreLawful DEF Next

\* A settled dispatch and a settled worker keep their verdict through late and duplicate
\* reports, stops and recoveries; only a stalled start is corrected, to success.
THEOREM VerdictsStay == Spec => VerdictsAreFinal
<1>1. LifecycleInvariant /\ [Next]_vars
        => [\A d \in DispatchIds :
              /\ dispatchStatus[d] \in DispatchStatuses \ ActiveStatuses
                   => \/ dispatchStatus'[d] = dispatchStatus[d]
                      \/ promptStalled[d] /\ dispatchStatus[d] = "failed"
                           /\ dispatchStatus'[d] = "completed" /\ worker'[d] = "succeeded"
              /\ worker[d] \in SettledStates
                   => \/ worker'[d] = worker[d]
                      \/ promptStalled[d] /\ worker[d] = "failed" /\ worker'[d] = "succeeded"
                           /\ taskStatus'[dispatchTask[d]] = "completed"]_vars
  BY EveryStepIsLawful DEF LawfulFor, VerdictKept
<1> QED BY <1>1, InvariantHolds, PTL DEF Spec, VerdictsAreFinal

\* No transaction asks for a change of a dispatch or of a worker that
\* transitionLifecycleWithDb refuses.
THEOREM TransitionsStayLegal == Spec => TransitionsAreLegal
<1>1. LifecycleInvariant /\ [Next]_vars
        => [\A d \in DispatchIds :
              /\ dispatchStatus[d] # "absent"
                   => \/ dispatchStatus'[d] \in DispatchEdges[dispatchStatus[d]]
                      \/ dispatchStatus[d] = "failed" /\ dispatchStatus'[d] = "completed"
              /\ worker[d] # "none"
                   => \/ worker'[d] \in WorkerEdges[worker[d]]
                      \/ worker[d] \in {"starting", "start_unknown"} /\ worker'[d] = "succeeded"
                      \/ worker[d] = "failed" /\ worker'[d] = "succeeded"]_vars
  BY EveryStepIsLawful DEF LawfulFor, EdgeTaken
<1> QED BY <1>1, InvariantHolds, PTL DEF Spec, TransitionsAreLegal

\* Counting a failure trips the circuit breaker exactly at the limit, and a tripped breaker
\* never puts the task back on the ready list.
THEOREM BreakerHolds == Spec => BreakerStopsAutomaticRetry
<1>1. LifecycleInvariant /\ [Next]_vars
        => [\A d \in DispatchIds : Active(d) =>
              /\ failureCount'[d] # failureCount[d] =>
                   (failureCount'[d] >= BreakFailures <=> dispatchStatus'[d] = "circuit_broken")
              /\ dispatchStatus'[d] = "circuit_broken" => taskStatus'[dispatchTask[d]] # "ready"]_vars
  BY EveryStepIsLawful DEF LawfulFor, BreakerObeyed
<1> QED BY <1>1, InvariantHolds, PTL DEF Spec, BreakerStopsAutomaticRetry
=============================================================================
