------------------------------- MODULE TaskProofs -------------------------------
(* Who may act for a dispatch: no agent terminal holds two active dispatches, *)
(* and a capability is revoked with the dispatch it was minted for.  And what *)
(* a transaction may do to the tasks and to the questions around a dispatch:  *)
(* no promotion is lost, no completed task is taken back but by hand, and     *)
(* nobody is asked to answer a local worker that is gone.                     *)
EXTENDS LifecycleInvariantProofs

-----------------------------------------------------------------------------
(* Terminals and capabilities *)

\* A row that has not been inserted has neither an assignee nor a capability.
AbsentRowsAreEmpty ==
    \A d \in DispatchIds :
        dispatchStatus[d] = "absent" => assignee[d] = NoTerminal /\ capability[d] = "none"

\* The strengthening that makes both properties inductive.
AuthorityInvariant ==
    /\ LifecycleInvariant
    /\ AbsentRowsAreEmpty
    /\ OneActiveDispatchPerTerminal
    /\ AuthorityEndsWithTheDispatch

\* The step hands no terminal to any dispatch and inserts no row.
NobodySeated ==
    /\ assignee' = assignee
    /\ \A d \in DispatchIds :
         /\ Active(d)' => Active(d)
         /\ dispatchStatus'[d] = "absent" => dispatchStatus[d] = "absent"

\* The step mints no capability: only live ones change.
NothingMinted ==
    \A d \in DispatchIds : capability'[d] # capability[d] => capability[d] = "live"

\* Where no terminal is handed out, none can be handed out twice.
LEMMA SeatsKept ==
    ASSUME OneActiveDispatchPerTerminal, NobodySeated
    PROVE  OneActiveDispatchPerTerminal'
<1> SUFFICES ASSUME NEW d \in DispatchIds, NEW e \in DispatchIds, Active(d)', Active(e)',
                    assignee'[d] = assignee'[e], assignee'[d] # NoTerminal
             PROVE  d = e
  BY DEF OneActiveDispatchPerTerminal
<1>1. Active(d) /\ Active(e) /\ assignee' = assignee BY DEF NobodySeated
<1> QED BY <1>1 DEF OneActiveDispatchPerTerminal

\* A start that succeeds, fails or is lost seats nobody and keeps the authority consistent.
LEMMA StartAuthority ==
    ASSUME AuthorityInvariant, TypeOK', StartNext,
           \A d \in DispatchIds, x \in Terminals : ~PrepareStartingWorkerAuthority(d, x)
    PROVE  NobodySeated /\ NothingMinted /\ AuthorityEndsWithTheDispatch'
<1> USE DEF AuthorityInvariant, LifecycleInvariant, TypeOK, Active, ActiveStatuses, NobodySeated,
        NothingMinted
<1>0. \A e \in DispatchIds : RowConsistent(e) BY RowsConsistent
<1>1. ASSUME NEW d \in DispatchIds, MarkWorkerDispatchReady(d)
     PROVE  NobodySeated /\ NothingMinted /\ AuthorityEndsWithTheDispatch'
  <2>1. NobodySeated /\ NothingMinted
    BY <1>1 DEF MarkWorkerDispatchReady, SetWorker
  <2>2. AuthorityEndsWithTheDispatch'
    BY <1>0, <1>1, <2>1 DEF MarkWorkerDispatchReady, SetWorker,
        RowConsistent, Supervised, SettledStates, AuthorityEndsWithTheDispatch
  <2> QED BY <2>1, <2>2
<1>2. ASSUME NEW d \in DispatchIds, NEW stalled \in BOOLEAN, FailWorkerStart(d, stalled)
     PROVE  NobodySeated /\ NothingMinted /\ AuthorityEndsWithTheDispatch'
  <2>1. NobodySeated /\ NothingMinted
    BY <1>2 DEF FailWorkerStart, FailUncounted, SetWorker, Revoked
  <2>2. AuthorityEndsWithTheDispatch'
    BY <1>0, <1>2, <2>1 DEF FailWorkerStart, FailUncounted, SetWorker, Revoked,
        RowConsistent, Supervised, SettledStates, AuthorityEndsWithTheDispatch
  <2> QED BY <2>1, <2>2
<1>3. ASSUME NEW d \in DispatchIds, MarkWorkerStartUnknown(d)
     PROVE  NobodySeated /\ NothingMinted /\ AuthorityEndsWithTheDispatch'
  <2>1. NobodySeated /\ NothingMinted
    BY <1>3 DEF MarkWorkerStartUnknown, SetWorker, dispatchVars
  <2>2. AuthorityEndsWithTheDispatch'
    BY <1>0, <1>3, <2>1 DEF MarkWorkerStartUnknown, SetWorker, dispatchVars,
        RowConsistent, Supervised, SettledStates, AuthorityEndsWithTheDispatch
  <2> QED BY <2>1, <2>2
<1> QED BY <1>1, <1>2, <1>3 DEF StartNext

\* A report, a failure or an exit takes the authority away with the dispatch.
LEMMA SettleAuthority ==
    ASSUME AuthorityInvariant, TypeOK', SettleNext
    PROVE  NobodySeated /\ NothingMinted /\ AuthorityEndsWithTheDispatch'
<1> USE DEF AuthorityInvariant, LifecycleInvariant, TypeOK, Active, ActiveStatuses, NobodySeated,
        NothingMinted
<1>0. \A e \in DispatchIds : RowConsistent(e) BY RowsConsistent
<1>1. ASSUME NEW d \in DispatchIds, NEW stalled \in BOOLEAN, FailDispatch(d, FALSE, stalled)
     PROVE  NobodySeated /\ NothingMinted /\ AuthorityEndsWithTheDispatch'
  <2>1. NobodySeated /\ NothingMinted
    BY <1>1 DEF FailDispatch, MayFail, CountFailure, FailedStatus, Revoked
  <2>2. AuthorityEndsWithTheDispatch'
    BY <1>0, <1>1, <2>1 DEF FailDispatch, MayFail, CountFailure, FailedStatus, Revoked,
        RowConsistent, Supervised, SettledStates, AuthorityEndsWithTheDispatch
  <2> QED BY <2>1, <2>2
<1>2. ASSUME NEW d \in DispatchIds, NEW outcome \in {"succeeded", "failed"},
              SettleWorkerReport(d, outcome)
     PROVE  NobodySeated /\ NothingMinted /\ AuthorityEndsWithTheDispatch'
  <2>1. NobodySeated /\ NothingMinted
    BY <1>2 DEF SettleWorkerReport, SettleDispatches, Revoked
  <2>2. AuthorityEndsWithTheDispatch'
    BY <1>0, <1>2, <2>1 DEF SettleWorkerReport, SettleDispatches, Revoked,
        RowConsistent, Supervised, SettledStates, AuthorityEndsWithTheDispatch
  <2> QED BY <2>1, <2>2
<1>3. ASSUME NEW d \in DispatchIds, ProcessExit(d)
     PROVE  NobodySeated /\ NothingMinted /\ AuthorityEndsWithTheDispatch'
  <2>1. NobodySeated /\ NothingMinted
    BY <1>3 DEF ProcessExit, StopSettled, FailUncounted, SetWorker, FailDispatch, MayFail,
        CountFailure, FailedStatus, Revoked
  <2>2. AuthorityEndsWithTheDispatch'
    BY <1>0, <1>3, <2>1 DEF ProcessExit, StopSettled, FailUncounted, SetWorker, FailDispatch, MayFail,
        CountFailure, FailedStatus, Revoked,
        RowConsistent, Supervised, SettledStates, AuthorityEndsWithTheDispatch
  <2> QED BY <2>1, <2>2
<1>4. ASSUME NEW d \in DispatchIds, ReconcileMissingWorkerTerminal(d)
     PROVE  NobodySeated /\ NothingMinted /\ AuthorityEndsWithTheDispatch'
  <2>1. NobodySeated /\ NothingMinted
    BY <1>4 DEF ReconcileMissingWorkerTerminal, CountFailure, FailedStatus, SetWorker, Revoked
  <2>2. AuthorityEndsWithTheDispatch'
    BY <1>0, <1>4, <2>1 DEF ReconcileMissingWorkerTerminal, CountFailure, FailedStatus, SetWorker, Revoked,
        RowConsistent, Supervised, SettledStates, AuthorityEndsWithTheDispatch
  <2> QED BY <2>1, <2>2
<1>5. NobodySeated /\ NothingMinted /\ AuthorityEndsWithTheDispatch'
  <2> HIDE DEF NobodySeated, NothingMinted, TypeOK, AuthorityInvariant
  <2> QED BY <1>1, <1>2, <1>3, <1>4 DEF SettleNext
<1> QED BY <1>5

\* A stop or an abandon takes the authority away first.
LEMMA StopAuthority ==
    ASSUME AuthorityInvariant, TypeOK', StopNext
    PROVE  NobodySeated /\ NothingMinted /\ AuthorityEndsWithTheDispatch'
<1> USE DEF AuthorityInvariant, LifecycleInvariant, TypeOK, Active, ActiveStatuses, NobodySeated,
        NothingMinted
<1>0. \A e \in DispatchIds : RowConsistent(e) BY RowsConsistent
<1>1. ASSUME NEW d \in DispatchIds, ReleaseContextOnlyDispatch(d)
     PROVE  NobodySeated /\ NothingMinted /\ AuthorityEndsWithTheDispatch'
  <2>1. NobodySeated /\ NothingMinted
    BY <1>1 DEF ReleaseContextOnlyDispatch, FailUncounted, Revoked, workerVars
  <2>2. AuthorityEndsWithTheDispatch'
    BY <1>0, <1>1, <2>1 DEF ReleaseContextOnlyDispatch, FailUncounted, Revoked, workerVars,
        RowConsistent, Supervised, SettledStates, AuthorityEndsWithTheDispatch
  <2> QED BY <2>1, <2>2
<1>2. ASSUME NEW d \in DispatchIds, BeginWorkerStop(d)
     PROVE  NobodySeated /\ NothingMinted /\ AuthorityEndsWithTheDispatch'
  <2>1. NobodySeated /\ NothingMinted
    BY <1>2 DEF BeginWorkerStop, MayStop, SetWorker, Revoked
  <2>2. AuthorityEndsWithTheDispatch'
    BY <1>0, <1>2, <2>1 DEF BeginWorkerStop, MayStop, SetWorker, Revoked,
        RowConsistent, Supervised, SettledStates, AuthorityEndsWithTheDispatch
  <2> QED BY <2>1, <2>2
<1>3. ASSUME NEW d \in DispatchIds, SettleWorkerStop(d)
     PROVE  NobodySeated /\ NothingMinted /\ AuthorityEndsWithTheDispatch'
  <2>1. NobodySeated /\ NothingMinted
    BY <1>3 DEF SettleWorkerStop, StopSettled, FailUncounted, SetWorker
  <2>2. AuthorityEndsWithTheDispatch'
    BY <1>0, <1>3, <2>1 DEF SettleWorkerStop, StopSettled, FailUncounted, SetWorker,
        RowConsistent, Supervised, SettledStates, AuthorityEndsWithTheDispatch
  <2> QED BY <2>1, <2>2
<1>4. ASSUME NEW d \in DispatchIds, MarkWorkerStopUnknown(d)
     PROVE  NobodySeated /\ NothingMinted /\ AuthorityEndsWithTheDispatch'
  <2>1. NobodySeated /\ NothingMinted
    BY <1>4 DEF MarkWorkerStopUnknown, SetWorker, dispatchVars
  <2>2. AuthorityEndsWithTheDispatch'
    BY <1>0, <1>4, <2>1 DEF MarkWorkerStopUnknown, SetWorker, dispatchVars,
        RowConsistent, Supervised, SettledStates, AuthorityEndsWithTheDispatch
  <2> QED BY <2>1, <2>2
<1>5. ASSUME NEW d \in DispatchIds, AbandonWorkerDispatch(d)
     PROVE  NobodySeated /\ NothingMinted /\ AuthorityEndsWithTheDispatch'
  <2>1. NobodySeated /\ NothingMinted
    BY <1>5 DEF AbandonWorkerDispatch, FailUncounted, SetWorker, Revoked
  <2>2. AuthorityEndsWithTheDispatch'
    BY <1>0, <1>5, <2>1 DEF AbandonWorkerDispatch, FailUncounted, SetWorker, Revoked,
        RowConsistent, Supervised, SettledStates, AuthorityEndsWithTheDispatch
  <2> QED BY <2>1, <2>2
<1> QED BY <1>1, <1>2, <1>3, <1>4, <1>5 DEF StopNext

\* What the peer says of a worker never leaves the home a live capability of an ended one.
LEMMA FederatedAuthority ==
    ASSUME AuthorityInvariant, TypeOK', FederatedNext
    PROVE  NobodySeated /\ NothingMinted /\ AuthorityEndsWithTheDispatch'
<1> USE DEF AuthorityInvariant, LifecycleInvariant, TypeOK, Active, ActiveStatuses, NobodySeated,
        NothingMinted
<1>0. \A e \in DispatchIds : RowConsistent(e) BY RowsConsistent
<1>1. ASSUME NEW d \in DispatchIds, ReconcileFederatedReady(d)
     PROVE  NobodySeated /\ NothingMinted /\ AuthorityEndsWithTheDispatch'
  <2>1. NobodySeated /\ NothingMinted
    BY <1>1 DEF ReconcileFederatedReady, SetWorker
  <2>2. AuthorityEndsWithTheDispatch'
    BY <1>0, <1>1, <2>1 DEF ReconcileFederatedReady, SetWorker,
        RowConsistent, Supervised, SettledStates, AuthorityEndsWithTheDispatch
  <2> QED BY <2>1, <2>2
<1>2. ASSUME NEW d \in DispatchIds, ReconcileFederatedStartUnknown(d)
     PROVE  NobodySeated /\ NothingMinted /\ AuthorityEndsWithTheDispatch'
  <2>1. NobodySeated /\ NothingMinted
    BY <1>2 DEF ReconcileFederatedStartUnknown, SetWorker, dispatchVars
  <2>2. AuthorityEndsWithTheDispatch'
    BY <1>0, <1>2, <2>1 DEF ReconcileFederatedStartUnknown, SetWorker, dispatchVars,
        RowConsistent, Supervised, SettledStates, AuthorityEndsWithTheDispatch
  <2> QED BY <2>1, <2>2
<1>3. ASSUME NEW d \in DispatchIds, NEW state \in {"failed", "stopped"}, NEW stalled \in BOOLEAN,
              ReconcileFederatedEnd(d, state, stalled)
     PROVE  NobodySeated /\ NothingMinted /\ AuthorityEndsWithTheDispatch'
  <2>1. NobodySeated /\ NothingMinted
    BY <1>3 DEF ReconcileFederatedEnd, FailUncounted, SetWorker, Revoked
  <2>2. AuthorityEndsWithTheDispatch'
    BY <1>0, <1>3, <2>1 DEF ReconcileFederatedEnd, FailUncounted, SetWorker, Revoked,
        RowConsistent, Supervised, SettledStates, AuthorityEndsWithTheDispatch
  <2> QED BY <2>1, <2>2
<1>4. ASSUME NEW d \in DispatchIds, ReconcileFederatedWorkerStop(d)
     PROVE  NobodySeated /\ NothingMinted /\ AuthorityEndsWithTheDispatch'
  <2>1. NobodySeated /\ NothingMinted
    BY <1>4 DEF ReconcileFederatedWorkerStop, StopSettled, FailUncounted, SetWorker
  <2>2. AuthorityEndsWithTheDispatch'
    BY <1>0, <1>4, <2>1 DEF ReconcileFederatedWorkerStop, StopSettled, FailUncounted, SetWorker,
        RowConsistent, Supervised, SettledStates, AuthorityEndsWithTheDispatch
  <2> QED BY <2>1, <2>2
<1>5. ASSUME NEW d \in DispatchIds, ResumeFederatedWorkerForTerminalRelay(d)
     PROVE  NobodySeated /\ NothingMinted /\ AuthorityEndsWithTheDispatch'
  <2>1. NobodySeated /\ NothingMinted
    BY <1>5 DEF ResumeFederatedWorkerForTerminalRelay, SetWorker, dispatchVars
  <2>2. AuthorityEndsWithTheDispatch'
    BY <1>0, <1>5, <2>1 DEF ResumeFederatedWorkerForTerminalRelay, SetWorker, dispatchVars,
        RowConsistent, Supervised, SettledStates, AuthorityEndsWithTheDispatch
  <2> QED BY <2>1, <2>2
<1> QED BY <1>1, <1>2, <1>3, <1>4, <1>5 DEF FederatedNext

\* A task update or a gate takes the authority away from every dispatch it settles.
LEMMA TaskAuthority ==
    ASSUME AuthorityInvariant, TypeOK',
           TaskNext \/ \E g \in Gates : ResolveGate(g)
    PROVE  NobodySeated /\ NothingMinted /\ AuthorityEndsWithTheDispatch'
<1> USE DEF AuthorityInvariant, LifecycleInvariant, TypeOK, Active, ActiveStatuses
<1>0. \A e \in DispatchIds : RowConsistent(e) BY RowsConsistent
<1>1. ASSUME NEW t \in Tasks, NEW deps \in SUBSET (Tasks \ {t}), CreateTask(t, deps)
      PROVE  NobodySeated /\ NothingMinted /\ AuthorityEndsWithTheDispatch'
  BY <1>1 DEF CreateTask, dispatchVars, workerVars, NobodySeated, NothingMinted,
     AuthorityEndsWithTheDispatch
<1>2. ASSUME NEW t, NEW status \in TaskStatuses, UpdateTask(t, status)
      PROVE  NobodySeated /\ NothingMinted /\ AuthorityEndsWithTheDispatch'
  <2>1. NobodySeated /\ NothingMinted
    BY <1>2 DEF UpdateTask, SettleDispatches, Revoked, NobodySeated, NothingMinted
  <2>2. AuthorityEndsWithTheDispatch'
    BY <1>0, <1>2 DEF UpdateTask, SettleDispatches, Revoked, ActiveOf, workerVars,
       RowConsistent, AuthorityEndsWithTheDispatch
  <2> QED BY <2>1, <2>2
<1>3. ASSUME NEW t \in Tasks, NEW g \in Gates, CreateGate(g, t)
      PROVE  NobodySeated /\ NothingMinted /\ AuthorityEndsWithTheDispatch'
  <2>1. NobodySeated /\ NothingMinted
    BY <1>3 DEF CreateGate, SettleDispatches, Revoked, NobodySeated, NothingMinted
  <2>2. AuthorityEndsWithTheDispatch'
    BY <1>0, <1>3 DEF CreateGate, SettleDispatches, Revoked, ActiveOf, workerVars,
       RowConsistent, AuthorityEndsWithTheDispatch
  <2> QED BY <2>1, <2>2
<1>4. "ready" \in TaskStatuses BY DEF TaskStatuses
<1> QED BY <1>1, <1>2, <1>3, <1>4, Zenon DEF TaskNext, TaskUpdate, ResolveGate

\* The two transactions that hand a terminal to a dispatch look for its holder first; the
\* third that makes a dispatch active seats nobody yet.
LEMMA SeatingStep ==
    ASSUME AuthorityInvariant, TypeOK', NEW d \in DispatchIds,
           \/ \E t \in Tasks, x \in Terminals, inject \in BOOLEAN :
                CreateDispatchContext(d, t, x, inject)
           \/ \E t \in Tasks, remote \in BOOLEAN : CreateStartingWorkerDispatch(d, t, remote)
           \/ \E x \in Terminals : PrepareStartingWorkerAuthority(d, x)
    PROVE  AbsentRowsAreEmpty' /\ OneActiveDispatchPerTerminal' /\ AuthorityEndsWithTheDispatch'
<1> USE NullAssumption DEF AuthorityInvariant, LifecycleInvariant, TypeOK, Active, ActiveStatuses,
        AbsentRowsAreEmpty
<1>0. RowConsistent(d) BY RowsConsistent
<1>1. ASSUME NEW t \in Tasks, NEW x \in Terminals, NEW inject \in BOOLEAN,
             CreateDispatchContext(d, t, x, inject)
      PROVE  AbsentRowsAreEmpty' /\ OneActiveDispatchPerTerminal' /\ AuthorityEndsWithTheDispatch'
  <2>1. AbsentRowsAreEmpty'
    BY <1>1 DEF CreateDispatchContext
  <2>2. OneActiveDispatchPerTerminal'
    BY <1>1 DEF CreateDispatchContext, TerminalFree, OneActiveDispatchPerTerminal
  <2>3. AuthorityEndsWithTheDispatch'
    BY <1>0, <1>1 DEF CreateDispatchContext, IsNextRow, workerVars, RowConsistent,
       AuthorityEndsWithTheDispatch
  <2> QED BY <2>1, <2>2, <2>3
<1>2. ASSUME NEW t \in Tasks, NEW remote \in BOOLEAN, CreateStartingWorkerDispatch(d, t, remote)
      PROVE  AbsentRowsAreEmpty' /\ OneActiveDispatchPerTerminal' /\ AuthorityEndsWithTheDispatch'
  <2>1. AbsentRowsAreEmpty' /\ assignee[d] = NoTerminal
    BY <1>2 DEF CreateStartingWorkerDispatch, IsNextRow
  <2>2. OneActiveDispatchPerTerminal'
    BY <1>2, <2>1 DEF CreateStartingWorkerDispatch, OneActiveDispatchPerTerminal
  <2>3. AuthorityEndsWithTheDispatch'
    BY <1>2 DEF CreateStartingWorkerDispatch, SetWorker, AuthorityEndsWithTheDispatch
  <2> QED BY <2>1, <2>2, <2>3
<1>3. ASSUME NEW x \in Terminals, PrepareStartingWorkerAuthority(d, x)
      PROVE  AbsentRowsAreEmpty' /\ OneActiveDispatchPerTerminal' /\ AuthorityEndsWithTheDispatch'
  <2>1. AbsentRowsAreEmpty'
    BY <1>3 DEF PrepareStartingWorkerAuthority
  <2>2. OneActiveDispatchPerTerminal'
    BY <1>3 DEF PrepareStartingWorkerAuthority, OneActiveDispatchPerTerminal
  <2>3. AuthorityEndsWithTheDispatch'
    BY <1>3 DEF PrepareStartingWorkerAuthority, workerVars, AuthorityEndsWithTheDispatch
  <2> QED BY <2>1, <2>2, <2>3
<1> HIDE DEF AbsentRowsAreEmpty, AuthorityInvariant, TypeOK
<1>4. CASE \E t \in Tasks, x \in Terminals, inject \in BOOLEAN :
             CreateDispatchContext(d, t, x, inject)
  BY <1>1, <1>4
<1>5. CASE \E t \in Tasks, remote \in BOOLEAN : CreateStartingWorkerDispatch(d, t, remote)
  BY <1>2, <1>5
<1>6. CASE \E x \in Terminals : PrepareStartingWorkerAuthority(d, x)
  BY <1>3, <1>6
<1> QED BY <1>4, <1>5, <1>6

\* Every transaction keeps the invariant.
LEMMA TerminalStep == AuthorityInvariant /\ [Next]_vars => AuthorityInvariant'
<1> SUFFICES ASSUME AuthorityInvariant, [Next]_vars PROVE AuthorityInvariant'
  OBVIOUS
<1>1. LifecycleInvariant' /\ TypeOK'
  BY InvariantStep DEF AuthorityInvariant, LifecycleInvariant
<1>2. ASSUME NobodySeated, NothingMinted, AuthorityEndsWithTheDispatch'
      PROVE  AuthorityInvariant'
  <2>1. AbsentRowsAreEmpty'
    BY <1>1, <1>2 DEF NobodySeated, NothingMinted, AuthorityInvariant, AbsentRowsAreEmpty,
       LifecycleInvariant, TypeOK, AuthorityEndsWithTheDispatch
  <2> QED BY <1>1, <1>2, <2>1, SeatsKept DEF AuthorityInvariant
<1>3. CASE \E d \in DispatchIds, x \in Terminals : PrepareStartingWorkerAuthority(d, x)
  BY <1>1, <1>3, SeatingStep DEF AuthorityInvariant
<1>4. CASE ClaimNext
  BY <1>1, <1>4, SeatingStep DEF ClaimNext, AuthorityInvariant
<1>5. CASE StartNext /\ ~ \E d \in DispatchIds, x \in Terminals : PrepareStartingWorkerAuthority(d, x)
  BY <1>1, <1>2, <1>5, StartAuthority
<1>6. CASE QuestionNext \/ Restart \/ UNCHANGED vars
  BY <1>2, <1>6 DEF QuestionNext, CreateQuestion, RegisterFederatedQuestion, OpenQuestion,
     AnswerQuestion, Restart, vars, dispatchVars, workerVars, NobodySeated, NothingMinted, Active,
     AuthorityInvariant, AuthorityEndsWithTheDispatch
<1>7. CASE TaskNext \/ (\E g \in Gates : ResolveGate(g))
  BY <1>1, <1>2, <1>7, TaskAuthority
<1>8. CASE SettleNext \/ StopNext \/ FederatedNext
  BY <1>1, <1>2, <1>8, SettleAuthority, StopAuthority, FederatedAuthority
<1> QED BY <1>3, <1>4, <1>5, <1>6, <1>7, <1>8 DEF Next

\* The invariant holds in every reachable state.
LEMMA TerminalInvariantHolds == Spec => []AuthorityInvariant
<1>1. Init /\ LifecycleInvariant => AuthorityInvariant
  BY DEF Init, AuthorityInvariant, AbsentRowsAreEmpty, OneActiveDispatchPerTerminal,
     AuthorityEndsWithTheDispatch
<1> QED BY <1>1, TerminalStep, InvariantHolds, PTL DEF Spec

\* No agent terminal is handed two dispatches at once, by a claim or by a worker start.
THEOREM OneActivePerTerminal == Spec => []OneActiveDispatchPerTerminal
<1>1. AuthorityInvariant => OneActiveDispatchPerTerminal BY DEF AuthorityInvariant
<1> QED BY <1>1, TerminalInvariantHolds, PTL

\* A capability is live only while its dispatch is active and nobody stops the worker,
\* except for the worker of a start recorded as a stalled prompt.
THEOREM AuthorityEnds == Spec => []AuthorityEndsWithTheDispatch
<1>1. AuthorityInvariant => AuthorityEndsWithTheDispatch BY DEF AuthorityInvariant
<1> QED BY <1>1, TerminalInvariantHolds, PTL

-----------------------------------------------------------------------------
(* Tasks and questions *)

\* What PromotionIsNeverLost asks of a step.
NothingLeftWaiting ==
    \A t \in Tasks :
        /\ taskStatus[t] = "pending" /\ taskStatus'[t] = "pending"
        /\ \E dep \in taskDeps[t] : taskStatus[dep] # "completed" /\ taskStatus'[dep] = "completed"
        => \E dep \in taskDeps[t] : taskStatus'[dep] # "completed"

\* What CompletedIsReopenedOnlyByHand asks of a step.
ReopensByHand ==
    \A t \in Tasks : taskStatus[t] = "completed" /\ taskStatus'[t] # "completed"
        => UNCHANGED <<dispatchVars, workerVars>>

TasksKept == NothingLeftWaiting /\ ReopensByHand

\* The step completes no task and reopens none.
Quiet == \A t \in Tasks : taskStatus[t] = "completed" <=> taskStatus'[t] = "completed"

\* The agent of d may be waiting for an answer.
MayWait(d) == Active(d) /\ worker[d] \notin {"stopping", "stop_unknown"}

\* A worker attached to a terminal without a capability minted for it.
Unauthorised(d) == worker[d] # "none" /\ assignee[d] # NoTerminal /\ capability[d] = "none"

\* The step opens no question, inserts no row, and closes the questions of every local
\* dispatch it ends or begins to stop.
QuestionsKept ==
    /\ UNCHANGED <<questionDispatch, federated>>
    /\ \A d \in DispatchIds :
         /\ dispatchStatus'[d] = "absent" => dispatchStatus[d] = "absent"
         /\ Unauthorised(d)' => Unauthorised(d)
    /\ \A q \in Questions : questionStatus'[q] = "pending" => questionStatus[q] = "pending"
    /\ \A d \in DispatchIds : ~federated[d] /\ MayWait(d) /\ ~MayWait(d)' =>
         \A q \in Questions : questionDispatch[q] = d => questionStatus'[q] # "pending"

\* A question names a row, and the row of a question from a peer stays one of a peer.
QuestionsHaveRows ==
    /\ \A q \in Questions : questionStatus[q] = "pending" => questionDispatch[q] \in DispatchIds
    /\ \A d \in DispatchIds : dispatchStatus[d] = "absent" => ~federated[d]

\* What makes LocalQuestionsAreAnswerable inductive.
QuestionsAnswerable ==
    /\ QuestionsHaveRows
    /\ \A d \in DispatchIds : ~Unauthorised(d)
    /\ LocalQuestionsAreAnswerable

QuestionInvariant == AuthorityInvariant /\ QuestionsAnswerable

\* A step that leaves the completed tasks as they are asks for no promotion.
LEMMA QuietKeepsTasks ==
    ASSUME TypeOK, Quiet
    PROVE  TasksKept
BY DEF TypeOK, Quiet, TasksKept, NothingLeftWaiting, ReopensByHand

\* A verdict completes at most one task and promotes all that were only waiting for it.
LEMMA ConcludedPromotes ==
    ASSUME TypeOK, NEW t \in Tasks, NEW verdict \in {"completed", "failed"},
           taskStatus' = Concluded(t, verdict)
    PROVE  /\ NothingLeftWaiting
           /\ \A s \in Tasks \ {t} : taskStatus[s] = "completed" => taskStatus'[s] = "completed"
           /\ taskStatus'[t] = verdict
<1> DEFINE marked == [taskStatus EXCEPT ![t] = verdict]
<1>1. /\ \A s \in Tasks \ {t} : marked[s] = taskStatus[s]
      /\ marked[t] = verdict
  BY DEF TypeOK
<1>2. \A s \in Tasks :
        taskStatus'[s] = marked[s] \/ (marked[s] = "pending" /\ taskStatus'[s] = "ready")
  BY DEF Concluded, Promoted, TypeOK
<1>3. ASSUME verdict = "completed", NEW s \in Tasks, t \in taskDeps[s], marked[s] = "pending",
             \A dep \in taskDeps[s] : marked[dep] = "completed"
      PROVE  taskStatus'[s] = "ready"
  BY <1>3 DEF Concluded, Promoted
<1>4. \A s \in Tasks : taskDeps[s] \subseteq Tasks BY DEF TypeOK
<1> HIDE DEF marked
<1>5. ASSUME NEW s \in Tasks, taskStatus[s] = "pending", taskStatus'[s] = "pending",
             NEW dep \in taskDeps[s], taskStatus[dep] # "completed", taskStatus'[dep] = "completed"
      PROVE  \E other \in taskDeps[s] : taskStatus'[other] # "completed"
  <2>1. dep = t /\ verdict = "completed" BY <1>1, <1>2, <1>4, <1>5
  <2>2. marked[s] = "pending" BY <1>1, <1>2, <1>5
  <2>3. PICK other \in taskDeps[s] : marked[other] # "completed"
    BY <1>3, <1>5, <2>1, <2>2
  <2> QED BY <1>2, <1>4, <2>3
<1>6. NothingLeftWaiting BY <1>5 DEF NothingLeftWaiting
<1> QED BY <1>1, <1>2, <1>6

\* A completed task has no active dispatch.
LEMMA CompletedIsIdle ==
    ASSUME LifecycleInvariant, NEW t \in Tasks, taskStatus[t] = "completed"
    PROVE  ActiveOf(t) = {}
BY AloneWhenActive DEF ActiveOf, StatusUnder

\* A start changes no completed task and ends no dispatch that still has a question.
LEMMA StartKeeps ==
    ASSUME QuestionInvariant, TypeOK', StartNext
    PROVE  TasksKept /\ QuestionsKept
<1> USE DEF QuestionInvariant, AuthorityInvariant, LifecycleInvariant, TypeOK, Active, ActiveStatuses
<1>0. \A e \in DispatchIds : RowConsistent(e) BY RowsConsistent
<1>1. ASSUME NEW d \in DispatchIds, NEW x \in Terminals, PrepareStartingWorkerAuthority(d, x)
      PROVE  TasksKept /\ QuestionsKept
  <2>1. Quiet
    BY <1>0, <1>1 DEF PrepareStartingWorkerAuthority, taskVars, rowVars, workerVars,
       questionVars, Quiet
  <2>2. QuestionsKept
    BY <1>0, <1>1 DEF PrepareStartingWorkerAuthority, taskVars, rowVars, workerVars,
       questionVars, RowConsistent, Supervised, SettledStates, QuestionsKept, MayWait, Unauthorised,
       Revoked
  <2> QED BY <2>1, <2>2, QuietKeepsTasks
<1>2. ASSUME NEW d \in DispatchIds, MarkWorkerDispatchReady(d)
      PROVE  TasksKept /\ QuestionsKept
  <2>1. Quiet
    BY <1>0, <1>2 DEF MarkWorkerDispatchReady, SetWorker, taskVars, rowVars, questionVars, Quiet
  <2>2. QuestionsKept
    BY <1>0, <1>2 DEF MarkWorkerDispatchReady, SetWorker, taskVars, rowVars, questionVars,
       RowConsistent, Supervised, SettledStates, QuestionsKept, MayWait, Unauthorised, Revoked
  <2> QED BY <2>1, <2>2, QuietKeepsTasks
<1>3. ASSUME NEW d \in DispatchIds, NEW stalled \in BOOLEAN, FailWorkerStart(d, stalled)
      PROVE  TasksKept /\ QuestionsKept
  <2>1. Quiet
    BY <1>0, <1>3 DEF FailWorkerStart, FailUncounted, CloseQuestions, SetWorker, rowVars, Quiet,
       taskVars
  <2>2. QuestionsKept
    BY <1>0, <1>3 DEF FailWorkerStart, FailUncounted, CloseQuestions, SetWorker, rowVars,
       RowConsistent, Supervised, SettledStates, QuestionsKept, MayWait, Unauthorised, Revoked
  <2> QED BY <2>1, <2>2, QuietKeepsTasks
<1>4. ASSUME NEW d \in DispatchIds, MarkWorkerStartUnknown(d)
      PROVE  TasksKept /\ QuestionsKept
  <2>1. Quiet
    BY <1>0, <1>4 DEF MarkWorkerStartUnknown, SetWorker, dispatchVars, rowVars, questionVars,
       Quiet, taskVars
  <2>2. QuestionsKept
    BY <1>0, <1>4 DEF MarkWorkerStartUnknown, SetWorker, dispatchVars, rowVars, questionVars,
       RowConsistent, Supervised, SettledStates, QuestionsKept, MayWait, Unauthorised, Revoked
  <2> QED BY <2>1, <2>2, QuietKeepsTasks
<1> HIDE DEF QuestionInvariant, AuthorityInvariant, LifecycleInvariant, TypeOK, Active
<1> QED BY <1>1, <1>2, <1>3, <1>4 DEF StartNext

\* A failure, an exit or a recovery leaves completed tasks alone; a report promotes what
\* waited for its task; each closes the questions of what it ends.
LEMMA SettleKeeps ==
    ASSUME QuestionInvariant, TypeOK', SettleNext
    PROVE  TasksKept /\ QuestionsKept
<1> USE DEF QuestionInvariant, AuthorityInvariant, LifecycleInvariant, TypeOK, Active, ActiveStatuses
<1>0. \A e \in DispatchIds : RowConsistent(e) BY RowsConsistent
<1>1. ASSUME NEW d \in DispatchIds, NEW stalled \in BOOLEAN, FailDispatch(d, FALSE, stalled)
      PROVE  TasksKept /\ QuestionsKept
  <2>1. Quiet
    BY <1>0, <1>1 DEF FailDispatch, MayFail, CountFailure, FailedStatus, StatusAfterFailure,
       CloseQuestions, rowVars, Quiet, taskVars
  <2>2. QuestionsKept
    BY <1>0, <1>1 DEF FailDispatch, MayFail, CountFailure, FailedStatus, StatusAfterFailure,
       CloseQuestions, rowVars, RowConsistent, Supervised, SettledStates, QuestionsKept, MayWait,
       Unauthorised, Revoked
  <2> QED BY <2>1, <2>2, QuietKeepsTasks
<1>2. ASSUME NEW d \in DispatchIds, NEW outcome \in {"succeeded", "failed"},
             SettleWorkerReport(d, outcome)
      PROVE  TasksKept /\ QuestionsKept
  <2>1. RowConsistent(d) /\ dispatchTask[d] \in Tasks /\ OtherActive(d) = {}
    BY <1>2, ReportedAlone
  <2>2. taskStatus[dispatchTask[d]] # "completed"
    BY <1>2 DEF SettleWorkerReport, SettledByUnobservedPrompt, ReconnectingStart, ReportingStart,
       ReportingRun
  <2>3. TasksKept
    <3> DEFINE verdict == IF outcome = "succeeded" THEN "completed" ELSE "failed"
    <3>1. taskStatus' = Concluded(dispatchTask[d], verdict) /\ verdict \in {"completed", "failed"}
      BY <1>2 DEF SettleWorkerReport
    <3> HIDE DEF verdict
    <3> QED BY <2>1, <2>2, <3>1, ConcludedPromotes DEF TasksKept, ReopensByHand
  <2>4. QuestionsKept
    BY <1>0, <1>2, <2>1 DEF SettleWorkerReport, SettleDispatches, CloseQuestions, RowConsistent,
       Supervised, SettledStates, QuestionsKept, MayWait, Unauthorised, Revoked, rowVars
  <2> QED BY <2>3, <2>4
<1>3. ASSUME NEW d \in DispatchIds, ProcessExit(d)
      PROVE  TasksKept /\ QuestionsKept
  <2>1. Quiet
    BY <1>0, <1>3 DEF ProcessExit, StopSettled, Interrupted, FailUncounted, SetWorker,
       FailDispatch, MayFail, CountFailure, FailedStatus, StatusAfterFailure, CloseQuestions,
       rowVars, questionVars, Quiet, taskVars
  <2>2. QuestionsKept
    BY <1>0, <1>3 DEF ProcessExit, StopSettled, Interrupted, FailUncounted, SetWorker,
       FailDispatch, MayFail, CountFailure, FailedStatus, StatusAfterFailure, CloseQuestions,
       rowVars, questionVars, RowConsistent, Supervised, SettledStates, QuestionsKept, MayWait,
       Unauthorised, Revoked
  <2> QED BY <2>1, <2>2, QuietKeepsTasks
<1>4. ASSUME NEW d \in DispatchIds, ReconcileMissingWorkerTerminal(d)
      PROVE  TasksKept /\ QuestionsKept
  <2>1. Quiet
    BY <1>0, <1>4 DEF ReconcileMissingWorkerTerminal, CountFailure, FailedStatus,
       StatusAfterFailure, InterruptedThen, SetWorker, CloseQuestions, rowVars, Quiet, taskVars
  <2>2. QuestionsKept
    BY <1>0, <1>4 DEF ReconcileMissingWorkerTerminal, CountFailure, FailedStatus,
       StatusAfterFailure, InterruptedThen, SetWorker, CloseQuestions, rowVars, RowConsistent,
       Supervised, SettledStates, QuestionsKept, MayWait, Unauthorised, Revoked
  <2> QED BY <2>1, <2>2, QuietKeepsTasks
<1> HIDE DEF QuestionInvariant, AuthorityInvariant, LifecycleInvariant, TypeOK, Active
<1> QED BY <1>1, <1>2, <1>3, <1>4 DEF SettleNext

\* A stop or an abandon leaves completed tasks alone and closes the questions first.
LEMMA StopKeeps ==
    ASSUME QuestionInvariant, TypeOK', StopNext
    PROVE  TasksKept /\ QuestionsKept
<1> USE DEF QuestionInvariant, AuthorityInvariant, LifecycleInvariant, TypeOK, Active, ActiveStatuses
<1>0. \A e \in DispatchIds : RowConsistent(e) BY RowsConsistent
<1>1. ASSUME NEW d \in DispatchIds, ReleaseContextOnlyDispatch(d)
      PROVE  TasksKept /\ QuestionsKept
  <2>1. Quiet
    BY <1>0, <1>1 DEF ReleaseContextOnlyDispatch, FailUncounted, CloseQuestions, workerVars,
       rowVars, Quiet, taskVars
  <2>2. QuestionsKept
    BY <1>0, <1>1 DEF ReleaseContextOnlyDispatch, FailUncounted, CloseQuestions, workerVars,
       rowVars, RowConsistent, Supervised, SettledStates, QuestionsKept, MayWait, Unauthorised,
       Revoked
  <2> QED BY <2>1, <2>2, QuietKeepsTasks
<1>2. ASSUME NEW d \in DispatchIds, BeginWorkerStop(d)
      PROVE  TasksKept /\ QuestionsKept
  <2>1. Quiet
    BY <1>0, <1>2 DEF BeginWorkerStop, MayStop, Interrupted, SetWorker, CloseQuestions, rowVars,
       Quiet, taskVars
  <2>2. QuestionsKept
    BY <1>0, <1>2 DEF BeginWorkerStop, MayStop, Interrupted, SetWorker, CloseQuestions, rowVars,
       RowConsistent, Supervised, SettledStates, QuestionsKept, MayWait, Unauthorised, Revoked
  <2> QED BY <2>1, <2>2, QuietKeepsTasks
<1>3. ASSUME NEW d \in DispatchIds, SettleWorkerStop(d)
      PROVE  TasksKept /\ QuestionsKept
  <2>1. Quiet
    BY <1>0, <1>3 DEF SettleWorkerStop, StopSettled, Interrupted, FailUncounted, SetWorker,
       rowVars, questionVars, Quiet, taskVars
  <2>2. QuestionsKept
    BY <1>0, <1>3 DEF SettleWorkerStop, StopSettled, Interrupted, FailUncounted, SetWorker,
       rowVars, questionVars, RowConsistent, Supervised, SettledStates, QuestionsKept, MayWait,
       Unauthorised, Revoked
  <2> QED BY <2>1, <2>2, QuietKeepsTasks
<1>4. ASSUME NEW d \in DispatchIds, MarkWorkerStopUnknown(d)
      PROVE  TasksKept /\ QuestionsKept
  <2>1. Quiet
    BY <1>0, <1>4 DEF MarkWorkerStopUnknown, SetWorker, dispatchVars, taskVars, rowVars,
       questionVars, Quiet
  <2>2. QuestionsKept
    BY <1>0, <1>4 DEF MarkWorkerStopUnknown, SetWorker, dispatchVars, taskVars, rowVars,
       questionVars, RowConsistent, Supervised, SettledStates, QuestionsKept, MayWait, Unauthorised,
       Revoked
  <2> QED BY <2>1, <2>2, QuietKeepsTasks
<1>5. ASSUME NEW d \in DispatchIds, AbandonWorkerDispatch(d)
      PROVE  TasksKept /\ QuestionsKept
  <2>1. Quiet
    BY <1>0, <1>5 DEF AbandonWorkerDispatch, Interrupted, FailUncounted, SetWorker,
       CloseQuestions, rowVars, Quiet, taskVars
  <2>2. QuestionsKept
    BY <1>0, <1>5 DEF AbandonWorkerDispatch, Interrupted, FailUncounted, SetWorker,
       CloseQuestions, rowVars, RowConsistent, Supervised, SettledStates, QuestionsKept, MayWait,
       Unauthorised, Revoked
  <2> QED BY <2>1, <2>2, QuietKeepsTasks
<1> HIDE DEF QuestionInvariant, AuthorityInvariant, LifecycleInvariant, TypeOK, Active
<1> QED BY <1>1, <1>2, <1>3, <1>4, <1>5 DEF StopNext

\* What the home learns of a worker on a peer leaves completed tasks and the questions of
\* local workers alone.
LEMMA FederatedKeeps ==
    ASSUME QuestionInvariant, TypeOK', FederatedNext
    PROVE  TasksKept /\ QuestionsKept
<1> USE DEF QuestionInvariant, AuthorityInvariant, LifecycleInvariant, TypeOK, Active, ActiveStatuses
<1>0. \A e \in DispatchIds : RowConsistent(e) BY RowsConsistent
<1>1. ASSUME NEW d \in DispatchIds, ReconcileFederatedReady(d)
      PROVE  TasksKept /\ QuestionsKept
  <2>1. Quiet
    BY <1>0, <1>1 DEF ReconcileFederatedReady, Resumed, SetWorker, rowVars, questionVars, Quiet,
       taskVars
  <2>2. QuestionsKept
    BY <1>0, <1>1 DEF ReconcileFederatedReady, Resumed, SetWorker, rowVars, questionVars,
       RowConsistent, Supervised, SettledStates, QuestionsKept, MayWait, Unauthorised, Revoked
  <2> QED BY <2>1, <2>2, QuietKeepsTasks
<1>2. ASSUME NEW d \in DispatchIds, ReconcileFederatedStartUnknown(d)
      PROVE  TasksKept /\ QuestionsKept
  <2>1. Quiet
    BY <1>0, <1>2 DEF ReconcileFederatedStartUnknown, SetWorker, dispatchVars, rowVars,
       questionVars, Quiet, taskVars
  <2>2. QuestionsKept
    BY <1>0, <1>2 DEF ReconcileFederatedStartUnknown, SetWorker, dispatchVars, rowVars,
       questionVars, RowConsistent, Supervised, SettledStates, QuestionsKept, MayWait, Unauthorised,
       Revoked
  <2> QED BY <2>1, <2>2, QuietKeepsTasks
<1>3. ASSUME NEW d \in DispatchIds, NEW state \in {"failed", "stopped"}, NEW stalled \in BOOLEAN,
             ReconcileFederatedEnd(d, state, stalled)
      PROVE  TasksKept /\ QuestionsKept
  <2>1. Quiet
    BY <1>0, <1>3 DEF ReconcileFederatedEnd, InterruptedThen, FailUncounted, SetWorker,
       CloseQuestions, rowVars, Quiet, taskVars
  <2>2. QuestionsKept
    BY <1>0, <1>3 DEF ReconcileFederatedEnd, InterruptedThen, FailUncounted, SetWorker,
       CloseQuestions, rowVars, RowConsistent, Supervised, SettledStates, QuestionsKept, MayWait,
       Unauthorised, Revoked
  <2> QED BY <2>1, <2>2, QuietKeepsTasks
<1>4. ASSUME NEW d \in DispatchIds, ReconcileFederatedWorkerStop(d)
      PROVE  TasksKept /\ QuestionsKept
  <2>1. Quiet
    BY <1>0, <1>4 DEF ReconcileFederatedWorkerStop, StopSettled, Interrupted, FailUncounted,
       SetWorker, rowVars, questionVars, Quiet, taskVars
  <2>2. QuestionsKept
    BY <1>0, <1>4 DEF ReconcileFederatedWorkerStop, StopSettled, Interrupted, FailUncounted,
       SetWorker, rowVars, questionVars, RowConsistent, Supervised, SettledStates, QuestionsKept,
       MayWait, Unauthorised, Revoked
  <2> QED BY <2>1, <2>2, QuietKeepsTasks
<1>5. ASSUME NEW d \in DispatchIds, ResumeFederatedWorkerForTerminalRelay(d)
      PROVE  TasksKept /\ QuestionsKept
  <2>1. Quiet
    BY <1>0, <1>5 DEF ResumeFederatedWorkerForTerminalRelay, Resumed, SetWorker, dispatchVars,
       rowVars, questionVars, Quiet, taskVars
  <2>2. QuestionsKept
    BY <1>0, <1>5 DEF ResumeFederatedWorkerForTerminalRelay, Resumed, SetWorker, dispatchVars,
       rowVars, questionVars, RowConsistent, Supervised, SettledStates, QuestionsKept, MayWait,
       Unauthorised, Revoked
  <2> QED BY <2>1, <2>2, QuietKeepsTasks
<1> HIDE DEF QuestionInvariant, AuthorityInvariant, LifecycleInvariant, TypeOK, Active
<1> QED BY <1>1, <1>2, <1>3, <1>4, <1>5 DEF FederatedNext

\* A task update or a gate reopens a completed task only where no dispatch is left to settle,
\* and closes the questions of each dispatch it settles.
LEMMA HandKeeps ==
    ASSUME QuestionInvariant, TypeOK', TaskNext \/ \E g \in Gates : ResolveGate(g)
    PROVE  TasksKept /\ QuestionsKept
<1> USE DEF QuestionInvariant, AuthorityInvariant, LifecycleInvariant, TypeOK
<1>1. ASSUME NEW t \in Tasks, NEW deps \in SUBSET (Tasks \ {t}), CreateTask(t, deps)
      PROVE  TasksKept /\ QuestionsKept
  <2>1. Quiet BY <1>1 DEF CreateTask, Quiet
  <2>2. QuestionsKept
    BY <1>1 DEF CreateTask, dispatchVars, workerVars, rowVars, questionVars, QuestionsKept, MayWait,
       Unauthorised, Active
  <2> QED BY <2>1, <2>2, QuietKeepsTasks
<1>2. ASSUME NEW t \in Tasks, NEW verdict \in {"completed", "failed"},
             SettleDispatches(ActiveOf(t), verdict), UNCHANGED <<rowVars, assignee, workerVars>>
      PROVE  QuestionsKept
  BY <1>2 DEF SettleDispatches, CloseQuestions, ActiveOf, Active, ActiveStatuses, rowVars,
     workerVars, QuestionsKept, MayWait,
       Unauthorised, Revoked
<1>3. ASSUME NEW t \in Tasks, taskStatus[t] = "completed", NEW verdict,
             SettleDispatches(ActiveOf(t), verdict),
             UNCHANGED <<failureCount, promptStalled, assignee, workerVars>>
      PROVE  UNCHANGED <<dispatchVars, workerVars>>
  <2>1. ActiveOf(t) = {} BY <1>3, CompletedIsIdle
  <2>2. dispatchStatus' = dispatchStatus /\ capability' = capability
    BY <1>3, <2>1 DEF SettleDispatches, Revoked
  <2>3. UNCHANGED <<failureCount, promptStalled, assignee, worker, workerEpoch>>
    BY <1>3 DEF workerVars
  <2> QED BY <2>2, <2>3 DEF dispatchVars, workerVars
<1>4. ASSUME NEW t \in Tasks, NEW status \in TaskStatuses, UpdateTask(t, status)
      PROVE  TasksKept /\ QuestionsKept
  <2>1. CASE status \in {"completed", "failed"}
    <3>1. QuestionsKept BY <1>2, <1>4, <2>1 DEF UpdateTask
    <3>2. taskStatus' = Concluded(t, status) BY <1>4, <2>1 DEF UpdateTask
    <3>3. taskStatus[t] = "completed" => UNCHANGED <<dispatchVars, workerVars>>
      BY <1>3, <1>4, <2>1 DEF UpdateTask
    <3>4. NothingLeftWaiting /\ ReopensByHand
      BY <2>1, <3>2, <3>3, ConcludedPromotes DEF ReopensByHand
    <3> QED BY <3>1, <3>4 DEF TasksKept
  <2>2. CASE status \notin {"completed", "failed"}
    <3>1. /\ taskStatus' = [taskStatus EXCEPT ![t] = status]
          /\ UNCHANGED <<dispatchVars, workerVars, rowVars, questionVars>>
      BY <1>4, <2>2 DEF UpdateTask, dispatchVars
    <3>2. QuestionsKept
      BY <3>1 DEF dispatchVars, workerVars, rowVars, questionVars, QuestionsKept, MayWait,
       Unauthorised, Revoked, Active
    <3>3. NothingLeftWaiting
      BY <2>2, <3>1 DEF NothingLeftWaiting
    <3> QED BY <3>1, <3>2, <3>3 DEF TasksKept, ReopensByHand
  <2> QED BY <2>1, <2>2
<1>5. ASSUME NEW t \in Tasks, NEW g \in Gates, CreateGate(g, t)
      PROVE  TasksKept /\ QuestionsKept
  <2>1. QuestionsKept BY <1>2, <1>5 DEF CreateGate
  <2>2. NothingLeftWaiting BY <1>5 DEF CreateGate, NothingLeftWaiting
  <2>3. taskStatus[t] = "completed" => UNCHANGED <<dispatchVars, workerVars>>
    BY <1>3, <1>5 DEF CreateGate
  <2>4. ReopensByHand
    BY <1>5, <2>3 DEF CreateGate, ReopensByHand
  <2> QED BY <2>1, <2>2, <2>4 DEF TasksKept
<1>6. "ready" \in TaskStatuses BY DEF TaskStatuses
<1>7. ASSUME NEW g \in Gates, ResolveGate(g) PROVE TasksKept /\ QuestionsKept
  <2>1. gateTask[g] \in Tasks BY <1>7 DEF ResolveGate
  <2> QED BY <1>4, <1>6, <1>7, <2>1 DEF ResolveGate
<1> HIDE DEF QuestionInvariant, AuthorityInvariant, LifecycleInvariant, TypeOK
<1> QED BY <1>1, <1>4, <1>5, <1>7, Zenon DEF TaskNext, TaskUpdate

\* A claim or a start of a worker touches no completed task and no row with a question.
LEMMA ClaimKeeps ==
    ASSUME QuestionInvariant, TypeOK', ClaimNext
    PROVE  TasksKept /\ QuestionsAnswerable'
<1> USE DEF QuestionInvariant, AuthorityInvariant, AbsentRowsAreEmpty, LifecycleInvariant, TypeOK,
        QuestionsAnswerable, QuestionsHaveRows, IsNextRow
<1>1. ASSUME NEW d \in DispatchIds, NEW t \in Tasks, NEW x \in Terminals, NEW inject \in BOOLEAN,
             CreateDispatchContext(d, t, x, inject)
      PROVE  TasksKept /\ QuestionsAnswerable'
  <2>1. Quiet BY <1>1 DEF CreateDispatchContext, Quiet
  <2>2. QuestionsHaveRows' BY <1>1 DEF CreateDispatchContext, questionVars
  <2>3. worker[d] = "none" BY <1>1, RowsConsistent DEF CreateDispatchContext, RowConsistent
  <2>4. \A e \in DispatchIds : ~Unauthorised(e)'
    BY <1>1, <2>3 DEF CreateDispatchContext, workerVars, Unauthorised
  <2>5. \A q \in Questions : questionStatus[q] = "pending" => questionDispatch[q] # d
    BY <1>1 DEF CreateDispatchContext, LocalQuestionsAreAnswerable, Active, ActiveStatuses
  <2>6. LocalQuestionsAreAnswerable'
    BY <1>1, <2>5 DEF CreateDispatchContext, questionVars, workerVars, Active,
       LocalQuestionsAreAnswerable
  <2> QED BY <2>1, <2>2, <2>4, <2>6, QuietKeepsTasks
<1>2. ASSUME NEW d \in DispatchIds, NEW t \in Tasks, NEW remote \in BOOLEAN,
             CreateStartingWorkerDispatch(d, t, remote)
      PROVE  TasksKept /\ QuestionsAnswerable'
  <2>1. Quiet BY <1>2 DEF CreateStartingWorkerDispatch, MayRetry, Quiet
  <2>2. QuestionsHaveRows' BY <1>2 DEF CreateStartingWorkerDispatch, questionVars
  <2>3. \A e \in DispatchIds : ~Unauthorised(e)'
    BY <1>2 DEF CreateStartingWorkerDispatch, SetWorker, Unauthorised
  <2>4. \A q \in Questions : questionStatus[q] = "pending" => questionDispatch[q] # d
    BY <1>2 DEF CreateStartingWorkerDispatch, LocalQuestionsAreAnswerable, Active, ActiveStatuses
  <2>5. LocalQuestionsAreAnswerable'
    BY <1>2, <2>4 DEF CreateStartingWorkerDispatch, SetWorker, questionVars, Active,
       LocalQuestionsAreAnswerable
  <2> QED BY <2>1, <2>2, <2>3, <2>5, QuietKeepsTasks
<1> HIDE DEF QuestionInvariant, AuthorityInvariant, LifecycleInvariant, TypeOK,
        QuestionsAnswerable, QuestionsHaveRows
<1> QED BY <1>1, <1>2 DEF ClaimNext

\* A local agent that may ask is attached, so its capability was minted, and a stop would have
\* revoked it.
LEMMA WhoMayAsk ==
    ASSUME QuestionInvariant, NEW d \in DispatchIds, Active(d), assignee[d] # NoTerminal,
           capability[d] # "revoked"
    PROVE  MayWait(d)
<1>1. worker[d] = "none" \/ capability[d] = "live"
  BY DEF QuestionInvariant, QuestionsAnswerable, Unauthorised, AuthorityInvariant,
     LifecycleInvariant, TypeOK
<1>2. capability[d] = "live" => MayWait(d)
  BY DEF QuestionInvariant, AuthorityInvariant, AuthorityEndsWithTheDispatch, MayWait, Active,
     ActiveStatuses
<1> QED BY <1>1, <1>2 DEF MayWait

\* A question is opened only for an agent that may wait, or for a dispatch of a peer.
LEMMA AskKeeps ==
    ASSUME QuestionInvariant, TypeOK', QuestionNext \/ Restart \/ UNCHANGED vars
    PROVE  TasksKept /\ QuestionsAnswerable'
<1> USE DEF QuestionsAnswerable, QuestionsHaveRows
<1>1. UNCHANGED <<taskVars, rowVars, dispatchVars, workerVars>>
  BY DEF QuestionNext, CreateQuestion, RegisterFederatedQuestion, OpenQuestion, AnswerQuestion,
     Restart, vars
<1>2. TasksKept
  BY <1>1, QuietKeepsTasks DEF Quiet, taskVars, QuestionInvariant, AuthorityInvariant,
     LifecycleInvariant
<1>3. \A e \in DispatchIds :
        /\ Unauthorised(e)' <=> Unauthorised(e)
        /\ MayWait(e)' <=> MayWait(e)
        /\ federated'[e] = federated[e]
        /\ dispatchStatus'[e] = dispatchStatus[e]
  BY <1>1 DEF Unauthorised, MayWait, Active, rowVars, dispatchVars, workerVars
<1>4. \A q \in Questions : questionStatus'[q] = "pending" =>
        \/ questionStatus[q] = "pending" /\ questionDispatch'[q] = questionDispatch[q]
        \/ /\ questionDispatch'[q] \in DispatchIds
           /\ federated[questionDispatch'[q]] \/ MayWait(questionDispatch'[q])
  <2>1. ASSUME NEW q \in Questions, NEW d \in DispatchIds, OpenQuestion(q, d),
               federated[d] \/ MayWait(d), NEW p \in Questions, questionStatus'[p] = "pending"
        PROVE  \/ questionStatus[p] = "pending" /\ questionDispatch'[p] = questionDispatch[p]
               \/ /\ questionDispatch'[p] \in DispatchIds
                  /\ federated[questionDispatch'[p]] \/ MayWait(questionDispatch'[p])
    <3>1. CASE p = q
      BY <2>1, <3>1 DEF OpenQuestion, QuestionInvariant, AuthorityInvariant, LifecycleInvariant,
         TypeOK
    <3>2. CASE p # q
      BY <2>1, <3>2 DEF OpenQuestion, QuestionInvariant, AuthorityInvariant, LifecycleInvariant,
         TypeOK
    <3> QED BY <3>1, <3>2
  <2>2. CASE \E q \in Questions, d \in DispatchIds : CreateQuestion(q, d)
    BY <2>1, <2>2, WhoMayAsk DEF CreateQuestion
  <2>3. CASE \E q \in Questions, d \in DispatchIds : RegisterFederatedQuestion(q, d)
    BY <2>1, <2>3 DEF RegisterFederatedQuestion
  <2>4. CASE \E q \in Questions : AnswerQuestion(q)
    BY <2>4 DEF AnswerQuestion, QuestionInvariant, AuthorityInvariant, LifecycleInvariant, TypeOK
  <2>5. CASE Restart \/ UNCHANGED vars
    BY <2>5 DEF Restart, vars, questionVars
  <2> QED BY <2>2, <2>3, <2>4, <2>5 DEF QuestionNext
<1>5. QuestionsHaveRows' BY <1>3, <1>4 DEF QuestionInvariant
<1>6. \A e \in DispatchIds : ~Unauthorised(e)' BY <1>3 DEF QuestionInvariant
<1>7. LocalQuestionsAreAnswerable'
  <2>1. SUFFICES ASSUME NEW q \in Questions, questionStatus'[q] = "pending",
                        NEW d, d = questionDispatch'[q], ~federated'[d]
                 PROVE  MayWait(d)'
    BY DEF LocalQuestionsAreAnswerable, MayWait, Active
  <2>2. d \in DispatchIds BY <1>4, <2>1, <1>5
  <2>3. ~federated[d] BY <1>3, <2>1, <2>2
  <2>4. MayWait(d)
    <3>1. CASE questionStatus[q] = "pending" /\ d = questionDispatch[q]
      BY <2>3, <3>1 DEF QuestionInvariant, LocalQuestionsAreAnswerable, MayWait
    <3> QED BY <1>4, <2>1, <2>3, <3>1
  <2> QED BY <1>3, <2>2, <2>4
<1> QED BY <1>2, <1>5, <1>6, <1>7

\* Where a step closes the questions of what it ends, nobody is left to wait.
LEMMA KeptIsAnswerable ==
    ASSUME QuestionsAnswerable, QuestionsKept
    PROVE  QuestionsAnswerable'
<1> USE DEF QuestionsAnswerable, QuestionsHaveRows, QuestionsKept
<1>1. QuestionsHaveRows' OBVIOUS
<1>2. \A e \in DispatchIds : ~Unauthorised(e)' OBVIOUS
<1>3. LocalQuestionsAreAnswerable'
  <2>1. SUFFICES ASSUME NEW q \in Questions, questionStatus'[q] = "pending",
                        ~federated'[questionDispatch'[q]]
                 PROVE  MayWait(questionDispatch[q])'
    BY DEF LocalQuestionsAreAnswerable, MayWait, Active
  <2> DEFINE d == questionDispatch[q]
  <2>2. d \in DispatchIds /\ ~federated[d] /\ questionStatus[q] = "pending" BY <2>1
  <2>3. MayWait(d) BY <2>2 DEF LocalQuestionsAreAnswerable, MayWait
  <2> QED BY <2>1, <2>2, <2>3
<1> QED BY <1>1, <1>2, <1>3

\* Every transaction keeps the invariant, loses no promotion and reopens by hand only.
LEMMA EveryStepKeeps ==
    ASSUME QuestionInvariant, [Next]_vars
    PROVE  TasksKept /\ QuestionInvariant'
<1>1. AuthorityInvariant' /\ TypeOK'
  BY TerminalStep DEF QuestionInvariant, AuthorityInvariant, LifecycleInvariant
<1>2. TasksKept /\ QuestionsAnswerable'
  <2>1. CASE StartNext \/ SettleNext \/ StopNext \/ FederatedNext
    BY <1>1, <2>1, StartKeeps, SettleKeeps, StopKeeps, FederatedKeeps, KeptIsAnswerable
       DEF QuestionInvariant
  <2>2. CASE TaskNext \/ \E g \in Gates : ResolveGate(g)
    BY <1>1, <2>2, HandKeeps, KeptIsAnswerable DEF QuestionInvariant
  <2>3. CASE ClaimNext BY <1>1, <2>3, ClaimKeeps
  <2>4. CASE QuestionNext \/ Restart \/ UNCHANGED vars BY <1>1, <2>4, AskKeeps
  <2> QED BY <2>1, <2>2, <2>3, <2>4 DEF Next
<1> QED BY <1>1, <1>2 DEF QuestionInvariant

\* The invariant holds in every reachable state.
LEMMA QuestionInvariantHolds == Spec => []QuestionInvariant
<1>1. Init /\ AuthorityInvariant => QuestionInvariant
  BY DEF Init, QuestionInvariant, QuestionsAnswerable, QuestionsHaveRows, Unauthorised,
     LocalQuestionsAreAnswerable
<1>2. QuestionInvariant /\ [Next]_vars => QuestionInvariant' BY EveryStepKeeps
<1> QED BY <1>1, <1>2, TerminalInvariantHolds, PTL DEF Spec

\* A question asked from a local terminal is pending only while its dispatch is active and
\* not being stopped.
THEOREM QuestionsStayAnswerable == Spec => []LocalQuestionsAreAnswerable
<1>1. QuestionInvariant => LocalQuestionsAreAnswerable
  BY DEF QuestionInvariant, QuestionsAnswerable
<1> QED BY <1>1, QuestionInvariantHolds, PTL

\* Every path that completes a task promotes each pending task it was the last open
\* dependency of.
THEOREM PromotionsReach == Spec => PromotionIsNeverLost
<1>1. QuestionInvariant /\ [Next]_vars
        => [\A t \in Tasks :
              /\ taskStatus[t] = "pending" /\ taskStatus'[t] = "pending"
              /\ \E dep \in taskDeps[t] :
                   taskStatus[dep] # "completed" /\ taskStatus'[dep] = "completed"
              => \E dep \in taskDeps[t] : taskStatus'[dep] # "completed"]_vars
  BY EveryStepKeeps DEF TasksKept, NothingLeftWaiting
<1> QED BY <1>1, QuestionInvariantHolds, PTL DEF Spec, PromotionIsNeverLost

\* No failure, exit, stop or recovery of a dispatch takes a completed task back.
THEOREM ReopenedByHand == Spec => CompletedIsReopenedOnlyByHand
<1>1. QuestionInvariant /\ [Next]_vars
        => [\A t \in Tasks : taskStatus[t] = "completed" /\ taskStatus'[t] # "completed"
              => UNCHANGED <<dispatchVars, workerVars>>]_vars
  BY EveryStepKeeps DEF TasksKept, ReopensByHand
<1> QED BY <1>1, QuestionInvariantHolds, PTL DEF Spec, CompletedIsReopenedOnlyByHand
=============================================================================
