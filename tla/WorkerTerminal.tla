--------------------------- MODULE WorkerTerminal ---------------------------
(***************************************************************************)
(* Who may close the terminal of a worker: the rows of                     *)
(* worker_terminal_resources, the transactions that change them            *)
(* (orchestration/db/worker-terminal), the handlers of worker-start,       *)
(* worker-stop, worker-release and worker-retain between their awaits, and *)
(* the recovery that finishes releases after a restart.                    *)
(*                                                                         *)
(* A terminal is a pane in which processes run one after another; the pane *)
(* key and the process incarnation of the code are the two parts of a      *)
(* process here.  The states of a worker are those of worker_dispatches    *)
(* that matter: "starting" (custody of a created terminal, no authority),  *)
(* "running", "stopping", "stop_unknown", "reported" (succeeded, failed)   *)
(* and "ended" (stopped, abandoned).                                       *)
(***************************************************************************)
EXTENDS Naturals, FiniteSets

CONSTANTS
    Dispatches,    \* local dispatches with a worker
    Panes,
    MaxProcesses,  \* bound: processes a pane sees
    MaxMishaps,    \* bound: restarts, lost contacts and calls without an answer
    Null

ASSUME TerminalAssumption ==
    /\ MaxProcesses \in Nat \ {0} /\ MaxMishaps \in Nat
    /\ Null \notin Dispatches \cup Panes \cup (Panes \X (1 .. MaxProcesses))

Processes == Panes \X (1 .. MaxProcesses)
Resources == Dispatches   \* a resource is known by its origin_dispatch_id

WorkerStates == {"none", "starting", "running", "stopping", "stop_unknown", "reported", "ended"}
ActiveStates == {"starting", "running", "stopping", "stop_unknown"}
SettledStates == {"reported", "ended"}
Ownerships == {"none", "owned", "user_owned", "external", "released"}
ReleaseStates == {"not_requested", "retained", "requested", "releasing", "released", "unknown"}

VARIABLES
    worker,    \* worker_dispatches.state, as above
    attached,  \* dispatch_contexts.assignee_pane_key and process_incarnation
    row,       \* worker_terminal_resources, ownership "none" before the row exists
    archived,  \* dispatches with a row in worker_terminal_archives
    starts,    \* dispatches whose worker-start still waits for the terminal it created
    release,   \* activeReleaseByRuntime: the release of a resource, between its awaits
    stop,      \* activeStopByRuntime: the stop of a dispatch, between its awaits
    recovery,  \* activeReconciliationByRuntime: the pass over requested releases
    found,     \* panes whose terminals the runtime resolves
    unlisted,  \* panes whose host has not been inventoried since contact was lost
    current,   \* the number of the process a pane runs or ran last, 0 before the pane exists
    alive,     \* processes that run
    typed,     \* history: processes the user typed into before their close was issued
    mishaps

dbVars == <<worker, attached, row, archived>>
memVars == <<starts, release, stop, recovery>>
envVars == <<found, unlisted, current, alive, typed, mishaps>>
vars == <<dbVars, memVars, envVars>>

\* A row of worker_terminal_resources; a call that completes a release; a pass over the backlog.
Rows == [owner : Dispatches \cup {Null}, prior : SUBSET Dispatches, process : Processes \cup {Null},
         ownership : Ownerships, release : ReleaseStates, byUser : BOOLEAN, unavailable : BOOLEAN]
Calls == [pc : {"idle", "observing", "checking", "capturing", "closing"},
          by : Dispatches \cup {Null}, recovery : BOOLEAN, exited : BOOLEAN]
Passes == [active : BOOLEAN, rerun : BOOLEAN, todo : SUBSET (Resources \X Dispatches),
           on : Resources \cup {Null}]

NoRow == [owner |-> Null, prior |-> {}, process |-> Null, ownership |-> "none",
          release |-> "not_requested", byUser |-> FALSE, unavailable |-> FALSE]
Idle == [pc |-> "idle", by |-> Null, recovery |-> FALSE, exited |-> FALSE]
NoRecovery == [active |-> FALSE, rerun |-> FALSE, todo |-> {}, on |-> Null]

Init ==
    /\ worker = [d \in Dispatches |-> "none"]
    /\ attached = [d \in Dispatches |-> Null]
    /\ row = [r \in Resources |-> NoRow]
    /\ archived = {}
    /\ starts = {}
    /\ release = [r \in Resources |-> Idle]
    /\ stop = [d \in Dispatches |-> "idle"]
    /\ recovery = NoRecovery
    /\ found = {}
    /\ unlisted = {}
    /\ current = [p \in Panes |-> 0]
    /\ alive = {}
    /\ typed = {}
    /\ mishaps = 0

-----------------------------------------------------------------------------
(* Reading *)

Active(d) == worker[d] \in ActiveStates

\* getWorkerTerminalResourceByOwner
OwnedBy(d) == {r \in Resources : row[r].ownership # "none" /\ row[r].owner = d}

\* The runtime knows the pane, and the process is the one it runs or ran last.
Resolves(q) == q # Null /\ q[1] \in found /\ q[2] = current[q[1]]

\* findActiveDispatchForAssignee finds no other dispatch: the pane has no worker.
TerminalFree(p, d) ==
    \A e \in Dispatches \ {d} : Active(e) /\ attached[e] # Null => attached[e][1] # p

\* Rows that still claim a process.
Claims(q) == {r \in Resources : row[r].process = q /\ row[r].ownership # "released"}

\* workerTerminalResourceHasIdentityConflict
Conflict(r) == Claims(row[r].process) # {r}

\* workerTerminalLeaseIsCurrent
LeaseIsCurrent(d, r) == Resolves(attached[d]) /\ ~Conflict(r)

\* WORKER_TERMINAL_RELEASABLE_ROW_SQL, and decideWorkerTerminalRelease where it proceeds.
Releasable(r) == row[r].ownership = "owned" /\ row[r].release # "released"

InProgress(r) == row[r].release \in {"requested", "releasing", "unknown"}

\* findTransferableWorkerTerminalResource, once it did not throw.
Transferable(q) ==
    {r \in Claims(q) : /\ row[r].ownership = "owned"
                       /\ row[r].release \in {"not_requested", "retained"}
                       /\ worker[row[r].owner] \in SettledStates}

\* listWorkerTerminalReleaseBacklog, with the owner each listed row had.
Backlog ==
    {<<r, row[r].owner>> : r \in {x \in Resources : row[x].release \in {"requested", "releasing"}}}

-----------------------------------------------------------------------------
(* Transactions on one row *)

SetRelease(r, state) == [row EXCEPT ![r].release = state, ![r].byUser = FALSE]

Released(r) == [row EXCEPT ![r].release = "released", ![r].ownership = "released"]

\* settleWorkerTerminalRelease
Settled(r) == IF InProgress(r) THEN Released(r) ELSE row

\* markWorkerTerminalReleaseUnknown and revertWorkerTerminalReleaseToRetained
Uncertain(r) == IF row[r].release \in {"requested", "releasing"} THEN SetRelease(r, "unknown") ELSE row
Reverted(r) == IF row[r].release \in {"requested", "releasing"} THEN SetRelease(r, "retained") ELSE row

\* Mutant: the owner's word is enough although its output can still be captured.
OutputNotNeeded(d, r) == row[r].owner \in archived \/ row[r].owner = d

\* The output is kept, or it can never be: the owner's release did not get that far.
OutputSettled(d, r) ==
    \/ row[r].owner \in archived
    \/ row[r].owner = d /\ row[r].release \in {"not_requested", "retained"}

\* settleDeadWorkerTerminalRelease, asked by d about a process known to be gone.
MaySettleDead(d, r) ==
    LET owner == row[r].owner
    IN  /\ d \in {owner} \cup row[r].prior
        /\ worker[d] \in SettledStates /\ worker[owner] \in SettledStates
        /\ OutputSettled(d, r)
        /\ Releasable(r)

SettledDead(r) ==
    [row EXCEPT ![r].release = "released", ![r].ownership = "released",
                ![r].unavailable = row[r].owner \notin archived]

-----------------------------------------------------------------------------
(* Starting *)

\* Mutant: custody is recorded before the process is known.
CustodyOfPane(d, q) == [NoRow EXCEPT !.owner = d, !.ownership = "owned"]

\* createWorkerTerminalResourceStatement for a terminal orchestration created.
Custody(d, q) == [NoRow EXCEPT !.owner = d, !.process = q, !.ownership = "owned"]

\* A created terminal: its process, and recordCreatedWorkerTerminalCustody before the boot wait.
StartCreated(d, p) ==
    /\ worker[d] = "none" /\ current[p] = 0
    /\ worker' = [worker EXCEPT ![d] = "starting"]
    /\ current' = [current EXCEPT ![p] = 1]
    /\ alive' = alive \cup {<<p, 1>>}
    /\ found' = found \cup {p}
    /\ row' = [row EXCEPT ![d] = Custody(d, <<p, 1>>)]
    /\ starts' = starts \cup {d}
    /\ UNCHANGED <<attached, archived, release, stop, recovery, unlisted, typed, mishaps>>

\* prepareStartingWorkerAuthority after the boot wait of a created terminal.
AttachCreated(d) ==
    LET q == row[d].process
    IN  /\ worker[d] = "starting" /\ d \in starts
        /\ Resolves(q) /\ TerminalFree(q[1], d)
        /\ starts' = starts \ {d}
        /\ worker' = [worker EXCEPT ![d] = "running"]
        /\ attached' = [attached EXCEPT ![d] = q]
        /\ UNCHANGED <<row, archived, release, stop, recovery, envVars>>

\* failWorkerStart, and recordFailedStartDispatchIdentity for a created terminal.
FailStart(d) ==
    /\ worker[d] = "starting" /\ d \in starts
    /\ worker' = [worker EXCEPT ![d] = "reported"]
    /\ attached' = [attached EXCEPT ![d] = row[d].process]
    /\ starts' = starts \ {d}
    /\ UNCHANGED <<row, archived, release, stop, recovery, envVars>>

\* The start ends without an answer about the terminal, or finds its worker settled.
StartUnknown(d) ==
    /\ d \in starts
    /\ starts' = starts \ {d}
    /\ UNCHANGED <<dbVars, release, stop, recovery, envVars>>

\* Mutant: a terminal is reused although its release was requested.
MayReuseAnyway(q) == TRUE

MayReuse(q) == \A r \in Claims(q) : ~InProgress(r)

\* prepareStartingWorkerAuthority with an explicit --terminal: the terminal of a settled worker
\* changes hands with its row, any other stays external.
StartReusing(d, p) ==
    LET q == <<p, current[p]>>
    IN  /\ worker[d] = "none" /\ current[p] > 0
        /\ Resolves(q) /\ TerminalFree(p, d) /\ MayReuse(q)
        /\ worker' = [worker EXCEPT ![d] = "running"]
        /\ attached' = [attached EXCEPT ![d] = q]
        /\ \/ \E r \in Transferable(q) :
                 row' = [row EXCEPT ![r] = [@ EXCEPT !.owner = d,
                            !.prior = row[r].prior \cup {row[r].owner},
                            !.release = "not_requested", !.byUser = FALSE]]
           \/ /\ Transferable(q) = {}
              /\ row' = [row EXCEPT ![d] = [NoRow EXCEPT !.owner = d, !.process = q,
                                                         !.ownership = "external"]]
        /\ UNCHANGED <<archived, memVars, envVars>>

-----------------------------------------------------------------------------
(* The end of a worker *)

\* A report is settled, or the prompt of the start failed.
Report(d) ==
    /\ worker[d] = "running"
    /\ worker' = [worker EXCEPT ![d] = "reported"]
    /\ UNCHANGED <<attached, row, archived, memVars, envVars>>

\* abandonWorkerDispatch
Abandon(d) ==
    /\ worker[d] \in {"starting", "running", "stop_unknown"}
    /\ worker' = [worker EXCEPT ![d] = "ended"]
    /\ UNCHANGED <<attached, row, archived, memVars, envVars>>

\* failActiveDispatchOnExit, for the workers of a process: a stop of this run succeeded, any
\* other active worker failed.
Exited(q) ==
    [d \in Dispatches |->
        IF attached[d] # q \/ ~Active(d) THEN worker[d]
        ELSE IF worker[d] = "stopping" /\ stop[d] # "idle" THEN "ended" ELSE "reported"]

ProcessExit(q) ==
    /\ q \in alive
    /\ alive' = alive \ {q}
    /\ worker' = IF q[1] \in found THEN Exited(q) ELSE worker
    /\ UNCHANGED <<attached, row, archived, memVars, found, unlisted, current, typed, mishaps>>

\* reconcileMissingWorkerTerminal: recovery finds an active worker without its process.
ReconcileMissing(d) ==
    /\ Active(d) /\ attached[d] # Null /\ attached[d] \notin alive
    /\ attached[d][1] \in found
    /\ worker' = [worker EXCEPT ![d] = "ended"]
    /\ UNCHANGED <<attached, row, archived, memVars, envVars>>

-----------------------------------------------------------------------------
(* worker-stop *)

\* beginWorkerStop, also for a stop another run left behind.
BeginStop(d) ==
    /\ \/ worker[d] = "running" \/ (worker[d] = "starting" /\ d \notin starts)
       \/ worker[d] = "stopping" /\ stop[d] = "idle"
    /\ worker' = [worker EXCEPT ![d] = "stopping"]
    /\ stop' = [stop EXCEPT ![d] = "observing"]
    /\ UNCHANGED <<attached, row, archived, starts, release, recovery, envVars>>

\* The exact process is there and the dispatch owns its terminal.
MayClose(d) ==
    /\ Resolves(attached[d]) /\ attached[d] \in alive
    /\ \E r \in OwnedBy(d) : row[r].ownership = "owned"

\* inspectWorkerTerminal answers: the stop is settled by an exit, gives up or issues the close.
StopObserves(d) ==
    /\ stop[d] = "observing"
    /\ \/ /\ worker[d] = "stopping" /\ MayClose(d)
          /\ stop' = [stop EXCEPT ![d] = "closing"]
          /\ UNCHANGED worker
       \/ /\ worker[d] = "stopping" /\ ~MayClose(d)
          /\ stop' = [stop EXCEPT ![d] = "idle"]
          /\ worker' = [worker EXCEPT ![d] = "stop_unknown"]
       \/ /\ worker[d] # "stopping"
          /\ stop' = [stop EXCEPT ![d] = "idle"]
          /\ UNCHANGED worker
    /\ UNCHANGED <<attached, row, archived, starts, release, recovery, envVars>>

\* closeTerminal answers.
StopCloses(d, killed) ==
    /\ stop[d] = "closing"
    /\ stop' = [stop EXCEPT ![d] = "idle"]
    /\ alive' = IF killed THEN alive \ {attached[d]} ELSE alive
    /\ worker' = [worker EXCEPT ![d] =
         IF @ # "stopping" THEN @ ELSE IF killed THEN "ended" ELSE "stop_unknown"]
    /\ UNCHANGED <<attached, row, archived, starts, release, recovery, found, unlisted, current, typed, mishaps>>

-----------------------------------------------------------------------------
(* Asking for a release, retaining, typing *)

\* completeWorkerTerminalRelease: joins the release of the resource, or begins one.
Begun(r, d, mode) ==
    IF release[r].pc # "idle" THEN release
    ELSE [release EXCEPT ![r] = [Idle EXCEPT !.pc = "observing", !.by = d, !.recovery = mode]]

\* requestWorkerTerminalRelease where it records the request.
RequestRelease(d) ==
    \E r \in OwnedBy(d) :
      /\ worker[d] = "reported" /\ Releasable(r)
      /\ archived' = IF row[r].release = "retained" /\ row[r].byUser THEN archived \ {d}
                     ELSE archived
      /\ row' = IF row[r].release = "releasing" THEN row ELSE SetRelease(r, "requested")
      /\ release' = Begun(r, d, FALSE)
      /\ UNCHANGED <<worker, attached, starts, stop, recovery, envVars>>

\* Where it retains instead, the handler asks whether the process is gone.  The answer can only
\* come true, and settleDeadWorkerTerminalRelease reads everything else again: one step.
ReleaseRetained(d) ==
    \E r \in Resources :
      /\ worker[d] \in SettledStates
      /\ row[r].ownership # "none"
      /\ \/ row[r].owner = d /\ (worker[d] = "ended" \/ ~Releasable(r))
         \/ OwnedBy(d) = {} /\ d \in row[r].prior
      /\ row[r].process \notin alive
      /\ MaySettleDead(d, r)
      /\ row' = SettledDead(r)
      /\ UNCHANGED <<worker, attached, archived, memVars, envVars>>

\* retainWorkerTerminalResource
Retain(d) ==
    \E r \in OwnedBy(d) :
      /\ row[r].release \in {"not_requested", "retained", "requested"}
      /\ row' = [row EXCEPT ![r].release = "retained", ![r].byUser = TRUE]
      /\ archived' = archived \ {d}
      /\ UNCHANGED <<worker, attached, memVars, envVars>>

MayTakeOver(r) ==
    /\ row[r].ownership = "owned"
    /\ row[r].release \in {"not_requested", "retained", "requested"}
    /\ worker[row[r].owner] # "stopping"

\* workerTerminalUserInput: markWorkerTerminalUserOwned for every row of the pane.
UserInput(p) ==
    LET q == <<p, current[p]>>
        taken == {r \in Resources :
                    row[r].process # Null /\ row[r].process[1] = p /\ MayTakeOver(r)}
    IN  /\ q \in alive
        /\ row' = [r \in Resources |->
             IF r \in taken
             THEN [row[r] EXCEPT !.ownership = "user_owned", !.release = "retained",
                                 !.byUser = FALSE]
             ELSE row[r]]
        /\ archived' = archived \ {row[r].owner : r \in taken}
        /\ typed' = IF \E r \in Resources : release[r].pc = "closing" /\ row[r].process = q
                    THEN typed ELSE typed \cup {q}
        /\ UNCHANGED <<worker, attached, memVars, found, unlisted, current, alive, mishaps>>

-----------------------------------------------------------------------------
(* completeWorkerTerminalReleaseOnce, between its awaits.  "observing" waits   *)
(* for inspectWorkerTerminal, "checking" for the liveness of the process,      *)
(* "capturing" for the output and "closing" for closeTerminal.                 *)

Mishap == mishaps < MaxMishaps /\ mishaps' = mishaps + 1

To(r, pc) == release' = [release EXCEPT ![r].pc = pc] /\ UNCHANGED recovery

\* The release settles, and with it the call recovery awaits.
Done(r) ==
    /\ release' = [release EXCEPT ![r] = Idle]
    /\ recovery' = IF recovery.on = r THEN [recovery EXCEPT !.on = Null] ELSE recovery

MayCommit(d, r) ==
    /\ row[r].owner = d /\ row[r].ownership = "owned"
    /\ row[r].release = "requested"

\* commitWorkerTerminalArchiveForRelease, and the second look at the lease before the close.
Commit(r, d, exited) ==
    LET commits == MayCommit(d, r)
        releasing == commits \/ (row[r].ownership = "owned" /\ row[r].release = "releasing")
    IN  /\ archived' = IF commits THEN archived \cup {d} ELSE archived
        /\ \/ /\ releasing /\ LeaseIsCurrent(d, r)
              /\ row' = IF commits THEN [row EXCEPT ![r].release = "releasing"] ELSE row
              /\ release' = [release EXCEPT ![r].pc = "closing", ![r].exited = exited]
              /\ UNCHANGED recovery
           \/ /\ releasing /\ ~LeaseIsCurrent(d, r)
              /\ row' = Reverted(r)
              /\ Done(r)
           \/ ~releasing /\ Done(r) /\ UNCHANGED row

\* inspectWorkerTerminal answers.  A process that is gone may still have its terminal.
Observe(r) ==
    LET d == release[r].by
        q == attached[d]
    IN  /\ release[r].pc = "observing"
        /\ \/ /\ Resolves(q) /\ Conflict(r)
              /\ row' = Reverted(r) /\ Done(r) /\ UNCHANGED archived
           \/ /\ Resolves(q) /\ ~Conflict(r) /\ d \notin archived
              /\ release' = [release EXCEPT ![r].pc = "capturing", ![r].exited = q \notin alive]
              /\ UNCHANGED <<row, archived, recovery>>
           \/ /\ Resolves(q) /\ ~Conflict(r) /\ d \in archived
              /\ Commit(r, d, q \notin alive)
           \/ /\ q = Null \/ q \notin alive \/ q[1] \notin found
              /\ To(r, "checking") /\ UNCHANGED <<row, archived>>
           \/ /\ q # Null /\ ~Resolves(q) /\ q[1] \in found
              /\ row' = Reverted(r) /\ Done(r) /\ UNCHANGED archived
        /\ UNCHANGED <<worker, attached, starts, stop, envVars>>

\* inspectTerminalProcessIncarnationLiveness answers "exited", or anything else.
CheckAnswers(r, exited) ==
    LET d == release[r].by
        dead == exited /\ MaySettleDead(d, r)
    IN  /\ release[r].pc = "checking"
        /\ exited => row[r].process \notin alive
        /\ IF ~exited /\ row[r].process \notin alive THEN Mishap ELSE UNCHANGED mishaps
        /\ row' = IF dead THEN SettledDead(r)
                  ELSE IF release[r].recovery THEN row ELSE Uncertain(r)
        /\ Done(r)
        /\ UNCHANGED <<worker, attached, archived, starts, stop, found, unlisted, current, alive, typed>>

\* captureWorkerOutputArchive answers, or throws: then the row keeps its request.
CaptureSettles(r) ==
    /\ release[r].pc = "capturing"
    /\ \/ Commit(r, release[r].by, release[r].exited) /\ UNCHANGED mishaps
       \/ Mishap /\ Done(r) /\ UNCHANGED <<row, archived>>
    /\ UNCHANGED <<worker, attached, starts, stop, found, unlisted, current, alive, typed>>

\* Mutant: a close that finds no terminal counts as an exit.
GoneUnobserved(r) == TRUE

\* The close found nothing to close, and the host had certified the exit.
GoneAsObserved(r) == release[r].exited

\* closeTerminal answers: the process is killed, was gone, could not be reached, or the answer
\* proves nothing.
CloseAnswers(r) ==
    LET q == attached[release[r].by]
    IN  /\ release[r].pc = "closing"
        /\ \/ alive' = alive \ {q} /\ row' = Settled(r) /\ UNCHANGED mishaps
           \/ GoneAsObserved(r) /\ row' = Settled(r) /\ UNCHANGED <<alive, mishaps>>
           \/ Mishap /\ UNCHANGED <<row, alive>>
           \/ row' = Uncertain(r) /\ UNCHANGED <<alive, mishaps>>
        /\ Done(r)
        /\ UNCHANGED <<worker, attached, archived, starts, stop, found, unlisted, current, typed>>

-----------------------------------------------------------------------------
(* reconcileRequestedWorkerTerminalReleases *)

\* Mutant: a pass that runs already is thought to be enough.
NotRerun == IF recovery.active THEN recovery
            ELSE [active |-> TRUE, rerun |-> FALSE, todo |-> Backlog, on |-> Null]

Reconciled ==
    IF recovery.active THEN [recovery EXCEPT !.rerun = TRUE]
    ELSE [active |-> TRUE, rerun |-> FALSE, todo |-> Backlog, on |-> Null]

RecoverItem(r, d) ==
    /\ recovery.active /\ recovery.on = Null /\ <<r, d>> \in recovery.todo
    /\ recovery' = [recovery EXCEPT !.todo = @ \ {<<r, d>>}, !.on = r]
    /\ release' = Begun(r, d, TRUE)
    /\ UNCHANGED <<dbVars, starts, stop, envVars>>

EndPass ==
    /\ recovery.active /\ recovery.on = Null /\ recovery.todo = {}
    /\ recovery' = IF recovery.rerun
                   THEN [active |-> TRUE, rerun |-> FALSE, todo |-> Backlog, on |-> Null]
                   ELSE NoRecovery
    /\ UNCHANGED <<dbVars, starts, release, stop, envVars>>

-----------------------------------------------------------------------------
(* Panes, processes and the runtime *)

\* The user opens a terminal of their own.
OpenTerminal(p) ==
    /\ current[p] = 0
    /\ current' = [current EXCEPT ![p] = 1]
    /\ alive' = alive \cup {<<p, 1>>}
    /\ found' = found \cup {p}
    /\ UNCHANGED <<dbVars, memVars, unlisted, typed, mishaps>>

\* A new process in a pane whose process is gone, and retainReplacedWorkerTerminalResources.
Spawn(p) ==
    LET q == <<p, current[p] + 1>>
    IN  /\ current[p] \in 1 .. (MaxProcesses - 1)
        /\ <<p, current[p]>> \notin alive
        /\ current' = [current EXCEPT ![p] = @ + 1]
        /\ alive' = alive \cup {q}
        /\ found' = found \cup {p}
        /\ row' = [r \in Resources |->
             IF /\ row[r].process # Null /\ row[r].process[1] = p
                /\ row[r].ownership = "owned" /\ row[r].release = "not_requested"
                /\ worker[row[r].owner] \in SettledStates
             THEN [row[r] EXCEPT !.release = "retained", !.byUser = FALSE]
             ELSE row[r]]
        /\ UNCHANGED <<worker, attached, archived, memVars, unlisted, typed, mishaps>>

\* The connection to the host of a pane drops.
LoseContact(p) ==
    /\ Mishap
    /\ p \in found
    /\ found' = found \ {p}
    /\ unlisted' = unlisted \cup {p}
    /\ UNCHANGED <<dbVars, memVars, current, alive, typed>>

\* The host is inventoried: its terminals resolve, and requested releases are finished.
Discover(p) ==
    /\ p \in unlisted
    /\ unlisted' = unlisted \ {p}
    /\ found' = found \cup {p}
    /\ recovery' = Reconciled
    /\ UNCHANGED <<dbVars, starts, release, stop, current, alive, typed, mishaps>>

\* The runtime crashes and starts again; the processes of a daemon or a remote host survive.
Restart ==
    /\ Mishap
    /\ starts' = {}
    /\ release' = [r \in Resources |-> Idle]
    /\ stop' = [d \in Dispatches |-> "idle"]
    /\ recovery' = NoRecovery
    /\ found' = {}
    /\ unlisted' = {p \in Panes : current[p] > 0}
    /\ alive' \in SUBSET alive
    /\ UNCHANGED <<dbVars, current, typed>>

Next ==
    \/ \E d \in Dispatches, p \in Panes : StartCreated(d, p) \/ StartReusing(d, p)
    \/ \E d \in Dispatches :
         \/ AttachCreated(d) \/ FailStart(d) \/ StartUnknown(d) \/ Report(d) \/ Abandon(d) \/ ReconcileMissing(d)
         \/ BeginStop(d) \/ StopObserves(d) \/ \E killed \in BOOLEAN : StopCloses(d, killed)
         \/ RequestRelease(d) \/ ReleaseRetained(d) \/ Retain(d)
    \/ \E r \in Resources :
         \/ Observe(r) \/ \E exited \in BOOLEAN : CheckAnswers(r, exited)
         \/ CaptureSettles(r) \/ CloseAnswers(r)
         \/ \E d \in Dispatches : RecoverItem(r, d)
    \/ EndPass
    \/ \E p \in Panes : UserInput(p) \/ OpenTerminal(p) \/ Spawn(p) \/ LoseContact(p) \/ Discover(p)
    \/ \E q \in Processes : ProcessExit(q)
    \/ Restart

Spec == Init /\ [][Next]_vars

\* The calls a release awaits end in an answer or a time-out, the loop of recovery goes on, and a
\* host is inventoried after contact was lost.
Fairness ==
    /\ \A r \in Resources :
         /\ WF_vars(Observe(r))
         /\ WF_vars(\E exited \in BOOLEAN : CheckAnswers(r, exited))
         /\ WF_vars(CaptureSettles(r))
         /\ WF_vars(CloseAnswers(r))
         /\ \A d \in Dispatches : WF_vars(RecoverItem(r, d))
    /\ WF_vars(EndPass)
    /\ \A p \in Panes : WF_vars(Discover(p))

FairSpec == Spec /\ Fairness

-----------------------------------------------------------------------------
(* Properties *)

\* Type invariant of the rows, of the calls in flight and of the panes (the columns of
\* worker_terminal_resources and the three maps of calls by runtime).
TerminalTypeOK ==
    /\ worker \in [Dispatches -> WorkerStates]
    /\ attached \in [Dispatches -> Processes \cup {Null}]
    /\ row \in [Resources -> Rows]
    /\ \A r \in Resources :
         row[r].ownership # "none" => row[r].owner # Null /\ row[r].process # Null
    /\ archived \subseteq Dispatches /\ starts \subseteq Dispatches
    /\ release \in [Resources -> Calls]
    /\ stop \in [Dispatches -> {"idle", "observing", "closing"}]
    /\ recovery \in Passes
    /\ found \subseteq Panes /\ unlisted \subseteq Panes
    /\ current \in [Panes -> 0 .. MaxProcesses]
    /\ alive \subseteq Processes /\ typed \subseteq Processes
    /\ mishaps \in 0 .. MaxMishaps

\* While a close is on its way to a process that runs, orchestration owns the terminal and no
\* other worker uses it: a release closes the terminal of a reported worker whose output is kept,
\* a stop that of the worker being stopped (worker-release-completion.ts:226, worker-stop.ts:170).
ClosesOnlyItsOwn ==
    /\ \A r \in Resources :
         LET q == attached[release[r].by]
         IN  release[r].pc = "closing" /\ q \in alive =>
               /\ row[r].ownership = "owned" /\ row[r].release = "releasing"
               /\ row[r].process = q
               /\ worker[row[r].owner] = "reported" /\ row[r].owner \in archived
               /\ \A e \in Dispatches : attached[e] = q => ~Active(e)
    /\ \A d \in Dispatches :
         stop[d] = "closing" /\ attached[d] \in alive =>
           /\ \E r \in OwnedBy(d) : row[r].ownership = "owned" /\ row[r].process = attached[d]
           /\ \A e \in Dispatches \ {d} : attached[e] = attached[d] => ~Active(e)

\* A terminal that is recorded as released has no process left
\* (worker-release-completion.ts:281, worker-terminal-release.ts:126).
ReleasedIsGone ==
    \A r \in Resources : row[r].release = "released" => row[r].process \notin alive

\* The owner of a terminal and those who had it before.
Parties(r) == {row[r].owner} \cup row[r].prior

\* What a row says of its owners, of their workers and of its process.
RowIsSound(r) ==
    IF row[r].ownership = "none" THEN row[r] = NoRow
    ELSE /\ worker[row[r].owner] # "none"
         /\ \A d \in row[r].prior : worker[d] \in SettledStates
         /\ row[r].process[2] <= current[row[r].process[1]]
         /\ \A d \in Parties(r) : attached[d] \in {Null, row[r].process}
         /\ row[r].release = "released" <=> row[r].ownership = "released"
         /\ row[r].release = "released" =>
              worker[row[r].owner] \in SettledStates /\ row[r].process \notin alive
         /\ InProgress(r) => row[r].ownership = "owned" /\ worker[row[r].owner] = "reported"
         /\ row[r].release = "releasing" => row[r].owner \in archived

\* A dispatch owns one terminal at most.
OwnersAreUnique ==
    \A r, s \in Resources :
        row[r].ownership # "none" /\ row[s].ownership # "none" /\ row[r].owner = row[s].owner => r = s

\* A worker that is not settled owns a terminal, from the custody of a created one on.
WorkerIsSound(d) ==
    /\ worker[d] = "none" => row[d] = NoRow /\ attached[d] = Null /\ d \notin starts
    /\ d \in starts /\ worker[d] = "starting" => attached[d] = Null
    /\ worker[d] = "starting" => row[d].owner = d
    /\ attached[d] # Null => attached[d][2] <= current[attached[d][1]]
    /\ Active(d) => \E r \in OwnedBy(d) : row[r].ownership # "released"

\* Two workers that are not settled never share a pane.
PanesAreUnique ==
    \A d, e \in Dispatches :
        /\ Active(d) /\ attached[d] # Null
        /\ Active(e) /\ attached[e] # Null
        /\ attached[d][1] = attached[e][1]
        => d = e

\* A release in flight acts for a settled party of the terminal; from the close on nobody else
\* claims the process.
ReleaseIsSound(r) ==
    LET d == release[r].by
    IN  release[r].pc # "idle" =>
          /\ row[r].ownership # "none" /\ d \in Parties(r) /\ worker[d] \in SettledStates
          /\ release[r].pc \in {"capturing", "closing"} =>
               /\ attached[d] = row[r].process
               /\ release[r].exited => attached[d] \notin alive
          /\ release[r].pc = "closing" =>
               /\ row[r].release \in {"releasing", "released"}
               /\ row[r].release = "releasing" => Claims(row[r].process) = {r}

BacklogIsSound ==
    \A r \in Resources, d \in Dispatches :
        <<r, d>> \in recovery.todo =>
            row[r].ownership # "none" /\ d \in Parties(r) /\ worker[d] \in SettledStates

\* While the close of a stop is on its way to a process that runs, the worker is being stopped
\* and owns its terminal.
StopIsSound(d) ==
    /\ stop[d] # "idle" => worker[d] \notin {"none", "starting"}
    /\ stop[d] = "closing" /\ attached[d] \in alive =>
         worker[d] = "stopping" /\ \E r \in OwnedBy(d) : row[r].ownership = "owned"

\* The inductive invariant: a close that is on its way, and everything it relies on, stays true
\* through every step of the user, of other workers and of the processes.
TerminalInvariant ==
    /\ TerminalTypeOK
    /\ \A r \in Resources : RowIsSound(r)
    /\ OwnersAreUnique
    /\ \A d \in Dispatches : WorkerIsSound(d)
    /\ PanesAreUnique
    /\ \A q \in alive : q[2] <= current[q[1]]
    /\ \A r \in Resources : ReleaseIsSound(r)
    /\ BacklogIsSound
    /\ \A d \in Dispatches : StopIsSound(d)

\* A release that was asked for ends as released only with the output of its owner kept
\* (worker-terminal-release.ts:129).
OutputIsPreserved ==
    [][\A r \in Resources :
         row'[r].release = "released" /\ InProgress(r) => row[r].owner \in archived']_vars

\* A release that is open when contact with its host was lost is decided once the host is
\* inventoried again and no call fails any more.  Two things the code leaves open are excepted: a
\* process that went before its output was kept, and a request that joined a release still in
\* flight for an earlier owner (worker-terminal-release-reconciliation.ts:21).
RequestedReleaseEnds ==
    \A r \in Resources :
      LET open == row[r].release \in {"requested", "releasing"}
      IN  (/\ open /\ release[r].by \in {Null, row[r].owner}
           /\ row[r].process[1] \in unlisted /\ mishaps = MaxMishaps)
            ~> (~open \/ (row[r].process \notin alive /\ row[r].owner \notin archived))

\* What a user typed into before the close was issued is not closed by a release (the takeover of
\* worker-terminal-user-takeover.ts:41, as worker-release.ts:139 describes it).
TypedIntoIsNotClosed ==
    \A r \in Resources : release[r].pc = "closing" => attached[release[r].by] \notin typed

=============================================================================
