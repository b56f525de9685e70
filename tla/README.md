# Cubito orchestration: a TLA+ verification project

Cubito is a desktop application that runs coding agents in terminals and worktrees. Most of
the repository is shell, front end, terminals, Git and accounts. The part with a logic of its
own, and the part where a mistake loses work, is **orchestration**
(`src/src/main/runtime/orchestration` and `src/src/main/runtime/rpc/methods/orchestration`):
tasks with dependencies are handed to agents, agents report back, some of them on another
server, processes and servers die at any moment, and everything that matters is kept in one
SQLite database per server. This project models that part, and one piece of what it stands on:
the channel that carries the calls to a remote host.

Paths below are relative to `src/src/main/runtime/` unless they start with `src/`.

## 1. Inventory

Everything runs in one Node process per server. The database calls are synchronous, so a
transaction is never interleaved with other code; concurrency comes from `await` (terminals,
calls to other servers, timers) between transactions, from several requests in flight, and
from crashes between two transactions. A crash keeps the database and loses all memory.

| Component | State | Operations | Interacts with |
|---|---|---|---|
| Task and dispatch lifecycle (`orchestration/db/dispatch-context`, `db/tasks`, `db/lifecycle-transition.ts`) | rows of `tasks`, `dispatch_contexts` | create and update a task, claim, fail, settle a report, release, count failures | everything below, by transactions on the same rows |
| Supervised workers (`db/worker-dispatch`) | `worker_dispatches` | stages of a start, ready, unknown, stop, abandon, recovery of a lost terminal | lifecycle rows; terminals; the peer for a federated worker |
| Decision gates and questions (`db/decision-gates`, `db/questions`) | `decision_gates`, `question_threads` | open, answer, resolve, close with the dispatch | a gate settles dispatches and blocks its task |
| Federation relay (`orchestration/federation-sync.ts`, `db/federation/federation-relay-*.ts`, `rpc/methods/orchestration/federation`) | `federation_relay_items` at the worker server; watermarks in `federated_dispatches` at home; acknowledgment checkpoints and capability cache in memory | enqueue, pull, import, acknowledge, each second and page by page | the home's mailbox and lifecycle, the server's attachment, receipts |
| Remote attachment (`db/federation/remote-*.ts`) | `remote_dispatch_attachments` | attach, authority, stop, settle, release | the relay; the terminal at the worker server |
| Coordinator loop (`orchestration/coordinator*.ts`) | in memory: phase, backoff; everything else in the tables | tick over tasks, gates and terminals | nobody: the methods that start it are retired (see 5) |
| Mailbox delivery (`db/messages`) | `messages`, deliveries, consumer generation | insert, claim, prepare, acknowledge, fence | coordinator and agents |
| Mailbox pointers (`orchestration/mailbox-pointer-*.ts`) | pending-enter flags, memory | announce, stage, press Enter, defer, give up, roll back, resume, retire a pane | mailbox, terminals, the agents' titles |
| Mutation receipts (`db/mutation-receipts`, `rpc/orchestration-mutation-executor.ts`) | `mutation_receipts`, calls in flight | begin, complete, discard, replay | every durable request |
| SSH channel multiplexer (`src/src/main/ssh/ssh-channel-multiplexer.ts`, `ssh-multiplexer-transport-writer.ts`, `ssh-multiplexer-writer-lane-scheduler.ts`) | in memory: pending requests, three lanes of frames, timestamps, clocks | request, notify, cancel, probe, keep alive, pump, dispose | every call to a remote host |
| Dispatch depth (`db/dispatch-depth.ts`) | chain of dispatches | bound nesting | starts |
| Worker terminal ownership (`orchestration/worker-terminal-ownership.ts`, `db/worker-terminal`, `rpc/methods/orchestration/worker/worker-release*.ts`) | `worker_terminal_resources`, `worker_terminal_archives`; releases in flight, the recovery pass | take custody, transfer, release, archive, retain, take over by typing, recover | starts, stops, keystrokes, hosts that come and go |
| Start and stop handlers (`rpc/methods/orchestration/worker`) | calls in flight | stages around awaits | terminals, transactions of `worker-dispatch` |
| Legacy compatibility, schema and migrations, transcripts, attempt observations | tables of their own | conversions, reading | none that decides the lifecycle |

What makes each hard, and what must hold:

- **Lifecycle and workers.** A task may be claimed, retried, reported, stopped, abandoned,
  recovered and updated by hand, in any order and by callers that checked their condition
  before an `await`. A task must not be worked on twice, an agent's authority must end with its
  dispatch, verdicts must not change, a worker and its dispatch must end together, a task must
  not be left saying that someone works on it, dependents must be promoted, and the circuit
  breaker must count.
- **Gates and questions.** They are settled and closed by whatever ends the dispatch. Nobody
  should be asked to answer a worker that is gone.
- **Relay.** Acknowledgments are lost, repeated, delayed and interrupted by restarts of either
  side; the server may be replaced by another version between two calls; the queue is bounded
  and rewrites its entries; reports settle state on both sides. Each item must arrive once and
  in order, nothing may be retired before it is committed, and both sides must agree on the
  outcome.
- **Worker terminals.** A release asks whether the process lives, captures its output and closes the
  terminal, and awaits an answer each time. Meanwhile the user may type, the coordinator may retain
  the terminal or hand it to another worker, the process may exit and another start in its pane,
  the host may drop off and Orca may be killed. No terminal that somebody else uses may be closed,
  none may be called released while its process runs, output must be kept first, and a release
  must be finished after a restart.
- **Mailbox pointers.** A one-line pointer is typed into an agent's terminal, and Enter is pressed
  later, after an awaited write, a timer and an awaited probe. Meanwhile the agent may start to
  work, read the mail, exit and be replaced, the Run may move to another pane, and Orca may be
  killed. Enter must not be pressed twice, nor into a process that never saw the text; what is
  typed must stay reserved; and mail must be announced in the end.
- **Mutation receipts.** A call is repeated after a timeout, an error or a restart, with a ledger
  that is bounded and methods that draw the line between "nothing happened" and "done" at
  different places. It must take effect once, the repeat must get the first answer, and those
  whom a message is for must be woken.
- **SSH channel.** The writer stops while the transport is full, urgent frames overtake others, the
  end may come in the middle of a send, and a link may die without a close. Every caller must
  be answered, honestly, and a dead link must be noticed.

`PROJECT.json` lists the components with their files, and under `hazards` every hazard with
the line where it bites and the properties that cover it.

## 2. Modules

| Module | Role |
|---|---|
| `TaskLifecycle` | the lifecycle, workers, gates and questions: one action per transaction |
| `MCTaskLifecycle` | adds the symmetry TLC uses |
| `LifecycleInvariantProofs` | the type invariant and the row invariants, proved |
| `VerdictProofs` | what a transaction may do to verdicts, states and failure counts, proved |
| `TaskProofs` | who holds a terminal and a capability, and what a transaction may do to tasks and questions, proved |
| `FederationRelay` | the relay of one federated dispatch: two servers, the network, failures |
| `OrderedDelivery` | the abstract specification the relay implements |
| `FederationRelayProofs` | the relay's invariants and the refinement, proved |
| `MailboxPointer` | a Run's mailbox, its pointers and its Delivery, the panes and their agents |
| `MCMailboxPointer` | adds the symmetry TLC uses |
| `MailboxPointerProofs` | the inductive invariant of the pointers and what follows from it, proved |
| `MutationReceipts` | the executor, its ledger and the phases of the handlers |
| `MCMutationReceipts` | adds the symmetry TLC uses |
| `MutationReceiptsProofs` | all six invariants of the ledger, proved |
| `ChannelMultiplexer` | one channel: callers, writer, transport, decoder, health timer |
| `ChannelProofs` | all six invariants of the channel, proved |
| `WorkerTerminal` | who may close the terminal of a worker: rows, releases and stops in flight, recovery, panes |
| `WorkerTerminalProofs` | the inductive invariant of the terminals and what follows from it, proved |

### TaskLifecycle

State: one function per column that a decision reads. `taskStatus`, `taskDeps`
(`tasks`); `dispatchTask`, `dispatchStatus`, `failureCount`, `promptStalled`, `assignee`,
`capability` (`dispatch_contexts`); `worker`, `workerEpoch` (`worker_dispatches`); `federated`
(a row of `federated_dispatches` exists); gates; questions; `runtimeEpoch`, the identity of the
running process. Dispatch ids are numbers because `getDispatchContext` and retries order rows
by rowid. An absent row has the status `"absent"`.

Every action is a committed transaction. What throws rolls back, so the conditions under which
the code throws are guards. The callers that matter are guards too, marked "caller" in the
module: a start can be marked ready only by the runtime that began it, and so on. Everything
else is left to any caller at any time, which covers the handlers' awaits: between two
transactions of one handler any other transaction may happen. A handler that is killed simply
never takes its next action, and `Restart` makes the rows it leaves belong to another epoch.
The circuit breaker's count, the promotion of dependents, the closing of questions and
the revoking of capabilities are operators (`CountFailure`, `Promoted`, `CloseQuestions`,
`Revoked`) used by each transaction that performs them.

Left out: text (titles, results, prompts), timestamps and heartbeats, run ids (one run), reset
and deletion of rows, the lease and the terminal resource of a worker, observations (an
append-only trail nothing reads back), creation of one task as the parent of another.

### FederationRelay

One dispatch of a run whose worker is on another server, the uplink (worker to home) only.
The variables are grouped by where they live: the worker server's database (`items`,
`ackedThrough`, `attachment`, `receipts`) and memory (`epoch`, its runtime id), the home's
database (`mailbox`, `imported`, `acknowledged`, `knownEpoch`, `home`) and memory (`sync`,
`checkpoint`, `capability`, `stopCall`), the network (`wire`, `stop`).

`sync` is the state of `syncFederatedDispatchPages` between its awaits: `probe` (asking what
the server supports), `pull`, `import`, `acking`, `acked`. The import loop runs without an
await, so nothing of the home happens between its items, but a crash may: `ImportItem` is one
transaction. What the handler read before an await (`knownEpoch`, the capability decision) is
kept in `sync` and used after it, as in the code. `acknowledged` is not: the handler's
value can be stale only if another sync recorded one, and `syncDispatch` allows one sync per
dispatch.

An acknowledgment is a request on `wire` that runs at the server at most once at a time
(`AckExecutes`), is answered from its receipt (`AckReplays`), or is refused (`AckRefused`); it
can be lost, its answer can be lost, its sync can give it up and it arrives later, and a
restart can leave its receipt pending with or without the effect (`ServerRestarts`). Its id is
`relay_ack_<dispatch>_<cursor>`, so the receipt is found by `cursor`; a request with the same
id and another content is refused.

`Settling` says that the dispatch speaks protocol 3 or later, in which the home's verdict
travels back with the acknowledgment; `SupportingEpochs` says which runs of the server still
offer it, so that a restart may be an upgrade or a downgrade. A report is abstracted to its
outcome. Left out: the downlink (answers to the worker), malformed reports and reports for
another task (rejected whatever the state), message texts, byte quotas (the count quota has
the same branches), several dispatches (they share only the capability cache), the waiting of
the worker's own `send` for the verdict, and a start that is still uncertain.

### OrderedDelivery

What a relay promises: the receiver holds a prefix of what was sent. `FederationRelay`
implements it under the mapping sent = ids of `items`, received = ids of `mailbox`
(`DeliversInOrder`), as long as no report replaces a heartbeat (a quota larger than the number
of items).

### MailboxPointer

`rows` is the `messages` table of one Run mailbox, by sequence, with the columns the pointers
read: `read`, `delivered_at`, `pointer_enter_pending` (`phase`) and its target. `mem` is what
`OrchestrationMailboxPointerState`, the repoint scheduler and the recheck timers keep and a
restart loses: flights, the watermark, parked deliveries, writes and probes that are not
answered. `agent` is what Orca knows of the process in each pane, `box` who owns the mailbox,
its outstanding Delivery and its blocked check. `seen` records what each process has in its
composer and was sent, and which panes the Run has left (`left`: a Run that comes back to a pane
is announced there anew, so `EnterNeverTwice` excepts it); no step reads it except to update it.

One handler calls another, and calls it again through a microtask, so the handlers are functions
from one state record to the next (`Deliver`, `Settle`, `Redrive`, `RetirePane`), and an action
applies the function of the handler that an event starts. A synchronous stretch is one step;
what comes after an `await`, a timer or a microtask is a step of its own, and microtasks come
before anything else (`Drained`). A submission is three steps: `EnterTimer`, `ProbeAnswers`,
`EnterSettles`; each keeps the ticket the callback closes over and reads everything else anew,
as the code does. Phases are committed by separate statements; the one pair without an `await`
between them is torn by `RestartWhileStaging`.

Terminals and agents are an environment: a title may show any status at any time, a process
may exit and be replaced, a write may be accepted, refused or not answered for sure. `Faults`
says which of these an instance has. Left out: waiters filtered by message type, the Cursor
title that needs no Enter, the absence probe before staging, structured sessions, and mailboxes
of dispatches (the same code under another handle). A write and a probe answer and never reject:
each provider of `writeWithSettlement` settles every write, and `isLeafPtyProvenAbsent` answers
false on an error, so the catch of a submission (`orchestration/mailbox-pointer-submit.ts` 132-137)
is reached only when the database throws, and failing storage is left out of all models. A delivery
that the recheck timer makes for a process that is gone finds the pane's record, because it is kept
while a leaf shows the pane (`orca-runtime-refresh-floating-workspace-pty-liveness.ts` 109-112).

### MutationReceipts

`rows` is `mutation_receipts` by request id, `effects` what the handlers have done, `execs` and
`inFlight` the running handlers and the map a repeated call joins. A handler is a sequence of
phases, and six kinds of method place the receipt differently among them (the module's heading
lists them): that is the whole difference between what a restart may conclude. `Fail` is the
catch block: it drops the pending row unless a prompt may have been written or the handler threw
`operation_unknown`, which any handler may (a remote send or report does when its verdict does not
come, a worker start when its session may have been accepted). A row it keeps is answered like one
left by a restart. `Leave` is the finally block, which deletes the entry of the key whoever it names.
`told`, `woken`, `pruned` and `failed` are history. Ages are not kept: pruning may take any
completed rows. Calls answered `request_mismatch`, `operation_unknown` or
`mutation_ledger_full`, and calls that join a running handler, change nothing and are no steps. A
completed prompt may be replayed or observed at any time, which covers a terminal whose binding
changed; the mark such a replay carries is left out.

### ChannelMultiplexer

One `SshChannelMultiplexer` with its writer over a Node stream. Time is counted in ticks of the
health timer. Sequence numbers appear only as `unacked`, the ages of the timestamps kept for
unacknowledged frames in order, and as the number of them a frame carries; `ackable` is how many
the relay can have seen. A send may close the channel in the middle of the handler that makes
it (a lane that is full, a write that throws): `Send` and `Write` therefore take what their
caller has already done to the callers' maps (`st`, `out`), which is what `dispose` then finds.
Node emits `drain` before it calls back the write that emptied the stream, so `Drain` and `Flush`
are two steps: `pumping` is true from the drain to that callback, the writer's loop runs between
them, nothing else happens meanwhile, and a loop that fails leaves the chunk that emptied the stream
`unverifiable`. The relay and
the link are external; the relay may answer anything it was asked, late or never, and `Cut` makes
the link silent without a close. Left out: fire-and-forget notifications (data in the control
lane without a caller), handler registration, and transports without write callbacks, of which
the program has none.

### WorkerTerminal

A terminal is a pane in which processes run one after another: `current` is the number of the one a
pane runs or ran last, `alive` which still run, `found` the panes the runtime resolves. `row` is
`worker_terminal_resources` by the dispatch that created the terminal, with its present owner and
earlier owners; `archived` is `worker_terminal_archives`; `worker` and `attached` are the columns of
`worker_dispatches` and `dispatch_contexts` that decide here. `starts`, `release`, `stop` and
`recovery` are the handlers between their awaits, and the maps by which a second call joins the
first; a restart loses them.

Each action is a stretch between two awaits. A release is `RequestRelease` or `RecoverItem`, then
`Observe` (the answer of `inspectWorkerTerminal`), `CheckAnswers` (whether the process is gone),
`CaptureSettles` (the output) and `CloseAnswers`; what the handler read before an await and uses
after it is kept in `release`. A close kills the process only when it is answered, so the user,
an exit or another request can come in between. `Restart` keeps any set of processes alive, as a
daemon or a remote host does. `typed` is history: the processes the user typed into before a
close was issued. Left out: structured sessions (no terminal), the release of federated
dispatches and of remote attachments (the same rows on the other server), scopes of hosts, the
reminting of pane keys, and the paging of lists.

## 3. Runs

| Run | Question | Result |
|---|---|---|
| `two_tasks` | two tasks with any dependency between them, one terminal, two dispatches, a question, a restart: the inductive invariant itself; local questions answerable; a terminal has one dispatch; a completed task is taken back by hand only; a promotion is never lost | holds |
| `retries` | one task, three dispatches, a gate, a restart, every interleaving of starts, reports, stops, exits, recoveries: the inductive invariant (at most one active dispatch, worker and dispatch end together, the task tracks its dispatch), authority, legal transitions, final verdicts, breaker | holds |
| `relay_verdicts` | a queue of one, so that reports replace heartbeats, conflicting reports, stop and abandon, two losses or restarts, a server that starts settling and ceases to: nothing acknowledged that is not imported and judged, both sides agree, the mailbox shows the verdict | holds |
| `relay_arrival` | three items over pages of two, delivered in order; under fair scheduling what is sent arrives, and without a loss it is acknowledged | holds |
| `relay_replaced_heartbeat` | an item committed under a number has its message | violated, see 6 |
| `relay_lost_ack` | what is imported is eventually acknowledged, also after a loss | violated, see 6 |
| `pointer` | two panes, one message, two mishaps of any kind: the inductive invariant of the pointers; Enter only after its text in the same process, never twice; typed rows stay reserved | holds |
| `pointer_arrives` | one pane, two messages, an exit or a pane leaving the window: mail is announced when the agent rests at its prompt | holds |
| `receipts` | two request ids of any methods, two payloads, a ledger of one row, two restarts or failures after an effect: at most one effect, honest answers, one execution, nobody left unwoken | holds |
| `channel` | one request, one settled notification, replies, probes, three timestamps, any end: honest verdicts, nobody waits on a closed channel, cancel after its request, nothing stuck or starved, abandoned work is stopped, a dead link is declared lost | holds |
| `release` | two dispatches, a pane with two processes, two mishaps: the inductive invariant of the terminals; a close hits only what orchestration owns and nobody uses, released means gone, output is kept first, and releases cut off by a lost host are decided once it is back | holds |
| `typed_into` | a terminal the user typed into is not closed by a release | violated, see 6 |

Bounds. `TaskLifecycle`: three dispatches of one task are the smallest number in which a
retry of a retry, a superseded row and a late report of each coexist; two tasks and one
terminal make claims compete and one of them may wait for the other; one restart
distinguishes the runtime that began a start or stop from a later one, and nothing compares
two older ones. `BreakFailures` is 2 rather than 3, so that the breaker trips within the
dispatches there are. `FederationRelay`: pages of one or two items and two pages per sync
exercise the full page, the last page and the empty page; two items are the smallest number
with an order and with two conflicting reports; `MaxFailures` counts lost calls and restarts of
the home together; a second and a third run of the server are an upgrade and a downgrade. Counters are capped
by guards: `MaxDispatches`, `MaxEpoch`, `MaxItems`, `MaxFailures`; receipts and the wire are
bounded by them. `MailboxPointer`: with two mishaps a pane's process can exit and Orca be killed
in one behaviour, or a Run move after a write was lost; two panes are what a rebinding needs; a
second message is what a parked delivery needs, and it has the one-pane run to itself (2 panes
and 2 messages together are beyond five minutes). `MutationReceipts`: a ledger of one row and two ids
make one id's call prune the other's receipt; two effects are one too many; two faults let a
repeat itself be interrupted. `ChannelMultiplexer`: an ordinary lane of one frame overflows at
the second, a control lane of two at the third, after a request and its cancel; three timestamps
are filled by a request, a notification and a keepalive; a reply is sent only while it has to queue
(sent past the lanes it is a frame like any other), one at a time; one suspension of the process. `WorkerTerminal`: two dispatches
are what a transfer and a join need, two processes of one pane what a stale observation needs;
two mishaps let a restart follow a failed call; the run that finds the violation needs one of
each. Deadlock is not checked: a bounded model ends when its items, dispatches or
failures are used up, and the code itself may rest.

Symmetry (tasks, terminals, gates, questions) is used for safety runs only; no definition
orders these sets.

Fairness. Four specifications use it.

- `FederationRelay` (`relay_arrival`, `relay_lost_ack`): weak fairness of a step of the
  sync, because a timer starts one each second as long as the dispatch is eligible
  (`runtime-orchestration-federation.ts` 170-195) and a sync that has been answered goes on by
  itself, and weak fairness of the arrival of a request that is neither lost nor given up. No
  fairness is assumed of the worker, of the user, of a stop or of a restart. `MailArrives`
  therefore allows a dispatch that ended: the timer stops asking, and items still queued stay
  where they are. That is what the code does.
- `MailboxPointer` (`pointer_arrives`): microtasks and armed timers run, a blocked check times
  out (it has a deadline), and a write or a probe of a terminal settles. Nothing is assumed of
  agents, titles or users: `MailIsAnnounced` asks only about behaviours in which the owner's
  agent does come to rest at its prompt.
- `ChannelMultiplexer` (`channel`): the pump loop and the decoder's continuation run
  on, the health timer fires, and bytes leave (and the drain is emitted) over a link that is not dead. Not an answer, not
  a deadline and not a frame of the relay is promised.
- `WorkerTerminal` (`release`): a call that a release awaits is answered or times out, the pass
  over the backlog goes on to its next item, and a host that was lost is inventoried again (the
  runner does so when it reconnects). Nothing is assumed of users, coordinators, workers or
  processes. `RequestedReleaseEnds` asks only about behaviours in which the mishaps are used up.

Each property of a passing run has a mutant in `PROJECT.json`: a small change of one mapped
definition, written as an operator beside it, with which TLC finds the property violated.

## 4. Proofs

tlapm proves, for every set of tasks, terminals, gates and questions, every number of
dispatches and restarts and every breaker limit; for the relay, every quota, page size, number of
items, runs of the server and losses, and any mix of old and new software; for the ledger, every set of request
ids and payloads, every choice of methods, every size and number of faults; for the channel,
every set of requests and chunks, every deadline, every size of the lanes, the burst and the
timestamp map; for the terminals, every set of dispatches and panes, any number of processes in
a pane and of mishaps; and for the pointers, every set of panes, every batch size, and any number of
messages and of mishaps of any kind:

| Theorem | States |
|---|---|
| `TypeCorrect` | `TypeOK` holds always |
| `InvariantHolds` | `LifecycleInvariant` holds always |
| `OneActivePerTask`, `EndTogether`, `TaskTracks` | the safety invariants it contains |
| `OneActivePerTerminal` | no terminal is handed two active dispatches |
| `AuthorityEnds` | a live capability belongs to an active dispatch nobody stops, or to a stalled start |
| `VerdictsStay` | a settled dispatch or worker keeps its verdict, a stalled start corrected to success excepted |
| `TransitionsStayLegal` | every change of a dispatch or a worker is an edge of `LEGAL_TRANSITIONS` |
| `BreakerHolds` | the breaker trips exactly at its limit and never re-queues the task |
| `PromotionsReach` | a task that completes promotes each pending task it was the last open dependency of |
| `ReopenedByHand` | a completed task is taken back by hand only |
| `QuestionsStayAnswerable` | a local question is pending only while its worker can get the answer |
| `RelayTypeCorrect` | `RelayTypeOK` holds always |
| `RetiredIsImported` | the server retires only what the home has imported, and the home believes no more than that |
| `ReportsAreJudged` | no report is retired unjudged |
| `AttachmentEndsAsHome` | the worker's server settles its attachment as the home settled the dispatch |
| `MailboxTellsTheOutcome` | while verdicts travel back (`Settling`), the mailbox tells by which report the dispatch ended |
| `RelayDelivers` | the relay implements `OrderedDelivery` while no report replaces a heartbeat |
| `ReceiptsTypes` | `TypeOK` of the receipts holds always |
| `ReceiptsAtMostOnce` | a request id takes effect once, pruning and a failure after the effect excepted |
| `ReceiptsOneExecution` | no two handlers of one request id, pruning excepted |
| `ReceiptsEffectKeepsItsRow` | an effect keeps its receipt row |
| `ReceiptsAnswers` | every answer is the one the receipt holds |
| `ReceiptsAnnounced` | an answered send has woken its recipients, or its receipt owes it |
| `ChannelTypeCorrect` | `TypeOK` of the channel holds always |
| `EverybodyIsTold` | nobody waits on a closed channel |
| `WriterServesItsLanes` | nothing is stuck or starved in the writer |
| `VerdictsAreHonest` | the verdicts on settled notifications are honest |
| `CancelNeverOvertakes` | an rpc.cancel never arrives before its request |
| `GivenUpWorkIsStopped` | what its caller gave up is stopped, or the cancel is under way |
| `TerminalInvariantHolds` | `TerminalInvariant` holds always |
| `TerminalClosesOnlyItsOwn` | no release and no stop closes a terminal that a running worker, another dispatch or the user has |
| `TerminalReleasedIsGone` | a terminal called released has no process left |
| `TerminalOutputIsPreserved` | a release that was asked for ends as released only with the output kept |
| `PointerInvariantHolds` | `PointerInvariant` holds always |
| `EnterFollowsItsTextHolds` | Enter is pressed only in a process that has the pointer's text in its composer |
| `EnterNeverTwiceHolds` | no process is sent the pointer of a message twice, one whose pane the Run left excepted |
| `FlightKeepsItsRowsHolds` | rows that were typed or entered stay reserved while their flight lasts |

Assumptions: `CountAssumption` (the bounds are natural numbers, the breaker limit is not zero),
`NullAssumption` (the null values are no ids), `RelayAssumption` (the bounds are natural numbers,
quota and page size are not zero), `ReceiptsAssumption` (the methods are known,
the bounds are natural numbers), `ChannelAssumption` (the sizes are positive, the timestamp map
has room for a frame and a keepalive), `TerminalAssumption` (there may be a process, the
null value is no dispatch, pane or process) and `PointerAssumption` (there is a pane, a batch holds
a message, the bounds are natural numbers, titles and mishaps are known ones), all evaluated by TLC in every run of their module.

The argument. `OneActiveDispatchPerTask`, `WorkerAndDispatchEndTogether` and
`TaskTracksItsDispatch` are not inductive one by one. A claim is safe because a ready task has
no active dispatch, which is `TaskTracksItsDispatch`; that one needs to know that the dispatch
which just ended was the only active one, which is `OneActiveDispatchPerTask`; a retry
checks the worker of the latest row, so it needs `WorkerAndDispatchEndTogether` to conclude
that the row is settled and `ActiveIsLatest` to conclude that no older one is active; and
`StartsArePending` says what a start may assume of its row. Their conjunction with `TypeOK` is
`LifecycleInvariant`; `two_tasks` checks it before it is proved. Most actions change the rows of
one dispatch and of its task, so `LifecycleInvariantProofs` first proves what such a step
must satisfy (`StepOfOne`, `StepOfActive`, `StepOfTask`, `StepOfNone`, and `SettleStep` for
those that settle a set of rows), and then one step per action shows that it does.
`TaskProofs` builds on it (`AuthorityInvariant`): a terminal is attached only where no active dispatch has it, and
each step that ends or stops a dispatch also revokes its capability. Both need to know that a
row not yet inserted has neither (`AbsentRowsAreEmpty`). `VerdictProofs` proves the action
properties one dispatch at a time: a dispatch whose rows a step leaves alone needs no argument
(`KeptIsLawful`), so each action argues only for the rows it writes, from `RowConsistent`, what
`LifecycleInvariant` says of one row. That a report touches no second dispatch is
`ReportedAlone`. `TaskProofs` then does the same for tasks: nearly every step is `Quiet`, it neither
completes nor reopens a task; a verdict promotes all that were only waiting for it
(`ConcludedPromotes`); and a task completed already has no dispatch an update could settle
(`CompletedIsIdle`). For the questions, a step that ends a local dispatch or begins to stop its worker
closes them (`QuestionsKept`), and one is opened only by an agent whose worker nobody stops: it is
attached to a terminal, so a capability was minted for it, and a stop would have revoked that
(`WhoMayAsk`).

The relay's argument is one invariant, `RelayInvariant`, because its parts lean on each other. What
was pulled or imported stands in the queue where it stood, unless it was a heartbeat
(`ListsFollowTheQueue`), and an id was made once (`IdsAreUnique`): so a report met again under a
committed number is the one the mailbox shows there. What the sync, the wire or a receipt may
promise follows: a request names only what is imported, and a verdict in it is about the report
the mailbox shows and is the home's own (`Judged`), which stays true because the home never
changes a verdict and the queue never replaces a report (`RequestKept`). `AcknowledgeKeeps` turns
this, whenever the request arrives, into `AckedIsImported`, `AckedReportsHaveVerdict` and
`AttachmentAgreesWithHome`; the last is in turn what keeps the answer to a stop from taking a
settled attempt back to ready, and so what keeps `MailShowsTheOutcome`. A completed receipt stands
for retired items (`ReceiptsSound`), so a replayed answer may be recorded. The mailbox theorem
assumes `Settling`: in older dispatches a stop can take the attempt back to ready (see 6).
For the refinement, when nothing is replaced the queue only grows, so every entry pulled or
imported has the id the queue has there (`InOrder`); sending is the abstract send, an import that is
no duplicate the abstract receive, and every other step stutters.

The ledger's argument is in two layers, each stated for one request id at a time, since a step
writes one row and prunes others. `OnceInv` says what a handler's phase and the row allow to have
happened: no effect before the phase that makes it, an effect only with its row, a checkpoint only
without an effect, at most one handler, and a running handler registered in the executor's map;
`AtMostOnce`, `OneExecution` and `EffectKeepsItsRow` follow from it. It is inductive because
`StartCall` finds no row and no handler, and because `ResumeCall` runs again only what its
checkpoint or its method clears. `AnswerInv` adds what a handler holds in its hand: its effect
number is the one it will tell, and the row, once completed, keeps it; `AnswersComeFromTheReceipt`
and `AnsweredMailIsAnnounced` follow.

The channel's argument has three layers. `ChannelInv` says that a full transport has writes to call
back, that something is queued only while a drain is awaited or being handled, that a lane holds
only its own frames and a frame no more timestamps than there are, and that a closed channel has
told everybody. Most handlers end in a send, which may queue its frame, hand it over,
be refused, or end the channel: `SendCases` gives the four outcomes once, and `DisposeCore`,
`QueuedCore` and `HandedCore` treat them for whatever the caller has already done to the callers'
maps. `Honest` relates each settled notification to the one place its frame may be: waiting and
not handed over in the ordinary lane, at most once; handed over and unanswered in the buffer.
`Stoppable` does so for a request and its cancel: while the relay has not seen the request, the
request is ahead of its cancel in the buffer, or in the buffer while the cancel is queued, or
ahead of it in the control lane. It is inductive because a cancel goes to the lane of its request,
and because a send goes past the lanes only when they are empty.

The terminals' argument is one invariant, `TerminalInvariant`, because a close is safe for reasons
that lie in four places. A row that is `releasing` has its owner reported, the owner's output
archived, and ownership still `owned` (`RowIsSound`); a release that has sent the close acts for a
settled party of the row whose process is the one to be closed, and is the only claim on it
(`ReleaseIsSound`); a worker that is not settled owns a row that is not released (`WorkerIsSound`)
and shares its pane with no other such worker (`PanesAreUnique`); a dispatch owns one row at most
(`OwnersAreUnique`). So a second worker on the process would own a second row with a claim on it,
or the row itself, which is then not releasing. It is inductive because a transfer is refused while
a release of the row is in progress, a takeover while one is closing, and because custody of a new
terminal is of a process nobody else has. `StopIsSound` and `BacklogIsSound` say the same of a stop
and of a pass over the backlog. The proof has three kinds of step: `MovesOn` (no row changes, only a handler, a
process or a worker's state), `KeepsParties` (rows change their states, never their owners or
processes: `RelabelKeeps`, `RelabelKeepsReleases`), and the starts, which make or transfer a row.
`OutputKept` is carried along each step for `OutputIsPreserved`.

The pointers' argument is one invariant too, `PointerInvariant`, and what keeps a pointer from being
entered twice is spread over four of its parts. There is one flight at most, and its watermark keeps every
other delivery out (`OnePointer`). A flight is for the live process of its pane, into which
its text was typed (`FlightIsSound`). It waits for one thing at a time, the write, the
timer, the probe or the Enter, so an Enter is pressed once and a refused text was never entered
(`CallsAreSound`). Rows whose end is in doubt are one batch for one process, so a resume gives back
or settles all of them together (`RowsAreSound`); and what a process was sent is read, delivered or still
marked as entered for it, so it is not staged there again unless the Run left (`PastIsSound`). The
handlers are functions from state to state, so the lemmas are about states, not steps: `GoesOn` says
that a handler types and presses nothing, `Offers` is what a delivery may do, `Ends` what a handler
that gives a flight up leaves for `SettleKeeps`, between which the flight has no watermark.
`PressEnterKeeps`, `SuccessorKeeps` (a process exits and the next one starts) and `RestartedKeeps`
treat the three events that touch the past. `FlightKeepsItsRowsHolds` follows step by step.

`OneActivePerTask`, `EndTogether`, `TaskTracks` and `ReceiptsEffectKeepsItsRow` state properties no run lists by
themselves: the first three are conjuncts of `LifecycleInvariant`, the last is a step towards
`AtMostOnce`.

Only model-checked: the liveness properties (`MailArrives`, `UndisturbedAcknowledgmentsConverge`,
`MailIsAnnounced`, `DeadLinkIsDeclared`, `RequestedReleaseEnds`), because liveness under fairness is out
of the prover's reach, and the properties of the three runs that find a violation.

## 5. Not modelled

The coordinator loop is not reachable in this version. `orchestration.run` is the only method that
constructs a `Coordinator` (`rpc/methods/orchestration/gates/gates.ts` 37); with
`orchestration.runStop` it is retired (`src/src/shared/orchestration-rpc-contract.ts` 45), and the fence
answers `command_retired` before its handler runs (`rpc/orchestration-contract-fence.ts` 19). Its
transactions are in `TaskLifecycle`, where any caller may take them.

The downlink of the relay and the staged start of a remote attachment are planned in 7. Dispatch
depth is a synchronous computation over rows at each start, without state of its own. The remaining
parts have little control of their own: legacy clients (their operations
end in the modelled transactions), migrations (one-shot), transcripts (reading), observations,
and the rest of the application (user interface, terminals, Git, accounts).

## 6. Findings

1. `relay_replaced_heartbeat`: with a full queue a report takes the place, and the sequence
   number, of a heartbeat the home has already imported. The home then finds a committed number
   without its message in every later sync: the report never arrives
   (`db/federation/federation-relay-enqueue.ts` 90-127, `federation-relay-import.ts` 54-59).
2. `relay_lost_ack`: when the answer to an acknowledgment that carried a verdict is lost, the
   next sync finds an empty queue and repeats the acknowledgment under the same request id but
   without the verdict. The receipt refuses it (`request_mismatch`), the sync ends there, and
   so does every later one while the receipt is kept (`orchestration/federation-sync.ts` 196-208).
3. `typed_into`: a release commits the output and issues the close, the host is unreachable for the
   moment, and the row stays `releasing` for recovery
   (`rpc/methods/orchestration/worker/worker-release-completion.ts` 284-293). Keystrokes the user
   types after that do not take the terminal over, because the takeover's SQL does not cover that
   state (`db/worker-terminal/worker-terminal-user-takeover.ts` 41), and the next release or
   recovery closes it, while `rpc/methods/orchestration/worker/worker-release.ts` 139-140 says
   that keystrokes durably relinquish orchestration's ownership.

Observations. These were met while modelling; the models contain the steps, and no run states
them.

- A stop begun on an uncertain start and then resumed leaves a ready worker on a dispatch that is
  still pending, whose report is rejected (`db/worker-dispatch/worker-dispatch-stop.ts` 214,
  `db/dispatch-context/worker-report-settlement.ts` 129).
- In a dispatch older than protocol 3, a report imported while the stop request is on its way is
  rejected; the answer to the stop then sends the worker back to ready to wait for a report that
  will not come (`rpc/methods/orchestration/worker/worker-stop.ts` 64-85).
- A supervised start or retry begins counting failures at zero, while `createDispatchContext` carries
  the count over; and a process exit while its task is blocked leaves the task blocked although
  the escalation message says it is ready again.
- After a restart, or a write nobody can vouch for, recovery settles the typed rows and returns
  (`orchestration/mailbox-pointer-resume.ts` 86-95): a second message, parked behind them, is
  pointed to only at the next idle edge or arrival. `MailIsAnnounced` fails with these mishaps, so
  `pointer_arrives` leaves them out. Refused writes also wait for the next idle edge, by design.
- The recheck timer offers mail without asking whether the agent was seen live
  (`orca-runtime-resolve-exit-waiters.ts` 171-183), which an exit and a respawn under the same id
  can make untrue; the probe before Enter then gives the pointer up.
- Pending receipts are never pruned (`orchestration/mutation-receipt-capacity.ts`): calls cut off by
  restarts fill the ledger for good, and a full ledger refuses new calls.
- A worker stopped while its start is awaited makes `failWorkerStart` throw; the catch block then
  discards the receipt of a dispatch already accepted (`rpc/orchestration-mutation-executor.ts`
  252), and a repeat starts another. `AtMostOnce` excepts it (`failed`).
- A release whose process is gone before its output was captured cannot be settled
  (`db/worker-terminal/worker-terminal-release.ts` 129-143): it stays requested, or unknown, for
  good. `worker-release-recovery.test.ts` 197 expects that; `RequestedReleaseEnds` excepts it.
- A release requested by a new owner while one of the same terminal is in flight for an earlier
  owner joins it (`worker-release-completion.ts` 58-85); the older one then finds that the terminal
  changed hands, and the request waits for the next recovery. `RequestedReleaseEnds` excepts it.
- Keystrokes into a terminal whose worker is being stopped do not take it over; this one is
  deliberate (`worker-stop-liveness-verdict.test.ts` 215).
- When the channel's timestamp map is full, a keepalive without a timestamp that is never called
  back suppresses every later one, and a dead link is not declared: `DeadLinkIsDeclared` has
  room in the map as its premise (4096 places in the code).

## 7. Plan

Done: `TaskLifecycle`, its row invariants and their proofs; `FederationRelay`, the
specification it implements and the proofs of both; `MailboxPointer`, `MutationReceipts`,
`ChannelMultiplexer` and `WorkerTerminal`, and the proofs of their invariants. What would come next,
in this order:

1. The relay's downlink and the remote attachment's start, beside `FederationRelay`; the release of
   a remote attachment, beside `WorkerTerminal`.
2. The mailboxes of roles and dispatches with the consumer's generation as a fence.
3. `DispatchDepth`, a pure function checked against a reference definition.
