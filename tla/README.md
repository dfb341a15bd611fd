# Formal model of pi-agents-flow

pi-agents-flow is an extension of the Pi coding agent. It lets one agent, the
Supervisor, plan a *workflow* of work units, run each as a child agent, and judge
the results; it runs other agents in the foreground, in the background and on a
schedule; it brings the results back to the session that asked for them; and a
watchdog reviews what the agent edits. This directory holds TLA+ modules that
model its concurrent core, the TLC configurations that check them on small
instances, and TLAPS proofs for every value of the constants.

All paths below are relative to the repository's `src/` directory unless they
name a document at its root.

## 1. The system

### 1.1 Components

| Component | State | Operations | Modelled by |
|---|---|---|---|
| **Workflow reducer** (`workflows/reducer.ts`, `effective-nodes.ts`, `retry-policy.ts`, `types.ts`) | `WorkflowRun`: the fold of the event log, with each node's status, attempts, supersession and ceiling | one case per event; `refreshReadiness` after most | `WorkflowReducer` |
| **Workflow controller and scheduler** (`controller.ts`, `scheduler.ts`, `runtime.ts`, `gates.ts`, `policy.ts`) | the run; `activeRuns`; one scheduler per `run_ready` with a cursor and abort signals; pending foreground completions; the count of quality-gate refusals | the Supervisor tool's actions; workers; recovery; deadlines; session start | `Workflow` |
| **Workflow store and binding** (`store.ts`, `branch-binding.ts`, `artifact-store.ts`) | `events.jsonl`, `manifest.json`, artifacts, the binding in the session | create, append, load, assert | the binding in `Workflow`; the files not |
| **Delegation** (`workflows/delegation-adapter.ts`, `slash/prompt-template-bridge.ts`) | requests that wait, children, settled requests, the active child of a node | request, refusal, response, malformed answer, cancellation, timeout, shutdown | `Delegation` |
| **Result delivery** (`runs/background/result-watcher.ts`, `notify.ts`, `completion-batcher.ts`, `completion-dedupe.ts`, `shared/file-coalescer.ts`, `intercom/result-intercom.ts`) | the results directory; per instance: watcher, timers, handlers, batches, two `seen` maps | write, notice, handle, relay, batch, send, delete, restart, shut down | `ResultDelivery` |
| **Async runner and job tracking** (`runs/background/subagent-runner.ts`, `chain-append.ts`, `async-job-tracker.ts`, `stale-run-reconciler.ts`) | the runner's main loop and its status; `status.json`, the result file; Pi's job tracker | steps, groups, checkpoints, stop, interrupt, deadline, append, poll, reconcile | `AsyncRun` |
| **Revival of a session** (`runs/background/async-execution.ts`, `runs/shared/session-lease.ts`) | a lease directory per session, the startup files of a runner | acquire, reclaim, release; acknowledge, proceed, refuse | `SessionRevival` |
| **Scheduled runs** (`scheduled-runs.ts`) | job store, timers, lateness | create, cancel, fire, bind, stop | `ScheduledRuns` |
| **Control** (`control-channel.ts`, `foreground-control.ts`) | request files of a run; the control of a foreground run | request, take; retain, settle | in `AsyncRun` and `ForegroundGroup` |
| **Steering** (`async-steering-action.ts`, `steering.ts`, `runs/shared/subagent-prompt-runtime.ts`) | a run's ledger of requests, its inboxes, acknowledgements, the recovery claim | ask, route, take, acknowledge; claim, interrupt, revive | `Steering` |
| **Foreground executor** (`runs/foreground/`) | the children of a call, what is remembered of them | start, retry, detach, abort, end | `ForegroundGroup` (parallel groups) |
| **Supervisor channel** (`intercom/native-supervisor-channel.ts`) | requests and replies of children | ask, poll, reply, expire | in `ForegroundGroup` |
| **Watchdog** (`watchdog/runtime.ts`, `emission-guard.ts`) | the review in flight, epochs, the emission guard, follow-up counters | cadence and boundary reviews, diagnostics, follow-ups, resets | `Watchdog` |
| **Budgets** (`spawn-budget.ts`, ...) | counters | count | no; a spent budget is a fault of `AsyncRun` |
| **Workflow content** (`quality.ts`, `evidence.ts`, `composition-expr.ts`, presets) | none | text analysis | verdicts are free choices |
| **Agents, profiles, API, headless, UI** | configuration | discovery, parsing, rendering | no |

### 1.2 How they interact

The Supervisor (a language model) calls the tool `subagent_workflow`. The
controller first *resolves* the run: it reads the log, checks that the binding
in the session names the log's revision, fails attempts that no scheduler of
this process owns (*orphans*), settles detached children from their deadline or
their files, and applies completions it has kept in memory. Then it appends the
events of the call and writes the binding anew. `run_ready` creates a scheduler
whose workers share a cursor over the ready nodes; each worker appends
`node.started`, awaits the delegation adapter, and appends the report. The
adapter exchanges events with a bridge that runs a foreground child. A child
that is detached leaves the node `waiting`: its end arrives later, as an event,
as files, or not at all. Everything is one JavaScript thread, so calls
interleave at awaits only, but a `run_ready` awaits for minutes, and any other
call may come in between.

A background run is a process of its own, the runner. Pi and the runner share
files only: `status.json`, which both write, requests in an inbox, and the
result file. Pi's job tracker polls the status and repairs runs whose runner is
dead. A runner that revives a session must own the session's lease.

When a run ends it leaves one JSON file in a directory that **every** Pi process
of the user watches. An extension instance that owns the run's session takes the
file through a timer (50 ms coalescing), an optional relay to an intercom target
(500 ms), and the notifier, which may hold successes back in a batch. The file
is deleted only when the notifier has accepted the result. A reload or a session
switch disposes an instance while its handlers are waiting.

Components meet at narrow interfaces, and each model takes its neighbour as the
free choice of what may come: `Workflow` allows every answer `Delegation` can
give, `ResultDelivery` every result file `AsyncRun` can write.

### 1.3 What is hard

- **State read before an await and used after it**: the scheduler's batch, the
  watcher's ownership of a session, `status.json` read by one process while the
  other writes it, the review a late answer belongs to.
- **Two owners of an attempt**: a worker's report, recovery, a deadline, a
  late completion and a cancel all want to end the same attempt.
- **Two or three processes**: contenders for a lease, a runner and a reconciler that
  takes it for dead, a launcher and a runner that time out on their own; a call, a
  runner and a child that pass one message, each with files and a clock of its own.
- **Partial failure**: a write of one worker throws; `Promise.all` rejects,
  and the other workers live on outside `activeRuns`. A poll throws between
  marking a request and showing it.
- **Crash and restart** between the start of a child and its answer; between a
  message, the memory of it and the deletion of the file; in the middle of a run.
- **Cached readiness**: `ready` is computed on events, through supersession
  chains that later events extend.
- **At-most-once and at-least-once at once**: a result must be told, must not
  be told twice, and only to its owner, across retries, failed deletions,
  polls and watcher restarts.
- **Counters at their limit**: attempts per node, quality-gate refusals,
  follow-ups, settled requests a bridge remembers, timers of more than 2^31 ms.

`PROJECT.json` lists each at its line, with the properties that cover it, or
why none does.

## 2. The modules

| Module | What it is |
|---|---|
| `WorkflowReducer` | the data of a run, the guard (`...Takes`) and the effect of every event that changes a node, the plan or the status. No variables. |
| `Workflow` | the state machine: one action per tool call and per worker step, recovery, children, deadlines, crash, session start |
| `AttemptLedger` | the abstract specification that `Workflow` implements: an append-only attempt history and a growing set of satisfied dependencies |
| `WorkflowProperties` | invariants, action and liveness properties, fairness, the refinement |
| `MCWorkflow` | plans for TLC |
| `WorkflowProofs` | proofs about nodes, events and actions of `Workflow`: types, coherence, ceilings |
| `WorkflowEventProofs` | proofs of what follows from the log: the graph, the history, the pause, the refinement |
| `WorkflowMemoryProofs` | proofs about the memory beside the log: refusals, awaited answers, detached children |
| `ResultDelivery`, `DeliveryProperties`, `MCDelivery`, `DeliveryProofs` | the same for result delivery |
| `AsyncRun`, `RunProperties` | one background run, and what it promises |
| `SessionRevival`, `Steering`, `Delegation`, `ScheduledRuns`, `ForegroundGroup`, `Watchdog` | one component each, its properties at the end of the module |
| `RunProofs` | proofs about `AsyncRun` and `ScheduledRuns` |
| `SessionRevivalProofs`, `SteeringProofs` | proofs about those components |
| `ComponentProofs` | proofs about `Delegation`, `ForegroundGroup` and `Watchdog` |
| `MCRun` | scenarios of a background run for TLC, and `ScheduledRuns` beside it |
| `MCComponents` | runs the other five components side by side |

Definitions whose comment begins with `Bug:` are not part of the model. Each is
a plausible mistake in the definition below it; exchanging the two must break a
property, which shows that the property is about the code and not vacuous
(`mutants` in `PROJECT.json`).

An action is what the code does between two awaits. Where the code takes a value
before an await and uses it after, the value is part of the state in between.

### 2.1 Workflow

| Variable | Code |
|---|---|
| `run.nodes[n]` | `status`, the states of `attempts[]` in order, `maxAttempts`, `dependsOn`, the planned replacement (`replaces`), `supersededBy`, the kind of work |
| `run.status`, `run.repair` | `WorkflowRun.status`, the nodes of a repair plan |
| `sched[s]` | one `run_ready` call: `queue` is the part of its batch the cursor has not reached, `flights` the attempt each node's worker awaits, `aborted`/`nodeAborted` its signals, `awaited` whether its call still waits for it (it is in `activeRuns`) |
| `child[n][k]` | the child of attempt k: whether it is detached, its outcome, whether it has a metadata path, whether its wait deadline has passed (`due`), whether its completion event is kept in memory (`told`) |
| `up` | whether the Pi process runs; `Crash` ends it, `SessionStart` starts it again |
| `gateFailures` | `bundles/quality-gate-failures.json` |
| `binding` | whether the latest binding entry of the session names the revision of the run |

`Resolved` is what every tool call does first (`resolveRun`): it fails orphans,
settles waiting nodes from the deadline, then from the child's files, and
applies completions kept in memory. `ReadRun` is that and nothing more; it is
also every call that is refused afterwards. `Land` takes a worker from the
answer of its child through the report to the next `node.started`: no other code
runs in between. A call that appends to the run ends in `Persists`, which writes
the binding; `UpdateNode` alone does not; an action that appends nothing leaves
the binding (`Reads`), and so does what happens outside Pi (`Elsewhere`).

The log is its fold, and an append is atomic; a call that appends several events
without an await (`stop`, `cancel`) is one step. `Crash` may also leave the binding
stale, which stands for a crash between the append and the binding; it may do so
at any time, an over-approximation. What a child says, the counts of the
policy, digests and artifacts are free choices. A worker whose store throws
(`IOFaults`) leaves the run as it was, rejects the call's `Promise.all`, and the
other workers go on outside `activeRuns`.

`AttemptLedger` is the abstract specification: each node has a history to which
attempts are appended, in which only the last can change, and only while it is
open; and the set of nodes whose result satisfies their dependents only grows,
and only with a completed attempt.

### 2.2 ResultDelivery

| Variable | Code |
|---|---|
| `disk`, `writes` | the files of the results directory and how often each was written |
| `phase`, `session` | an extension instance: not begun, open, closed; `state.currentSessionId` |
| `watch` | `fs.watch`, the restart timer, or the polling fallback |
| `timer` | the coalescer's timer of a file, with `pendingTriggerTurn` |
| `stage`, `mode` | where `handleResult` of a file is, and the `triggerTurn` it was called with |
| `stale` | the files whose handler began in an earlier `deliveryEpoch` |
| `completionSeen`, `seen` | the two ten-minute maps, of the watcher and of the notifier |
| `messages`, `acked` | what was sent to a session; relays acknowledged in time |
| `backlog` | what `primeExistingResults` found at session start |

A timer fires in four ways, by what the file turns out to be: `FiresToRelay`,
`FiresToNotify`, `FiresForSeen` (only the deletion is left), `FiresInVain`
(gone, foreign, or already handled). `RelayAnswered` is the intercom's
acknowledgement or its 500 ms timeout; an acknowledgement that comes later is
not heard. `Concludes` is the end of the handler: mark, delete, or retry. A
handler in stage `held` waits for a completion batch.

Assumptions: one open instance per session at a time; a file does not stay
undeletable for longer than the ten minutes of the memories; a file event and
its timer are one step; batching is enabled. The retry of a nested registry that
cannot be read is a stutter, and so is the second completion event of a result
the notifier knows.

### 2.3 AsyncRun

| Variable | Code |
|---|---|
| `scenario` | the chain, the faults and the number of calls of this behaviour; never changes |
| `plan`, `cursor` | `steps`, `stepCursor` |
| `pc` | where the runner's main flow is: between steps, in a step, at a checkpoint, ending, over, dead |
| `payload`, `flags` | `statusPayload` and the runner's booleans |
| `child` | of each flat step: its process, its attempts, its outcome |
| `decision` | `pendingCheckpointDecision` |
| `status`, `resultFile`, `inbox`, `appends` | the files Pi and the runner share |
| `call` | a Pi tool call or reconciliation that has read `status.json` and will write |
| `job`, `cleanup`, `told` | the job tracker's entry, its cleanup timer, the results Pi was told |
| `remembered` | whether the watcher's `completionSeen` has the key of the run, which all its results share |
| `asked` | history: what Pi asked for |

The handlers of stop, interrupt and deadline run only where the main flow
awaits. `faults` of a scenario name what may happen: the runner is killed, a
status is older than a day (`stale`), a budget is spent, a deadline passes, a
child dies of a signal nobody sent, Pi reloads, or the finished session is exported
(`share`), which is one more await before the end. The first result Pi finds is told
(`TakesResult`); while it is remembered, a further one is deleted untold
(`DropsResult`); the memory lasts ten minutes and ends with the process
(`ForgetsResult`). `ResultDelivery` models the telling in detail.

### 2.4 The smaller components

- **SessionRevival**: contenders for the lease of a session. `lease` is the
  directory (`Free`, `Empty` without `owner.json`, `Owned`); a rename onto an
  empty directory replaces it; `tombstones` are directories moved aside. A contender
  reads `owner.json` (`LeaseRead`), looks up the processes it names (`LeaseProbed`) and
  renames the directory (`LeaseReclaimed`) in three steps, between which the owner may
  do anything; the model counts its children (`spawned`), since the lease names
  one by its process id. `misread` is history: a lease was found stale by a record that
  was out of date. `runner` is each contender's way through acquire, acknowledge and start, `writer` its Pi
  child, which may outlive it, and `launcher` the process that times out on its own.
- **Steering**: one child of a background run, and calls that steer it. Three
  processes share files: `steerCall` is where each call of Pi is, `source` the
  runner's main flow, `agent` the child. `steerFiles` holds the inbox of the runner
  and the mark that closes it, the child's inbox (`target`), its acknowledgements, the
  claim and the markers of a recovery, and requests to interrupt or stop; `payload` and
  `runStatus` are the ledger in the runner's memory and in `status.json`. A call waits
  for its acknowledgement, and where the run is a single one (`whole`) claims the recovery,
  interrupts the run, waits until it is paused and revives it. The calls share a
  process and interleave at awaits (`PiFree`); Pi, the runner and the child may die at
  any time. `steerNote` is the copy of `status.json` that a failing call has read and
  writes back. The runner takes an acknowledgement in two steps, since another process may
  commit a recovery between its look at the marker and its write.
- **Delegation**: one node, its attempts and their format retries. `adapter` is the
  awaiting `run()` of an attempt, `worker` the child of a request, `bridge` the
  slash bridge: its controllers, the active request of the node, the requests it
  remembers as settled, and saturation, after which it takes nothing new.
- **ScheduledRuns**: `jobs` is the file, `timers` the timers in memory, and
  `clock` tells of each job whether its time is to come, due, or too late. A job
  whose time is further away than 2^31 ms gets a timer that fires early and is set again.
- **ForegroundGroup**: a parallel group, its workers and children; `control` is the
  entry of `foregroundControls` with its owners and active children, `ask` a
  request to the supervisor, and `remembered` what is kept of the run, in which a
  child that ends early leaves holes.
- **Watchdog**: `dog` holds the fields of the runtime and the emission guard.
  Of a review in flight, `current` tells that its `epoch` is the latest, and
  `latest` that its `midRunGeneration` is; `alone` and `superseded` are history.
  `ending` is the `agent_end` handler, which Pi awaits, through the language
  server and the boundary review. `follow` counts follow-ups, and tells prompts
  that were sent (`queue`) from those the runtime will recognise (`pending`).
  Compaction falls between turns; the directory is a git repository; the cap of
  eight recognised prompts is not reached.

They share no state. `MCComponents` puts five of them side by side: `focus` names the
one that moves in a behaviour, and the others keep their initial state, so that the
state graph is the sum of five and not their product. `MCRun` does the same with
a background run and `ScheduledRuns`, which both need fairness; the fairness of the
run is assumed where the run moves. Each is parameterised on its own.

## 3. The runs

| Run | Instance | Shows |
|---|---|---|
| `graph` | b depends on a; c is planned to replace a; one scheduler (161k states) | readiness is never stale, supersession chains end, a completed run is settled, nothing starts while paused or stopped, `AttemptLedger` is implemented |
| `attempts` | one node, every answer a child can give, late completions, two attempts, a reopen, a session with a UI (267k) | attempts and ceilings agree, a detached completion is genuine, the awaited answer is for the running attempt, every live node settles |
| `faults` | two nodes, two schedulers, throwing appends, the quality gate (158k) | attempts stay coherent, an automatic stop holds |
| `told` | two instances, two sessions, restarts, polls, refused sends (763k) | a result is told once per instance, handling is consistent, a file goes only when told |
| `fair` | a session per result, relays, polls, failing deletions (70k) | only the owner is told, a relayed result is not announced beside, what an instance found at its start stays quiet, a closed instance does nothing, every owned result is told |
| `background` | five chains with their faults; three scheduled jobs (113k) | one result per run, told or waiting, approvals are one per checkpoint, nothing starts once ended, stop is obeyed, dead runners are told, ended jobs leave the tracker; scheduled jobs are launched once and settle |
| `components` | five of 2.4 (903k) | exclusive revival (if no contender was misled), refused startups never run, a replacement works alone, an ended run leaves no request open, one child per node, aborts reach children, controls live as long as children, ended children are not shown as detached, detached children are spared by an abort, superseded reviews are silent, the boundary review runs (if cadence reviews were alone) |
| `restart`, `append`, `exclusive`, `asks`, `follow` | small instances | the disagreements of section 6 |

Deadlock is checked in the Workflow runs. It is off elsewhere: all instances
may be closed, a background run ends, and the components come to rest.

**Bounds.** A third attempt does nothing a second does not, so `AttemptCap` is 1 or
2. Three nodes make the smallest graph with a dependency and a replacement; two
schedulers are needed for one to run beside a rejected one. `GateCap` is the
code's 3. Two instances, two sessions and two results give a reload, a session
switch and a batch that holds one result back while the other is urgent. Three
contenders with two tries each (the code's 4) make a third interfere while two
reclaim; a runner has up to two children, one after the other (`MaxChildren`), so
that a record may name one that is not the last. `MaxSteer` is the code's 2; `IdentityCap` 3 stands for 8192 and is
reached. Two calls that steer compete for one recovery, in a single run or in a chain,
with a child that can steer and one that cannot. Three jobs of which one is far away exceed `MaxPending` 2. Three tasks
on two workers leave one queued. `Concurrency` and `Retries` of a background
group are 1, so that a group has a child that waits and one that is retried. The
watchdog has room for three reviews at once: a superseded one, a cadence review and a
boundary review; two contents of the repository tell an edited turn from an idle
one, three (in `follow`) tell successive edits apart. Combinations of watcher
restarts with failing deletions, and rewritten result files, are not run; the
proofs about `ResultDelivery` cover them. Symmetry is declared only in runs
without liveness (of the two steer requests, in `components`).

**Fairness.** `WorkflowProperties`: a delegated child answers its worker, a scheduler
whose workers have returned goes on, time passes, and Pi is started again after a
crash. Nothing is assumed of detached children, nor of the Supervisor: no turn need be
taken, no call made, and so `agent_settled` need never come. What reads the run
without them is the Activity Dock, which calls `current()` every 500 ms
(`tui/activity-dock.ts:433`, `extension/index.ts:264-273`); it exists only in a session
with a UI. `DockRefreshes` is fair, so `LiveNodeSettles` is a claim about sessions with a
UI; in a session without one a deadline may pass unread (section 6). It excepts a stale
binding, which stops the dock, too. `DeliveryProperties`:
timers fire, relays are answered or time out, settled promises go on, the watcher
restarts or polls; nothing of file events. `RunProperties`: the main flow goes on, a
killed child closes, the event loop runs a due handler and a started call, the
tracker polls; a result that is repeatedly on disk is taken or dropped, a cleanup that is
repeatedly due runs (strong, since a reload or a poll can take the chance away
for a while); nothing of other children, decisions or requests. `StopObeyed`
excepts a run at a checkpoint, where the code ignores the stop, and an
interrupted one, which waits for its children. `ScheduledRuns`: timers run, time
passes, and a closed session is opened again. The five of `MCComponents` have safety
properties only.

Four properties state a premise without which each is false (section 6).

- `SessionExclusive` takes that no contender was misled (`~ misread`): whenever one found
  a lease stale, the record it had read was still the lease's, or that lease had been
  moved aside already. It leaves out a lease that was rewritten or released between the
  read (`session-lease.ts:280`) and the look at the processes (`:281`). The run
  `exclusive` shows what happens then.
- `BoundaryReviewRuns` takes that each cadence review in flight was alone when it
  started. It leaves out a cadence review that a reset outdated and that ends later:
  the boundary review may then be skipped.
- `OneResult` takes that nothing was appended (run `append`) and that a runner that lives
  writes its status within a day: the reconciler gives up one that does not.
- `LiveNodeSettles` takes a session with a UI and a binding that is not stale.

## 4. What is proved

Every invariant and action property that a passing run checks, and the refinement
of `AttemptLedger`, is a theorem: TLAPS proves it for every value of the constants
under the assumptions the modules name. These say no more than that constants
have their types (`ReducerAssumption`, `WorkflowAssumption`, `DeliveryAssumption`,
`DelegationAssumption`, `ScheduledAssumption`), that a limit the code needs is
positive (`GroupAssumption`, `WatchdogAssumption`, `RunAssumption`), and that the
flat steps of a chain are numbered through in order, as `runSubagent` numbers
them (`PlanAssumption`). TLC evaluates each in the runs.

| Theorems | Inductive invariant |
|---|---|
| `WorkflowProofs`: `TypeCorrect`, `CoherenceHolds`, `CeilingHolds` | `IInv` |
| `WorkflowEventProofs`: `ReadinessHolds`, `SupersessionHolds`, `CompletionHolds`, `HistoryImmutable`, `PauseHolds`, `LedgerImplemented` | `SoundInv` |
| `WorkflowMemoryProofs`: `AutoStopProved`, `GenuineCompletion`, `InFlightRuns` | `IInv` with the property; `MemoryOf`; `LiveOf` |
| `DeliveryProofs`: `TypeCorrect`, `HandlingHolds`, `NoResultLost`, `OwnerOnly`, `AnnouncedOnce`, `RevocationHolds`, `RelayedNotNotifiedHolds`, `BacklogQuietHolds` | `IInv`; `RelayInv`; `CalmInv` |
| `RunProofs`: `OneResultHolds`, `ApprovalsHeldAlways`, `NothingStartsHolds`; `LaunchedOnceHolds` | `RunInv`; `ScheduledInv` |
| `SessionRevivalProofs`: `RevivalTypeCorrect`, `SessionExclusiveHolds`, `RefusedNeverRunsHolds` | `RevivalInv` |
| `SteeringProofs`: `ReplacementAloneHolds`, `EndedRunAnswered` | `SteeringInv` |
| `ComponentProofs`: `OneChildPerNodeHolds`, `AbortReaches`; `ControlHeldAlways`, `EndedShownEnded`, `DetachedSparedAlways`; `SupersededSilent`, `BoundaryReviewNotSkipped` | `DelegationInv`; `GroupInv`; `WatchdogInv` |

**Workflow.** The proofs follow the layers of the code. A reducer operation keeps
`NodeInv` of the nodes it touches; an event keeps `RunInv`; an action of the
controller is a sequence of events.

- *Types, coherence, ceilings.* `NodeInv` says of each node that its type, coherence and
  ceiling hold together. Each alone is not inductive, since whether an event is taken
  depends on the status, and what it does on the last attempt. `refreshReadiness`, which
  follows most events, moves nodes between planned and ready only.
- *What follows from the log.* `Appends(run, run')` says that a step appends at
  most three events that start nothing and then may start attempts; `StepAppends`
  shows it of every action. So the graph properties need only be shown of each
  event. `Sound` joins readiness, supersession and completion to `RunInv`, for none is
  kept alone: who counts as accepted is the least set closed under supersession,
  so readiness stays current only if a node that satisfies others goes on doing so
  (`Satisfied` grows), which needs that links lead to nodes that have run and were accepted or
  superseded (`LinksOf`). No set of superseded nodes is closed under its links
  (`LooplessOf`), since a node is superseded by one that is accepted, which points
  nowhere; a plan may bring a node in again only because it never ran, so
  nothing points at it. History, pause and ledger are facts about the two states of an event.
- *Memory beside the log.* Every step but the answer of a child or its loss goes on
  *soberly* (`Sober`): it adds no attempt, completes one only if its child did, and while
  a scheduler is awaited leaves running nodes alone; then it may launch a scheduler.
  `MemoryOf` adds to genuineness that detached children belong to attempts that were
  made, and that a worker waits for such an attempt, alone, and not for a detached
  child: so an answer that lands is never taken for that of a detached child.
  This holds with IO faults. `LiveOf` adds that one scheduler at most is awaited and
  that all workers are its own. `InFlightRuns` assumes `~ IOFaults`: with them its
  property is false (section 5).

**Result delivery.** `IInv` joins what the watcher and the notifier remember
(`HandlingConsistent`) to what they told: their guards read that memory, not the
messages. What the notifier does to its batch is one lemma, `NotifierStep` its
contract. `RelayInv` adds that a handler that was acknowledged is past the notifier
until it ends, `CalmInv` that a file of the backlog stays silent, in its timer
or its handler, until it is delivered, and that a session has one open instance. Both need
`"watch" \notin Faults`: a watcher that restarts forgets an acknowledgement
(section 5).

**Background run.** `RunInv` counts approvals: passed checkpoints, and the
approvals on their way, are no more than were asked for. It keeps every
checkpoint that is not passed behind the cursor or under it and every child that
has started before it, also when steps are appended. A result is there, or was told,
only when neither `status.json` nor what a poll read of it before its await still says that the run is running:
without the copy that is being read the invariant is not inductive, and where the
status is stale or something was appended (the premise of `OneResult`) it is false.

**Scheduled runs.** A timer is of a job that the file has as scheduled, and a launch
of one that it has as running.

**Revival.** `RevivalInv` says that a runner holds the lease from its acknowledgement
to its release, which child the lease records at each point, and that a token
seen as stale is of a runner whose child is dead, wherever its directory has gone: so whoever reclaims, with
whatever delay, moves only a dead owner aside. All of it holds up to the first contender that is misled
(`misread`), after which nothing is claimed.

**Steering.** `SteeringInv` says that calls are in Pi one at a time, that the claim is of the call
that recovers, and that a status that tells a confirmed pause, in the file or in the
copy that a failing call will write back, is that of a run that is over: a
replacement is launched on the strength of that status only.

**Delegation, groups, watchdog.** A child that has not been told to stop has a
controller, and the bridge has one controller, of the active request. The active
children of a control are those that work, and its owners are counted from the
workers and the state of the call; a child is handed over exactly when it gave a
receipt, and a killed one never was. The review the runtime takes for active is
one that was not superseded, and if it is a mid-run review that began alone it is still the only one.

Cardinalities (one child, approvals, workers of a group) are argued with the
theorems about finite sets. The next task of a group is the least that is queued; that
there is one follows from the well-foundedness of the natural numbers, since the
library's induction theorems cannot be instantiated.

**Only model-checked.** Liveness: `LiveNodeSettles`, `OwnedResultTold`, `StopObeyed`, `DeadRunTold`,
`EndedJobDropped`, `ScheduledJobSettles`. Fairness involves ENABLED, which
this prover does not handle. The five disagreements of section 6 are
counterexamples of TLC.

## 5. Not modelled

- The files of the workflow store. A line torn by a crash in an append makes
  `readEvents` throw for the whole log (`workflows/store.ts:84`); the log is modelled
  as its fold, so no property speaks of it.
- The approval dialog of the coding gate, during whose await the run may change
  (`controller.ts:893`), updates of a node's wording, decisions, continuations, and the
  cap of 256 completions kept in memory (`controller.ts:450`).
- What text says: quality rules, evidence, presets, composition, messages.
- With IO faults `InFlightIsRunning` does not hold: recovery fails the attempt of
  a worker that lives outside `activeRuns`. `RelayedNotNotified` and `BacklogQuiet` do
  not hold across watcher restarts, which forget what a handler knew. The theorems
  about the three say so in their hypotheses.
- Of steering: requests to several children, nested runs, the limits a replacement inherits,
  and the ledger's cap of 20 requests. Foreground chains and single runs, worktrees; in a background run,
  dynamic groups, nested runs, imported roots, acceptance, and budgets as
  counters; a runner that dies between its final status and its result
  (`subagent-runner.ts:4265`), which `DeadRunTold` excepts.
- The child watchdog and the ledger of diagnostics; legacy prompt-template requests.
- Agents, profiles, API, headless mode, terminal UI: configuration and rendering.

## 6. Where the code and its documentation disagree

Five runs end in a counterexample; `findings` in `PROJECT.json` quotes the lines.

- `restart`: a watcher that restarts does not look at what was written in between;
  an urgent result is never told.
- `append`: appending to a run reads its status and writes the copy back. If the
  runner ended in between, the reconciler takes the run for dead once its completed
  result has been told: `status.json` says failed, and a second result file does. The
  watcher deletes that file untold for ten minutes, and tells it afterwards.
- `exclusive`: a contender for a lease reads `owner.json` and then looks up the processes
  it names. If the owner spawned its child and died in between, the record read says that there is
  none: the contender takes the lease over and a second child writes the session, which
  the lease is there to exclude (`CHANGELOG.md:313`).
- `asks`: a child of a group that ends before the group is remembered leaves holes
  in an array that a poll walks; the poll throws after it has marked a request as
  seen, and the question is never shown.
- `follow`: a compaction forgets which prompts are the watchdog's own, so that a
  queued follow-up counts as a user's and the attempts start anew. Without
  compaction the bound holds.

Four more comments of the source promise what the models do not bear out. No run is kept for
them; the first three are what a property excepts or takes, the last is a case of `misread`.

- "The agent-end boundary review is authoritative; an in-flight cadence review is
  superseded" (`watchdog/runtime.ts:560`; premise of `BoundaryReviewRuns`). A settings
  override resets the runtime and clears `midRunReviewing` without a new generation, so
  the cadence review of before clears it again as it ends (`:551-557`), when the flag is the next
  one's. That one is then not superseded at the end of the turn, and the boundary
  review returns `stale` (`:574`).
- A waiting node past its deadline is failed "so the workflow cannot wait forever on a
  detached child that died" (`controller.ts:221`; `DockRefreshes` in the fairness of
  `LiveNodeSettles`). In a headless session nothing reads the deadline: no turn is asked
  for while a node waits (`controller.ts:463`), and there is no timer.
- The same comment (`~ binding` in `LiveNodeSettles`). `update_node` appends an event and
  does not write the binding (`controller.ts:870`). Every read of the run then throws, that of
  the dock included, until the Supervisor makes a call that writes it, and a node that waits
  on a dead child waits past its deadline. The node updated is pending, say behind the one
  that waits: the controller would let a ready one through (`controller.ts:861`), but the
  reducer throws for it before anything is written (`reducer.ts:320-322`), so that call
  is a refused one (`ReadRun`).
- "Later contenders cannot move a successor lease by mistake" (`session-lease.ts:286`),
  because the destination is occupied. It is not when the owner
  has released its lease instead of dying with it: a contender that read it before moves
  aside the lease a successor holds.

Further behaviours the models show, for which no document says otherwise:

- a retry that names its node starts it whether or not its dependencies are satisfied
  (`scheduler.ts:47`);
- the wait deadline is looked at before the child's files, so that a child that
  ended in time may be failed (`controller.ts:221`);
- a node that runs when its run is stopped stays running after a crash;
- a rejected run's job is never dropped from the tracker;
- a steer call whose recovery fails reads `status.json` and writes the copy back
  (`async-steering-action.ts:209`). If the run ends in between, it stays paused
  without an end time, with the ledger it had before its end;
- an acknowledgement whose marker the runner looked for just before the recovery was claimed
  is entered as delivered after it, and the replacement is launched all the same, with the
  message a second time (`subagent-runner.ts:2480`);
- a message the child took shortly before it ended is recorded as failed, since
  acknowledgements are not read once the inbox is closed (`subagent-runner.ts:4217`).

## 7. Plan

Every safety property is proved. Proofs that are left: type correctness as theorems
of their own where it is so far part of an invariant (runs, steering, components);
the safety half of `LiveNodeSettles` (a live node has a scheduler, a child or a
deadline that can settle it), and of `OwnedResultTold`.

Modelling that is left: the files of the store with their crashes, the
coding gate's dialog, continuations, foreground chains.
