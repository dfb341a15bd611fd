------------------------------ MODULE Workflow ------------------------------
(***************************************************************************)
(* The Supervisor workflow engine: the actions of the workflow controller  *)
(* (src/workflows/controller.ts) and of the schedulers it drives           *)
(* (src/workflows/scheduler.ts), interleaved with the children they wait   *)
(* for, the deadlines, the crashes and the session starts                  *)
(* (src/workflows/runtime.ts).                                             *)
(*                                                                         *)
(* JavaScript runs one piece of code at a time and the store is            *)
(* synchronous, so a step is what runs between two awaits: a whole tool    *)
(* call, or what a worker does from the answer of one child to the launch  *)
(* of the next. `run` is the fold of the durable log; everything else is   *)
(* memory of the process, or belongs to the children.                      *)
(***************************************************************************)
EXTENDS WorkflowReducer

CONSTANTS
    Sched,          \* schedulers that may be alive at once, one per run_ready call
    Plans,          \* the plans the Supervisor may apply, each a function id -> WorkUnit
    Concurrency,    \* the concurrency ceiling of a scheduler
    Answers,        \* the answers a child may give its worker
    ChildOutcomes,  \* the outcomes a detached child may reach
    AttemptCap,     \* bound of the model: attempts a node may make in all
    ReopenBy,       \* the additionalAttempts a reopen may grant
    GateCap,        \* bound of the model: quality-gate failures counted
    DeepResearch,   \* whether the run has the deep-research quality gate
    IOFaults        \* whether an append or a file write of a worker may throw

ASSUME WorkflowAssumption ==
    /\ Plans \subseteq UNION {[D -> WorkUnit] : D \in SUBSET Node}
    /\ Concurrency \in Nat \ {0}
    /\ Answers \subseteq {"completed", "failed", "fatal", "pausing", "cancelled",
                          "detached", "unnamed"}
    /\ ChildOutcomes \subseteq {"completed", "failed", "fatal"}
    /\ AttemptCap \in Nat
    /\ ReopenBy \subseteq Nat \ {0}
    /\ GateCap \in Nat
    /\ DeepResearch \in BOOLEAN
    /\ IOFaults \in BOOLEAN
    /\ Kind # {}

VARIABLES
    run,         \* the WorkflowRun, as the log folds to it
    sched,       \* the schedulers in memory
    child,       \* the detached child of each attempt of each node
    up,          \* whether the Pi process runs
    gateFailures, \* the count in bundles/quality-gate-failures.json
    binding      \* whether the session's latest binding names the revision of the run

vars == <<run, sched, child, up, gateFailures, binding>>

(***************************************************************************)
(* A scheduler: awaited while its run_ready call is (the run is then in    *)
(* activeRuns); flights[n] is the attempt of n whose child it waits for,   *)
(* or 0. A worker of the code is always one flight or has returned.        *)
(***************************************************************************)
Scheduler ==
    [awaited : BOOLEAN, aborted : BOOLEAN, queue : SUBSET Node,
     flights : [Node -> Nat], nodeAborted : SUBSET Node]

IdleScheduler ==
    [awaited |-> FALSE, aborted |-> FALSE, queue |-> {},
     flights |-> [n \in Node |-> 0], nodeAborted |-> {}]

Flying(s) == {n \in Node : sched[s].flights[n] # 0}
IsIdle(s) == ~ sched[s].awaited /\ Flying(s) = {}
Scheduling == \E s \in Sched : sched[s].awaited

(***************************************************************************)
(* A detached child: the outcome it has reached (and written, if the       *)
(* attempt has a metadata path), whether the wait deadline has passed, and *)
(* whether its completion event is in pendingForegroundCompletions.        *)
(***************************************************************************)
Child == [detached : BOOLEAN, outcome : ChildOutcomes \cup {"none"},
          metadata : BOOLEAN, due : BOOLEAN, told : BOOLEAN]
NoChild == [detached |-> FALSE, outcome |-> "none", metadata |-> FALSE,
            due |-> FALSE, told |-> FALSE]

Init ==
    /\ run = WorkflowStarted(CHOOSE k \in Kind : TRUE)
    /\ sched = [s \in Sched |-> IdleScheduler]
    /\ child = [n \in Node |-> [k \in 1..AttemptCap |-> NoChild]]
    /\ up = TRUE
    /\ gateFailures = 0
    /\ binding = TRUE

(***************************************************************************)
(* Recovery. Every tool call first reads the run through resolveRun, and   *)
(* current() does the same, unless the binding is stale: attempts nobody   *)
(* in this process runs are failed, waiting attempts are settled from      *)
(* their deadline or from the child's files, then from the completion      *)
(* events held in memory.                                                  *)
(***************************************************************************)
IsLive(r) == r.status \in {"active", "paused"}

\* Bug: attempts of a scheduler at work are taken for orphans.
OrphanOutcomeAlways(r, v) ==
    IF IsLive(r) /\ v.status = "running" /\ LastAttempt(v) = "running"
    THEN "failed" ELSE "none"

OrphanOutcome(r, v) ==
    IF IsLive(r) /\ ~ Scheduling /\ v.status = "running" /\ LastAttempt(v) = "running"
    THEN "failed" ELSE "none"

IsWaiting(v) == v.status = "waiting" /\ LastAttempt(v) = "waiting"

\* The outcome recovery reads from the metadata file and the result file.
WrittenOutcome(c) ==
    IF ~ c.metadata \/ c.outcome = "none" THEN "none"
    ELSE IF c.outcome = "completed" THEN "completed" ELSE "failed"

\* Bug: nobody looks at the deadline.
WaitingOutcomeNoDeadline(r, v, c) ==
    IF IsLive(r) /\ IsWaiting(v) THEN WrittenOutcome(c) ELSE "none"

\* The deadline is looked at before the child's files. A failure read from
\* the files carries no classification, so it may be retried.
WaitingOutcome(r, v, c) ==
    IF ~ (IsLive(r) /\ IsWaiting(v)) THEN "none"
    ELSE IF c.due THEN "failed" ELSE WrittenOutcome(c)

ForegroundOutcome(v, c) ==
    IF IsWaiting(v) /\ c.told
    THEN c.outcome ELSE "none"

\* Bug: the first child of the node answers for every attempt.
FirstChild(c, n, v) == IF v.attempts = <<>> THEN NoChild ELSE c[n][1]

LastChild(c, n, v) == IF v.attempts = <<>> THEN NoChild ELSE c[n][Len(v.attempts)]

RecoveryOutcome(r, c, n) ==
    LET v    == r.nodes[n]
        mine == LastChild(c, n, v)
    IN  IF OrphanOutcome(r, v) # "none" THEN OrphanOutcome(r, v)
        ELSE IF WaitingOutcome(r, v, mine) # "none" THEN WaitingOutcome(r, v, mine)
        ELSE ForegroundOutcome(v, mine)

Settled(r, outcomes) ==
    [r EXCEPT !.nodes = [n \in Node |->
        IF outcomes[n] = "none" THEN r.nodes[n]
        ELSE Reported(r.nodes[n], Len(r.nodes[n].attempts), outcomes[n])]]

Recovered(r, c) == Settled(r, [n \in Node |-> RecoveryOutcome(r, c, n)])

Reconciled(r, c) ==
    Settled(r, [n \in Node |-> ForegroundOutcome(r.nodes[n], LastChild(c, n, r.nodes[n]))])

Resolved == Recovered(run, child)

(***************************************************************************)
(* Scheduling.                                                             *)
(***************************************************************************)
\* The reducer checks each node.started again. AttemptCap bounds the model.
MayStart(r, n) == NodeStartTakes(r, n) /\ Len(r.nodes[n].attempts) < AttemptCap

\* How many workers start: the request, clamped to the ceiling and the batch.
WorkersStarted(batch, requested) ==
    IF Cardinality(batch) < requested THEN Cardinality(batch) ELSE requested

\* scheduler.runReady: start the first nodes of the batch, queue the others.
Launch(r, s, batch) ==
    \E starting \in SUBSET batch, requested \in 1..Concurrency :
        /\ Cardinality(starting) = WorkersStarted(batch, requested)
        /\ \A n \in starting : MayStart(r, n)
        /\ run' = NodesStarted(r, starting)
        /\ sched' = [sched EXCEPT ![s] =
             [awaited |-> TRUE, aborted |-> FALSE, queue |-> batch \ starting,
              flights |-> [n \in Node |-> IF n \in starting
                                          THEN Len(r.nodes[n].attempts) + 1 ELSE 0],
              nodeAborted |-> {}]]

ReadyNodes(r) == {n \in Node : r.nodes[n].status = "ready"}

\* Without nodeId: every ready node, or those of the repair plan after a stop.
ReadyBatch(r) == IF r.repair = {} THEN ReadyNodes(r) ELSE ReadyNodes(r) \cap r.repair

RunReadyFrom(r) ==
    /\ r.status = "active"
    /\ ~ Scheduling
    /\ ReadyBatch(r) # {}
    /\ \E s \in Sched : IsIdle(s) /\ Launch(r, s, ReadyBatch(r))

RunReady ==
    /\ up
    /\ RunReadyFrom(Resolved)
    /\ UNCHANGED <<child, up, gateFailures>>

\* With nodeId: an explicit retry of a failed or cancelled node.
RetryTakes(r, n) ==
    /\ r.nodes[n].status \in {"failed", "cancelled"}
    /\ ~ workflowNodeAttemptsExhausted(r.nodes[n])
    /\ LastAttempt(r.nodes[n]) # "fatal"

RetryNode(n) ==
    /\ up
    /\ Resolved.status = "active"
    /\ ~ Scheduling
    /\ RetryTakes(Resolved, n)
    /\ \E s \in Sched : IsIdle(s) /\ Launch(Resolved, s, {n})
    /\ UNCHANGED <<child, up, gateFailures>>

(***************************************************************************)
(* What a worker does with the answer of its child, up to the next launch. *)
(* "pausing" is a failure that pauses the run (quota, credentials);        *)
(* "unnamed" a detached child that reported no run id. An aborted attempt  *)
(* ends cancelled whatever the child answers, unless the child detached.   *)
(***************************************************************************)
\* Bug: the status of the response is recorded as it is.
AttemptOutcomeRaw(answer, aborted) == answer

AttemptOutcome(answer, aborted) ==
    IF answer = "detached" THEN "waiting"
    ELSE IF answer = "unnamed" THEN "failed"
    ELSE IF aborted THEN "cancelled"
    ELSE IF answer = "pausing" THEN "fatal" ELSE answer

AfterAnswer(r, n, k, answer, aborted) ==
    LET next == NodeReported(r, n, k, AttemptOutcome(answer, aborted))
    IN  IF answer = "pausing" /\ ~ aborted /\ r.status = "active"
        THEN StatusChanged(next, "paused") ELSE next

\* The worker takes the next node of the shared cursor that is still ready,
\* passing over some that are not; it returns if aborted, or if the run is
\* no longer active, or if no ready node is left.
\* Bug: a worker does not look at the run again.
WorkerGoesOnPaused(r, aborted) == ~ aborted

WorkerGoesOn(r, aborted) == ~ aborted /\ r.status = "active"

NextLaunch(r, s, landed) ==
    LET rest     == [sched[s] EXCEPT !.flights[landed] = 0,
                                     !.nodeAborted = @ \ {landed}]
        goesOn   == WorkerGoesOn(r, sched[s].aborted)
        runnable == sched[s].queue \cap ReadyNodes(r)
    IN  \/ /\ ~ goesOn
           /\ run' = r
           /\ sched' = [sched EXCEPT ![s] = rest]
        \/ /\ goesOn
           /\ runnable = {}
           /\ run' = r
           /\ sched' = [sched EXCEPT ![s] = [rest EXCEPT !.queue = {}]]
        \/ /\ goesOn
           /\ \E n \in runnable, passed \in SUBSET (sched[s].queue \ runnable) :
                /\ MayStart(r, n)
                /\ run' = NodesStarted(r, {n})
                /\ sched' = [sched EXCEPT ![s] =
                     [rest EXCEPT !.queue = @ \ ({n} \cup passed),
                                  !.flights[n] = Len(r.nodes[n].attempts) + 1]]

Land(s, n, answer) ==
    LET k       == sched[s].flights[n]
        aborted == sched[s].aborted \/ n \in sched[s].nodeAborted
    IN  /\ up
        /\ k # 0
        /\ ReportTakes(run, n, k)
        /\ NextLaunch(AfterAnswer(run, n, k, answer, aborted), s, n)
        /\ IF answer = "detached"
           THEN \E m \in BOOLEAN :
                  child' = [child EXCEPT ![n][k] =
                              [NoChild EXCEPT !.detached = TRUE, !.metadata = m]]
           ELSE UNCHANGED child
        /\ UNCHANGED <<up, gateFailures>>

\* The last worker has returned: run_ready leaves activeRuns and reconciles.
RunReadyReturns(s) ==
    /\ up
    /\ sched[s].awaited
    /\ Flying(s) = {}
    /\ sched' = [sched EXCEPT ![s] = IdleScheduler]
    /\ run' = Reconciled(run, child)
    /\ UNCHANGED <<child, up, gateFailures>>

\* The caller of run_ready aborts its tool call.
CallerAborts(s) ==
    /\ up
    /\ sched[s].awaited
    /\ sched' = [sched EXCEPT ![s].aborted = TRUE]
    /\ UNCHANGED <<run, child, up, gateFailures>>

\* A write of the worker of n throws. Promise.all rejects, so run_ready fails
\* and leaves activeRuns at once; the other workers of the scheduler go on.
WorkerThrows(s, n) ==
    /\ up
    /\ n \in Flying(s)
    /\ IOFaults \/ ~ ReportTakes(run, n, sched[s].flights[n])
    /\ sched' = [sched EXCEPT ![s].flights[n] = 0, ![s].awaited = FALSE]
    /\ UNCHANGED <<run, child, up, gateFailures>>

(***************************************************************************)
(* Supervisor tool calls.                                                  *)
(***************************************************************************)
ApplyPlan(p) ==
    /\ up
    /\ PlanTakes(Resolved, p)
    /\ run' = PlanApplied(Resolved, p)
    /\ UNCHANGED <<sched, child, up, gateFailures>>

\* status, evaluate, get_result, an agent that settles (if the binding names the
\* revision of the run), and every call that is refused after resolveRun.
ReadRun ==
    /\ up
    /\ run' = Resolved
    /\ UNCHANGED <<sched, child, up, gateFailures>>

\* cancel_node of a running node only signals its worker.
CancelRunning(s, n) ==
    /\ up
    /\ IsLive(Resolved)
    /\ Resolved.nodes[n].status = "running"
    /\ sched[s].awaited
    /\ n \in Flying(s)
    /\ run' = Resolved
    /\ sched' = [sched EXCEPT ![s].nodeAborted = @ \cup {n}]
    /\ UNCHANGED <<child, up, gateFailures>>

CancelWaiting(n) ==
    /\ up
    /\ IsLive(Resolved)
    /\ Resolved.nodes[n].status = "waiting"
    /\ run' = NodeReported(Resolved, n, Len(Resolved.nodes[n].attempts), "cancelled")
    /\ UNCHANGED <<sched, child, up, gateFailures>>

CancelIdle(n) ==
    /\ up
    /\ IsLive(Resolved)
    /\ Resolved.nodes[n].status \in {"pending", "ready", "failed", "cancelled"}
    /\ run' = NodeCancelled(Resolved, n)
    /\ UNCHANGED <<sched, child, up, gateFailures>>

Accept(n) ==
    /\ up
    /\ NodeAcceptTakes(Resolved, n)
    /\ run' = NodeAccepted(Resolved, n)
    /\ UNCHANGED <<sched, child, up, gateFailures>>

Reject(n) ==
    /\ up
    /\ NodeRejectTakes(Resolved, n)
    /\ run' = NodeRejected(Resolved, n)
    /\ UNCHANGED <<sched, child, up, gateFailures>>

\* supersede and reopen put a stopped run back to active.
Revived(r, wasStopped) == IF wasStopped THEN StatusChanged(r, "active") ELSE r

Supersede(n, by) ==
    /\ up
    /\ NodeSupersedeTakes(Resolved, n, by)
    /\ run' = Revived(NodeSuperseded(Resolved, n, by), Resolved.status = "stopped")
    /\ gateFailures' = 0
    /\ UNCHANGED <<sched, child, up>>

Reopen(n, additional) ==
    /\ up
    /\ NodeReopenTakes(Resolved, n)
    /\ run' = Revived(NodeReopened(Resolved, n, additional), Resolved.status = "stopped")
    /\ gateFailures' = 0
    /\ UNCHANGED <<sched, child, up>>

Pause ==
    /\ up
    /\ Resolved.status = "active"
    /\ run' = StatusChanged(Resolved, "paused")
    /\ UNCHANGED <<sched, child, up, gateFailures>>

CanRestartRepairPlan(r) ==
    /\ r.status = "stopped"
    /\ ReadyNodes(r) \cap r.repair # {}

\* resume calls run_ready when a node is ready. The status has changed by
\* then, so a run_ready that is refused (another one is scheduling) or that
\* finds nothing to start leaves the run active.
Resume ==
    /\ up
    /\ Resolved.status = "paused" \/ CanRestartRepairPlan(Resolved)
    /\ LET r == Recovered(StatusChanged(Resolved, "active"), child)
       IN  \/ RunReadyFrom(r)
           \/ /\ Scheduling \/ ReadyBatch(r) = {}
              /\ run' = IF ReadyNodes(Resolved) = {} THEN StatusChanged(Resolved, "active")
                                                     ELSE r
              /\ UNCHANGED sched
    /\ gateFailures' = IF CanRestartRepairPlan(Resolved) THEN 0 ELSE gateFailures
    /\ UNCHANGED <<child, up>>

WaitingCancelled(r) ==
    Settled(r, [n \in Node |-> IF r.nodes[n].status = "waiting" THEN "cancelled" ELSE "none"])

Stop ==
    /\ up
    /\ IsLive(Resolved)
    /\ run' = StatusChanged(WaitingCancelled(Resolved), "stopped")
    /\ sched' = [s \in Sched |-> IF sched[s].awaited
                                 THEN [sched[s] EXCEPT !.aborted = TRUE] ELSE sched[s]]
    /\ UNCHANGED <<child, up, gateFailures>>

\* Bug: an accepted node is enough to complete.
CompletionReadyEarly(r) == \E n \in Node : r.nodes[n].status = "accepted"

\* What complete asks of the nodes. The policy's counts, the digest and the
\* artifact are data here: they may hold or not.
CompletionReady(r) ==
    /\ Planned(r) # {}
    /\ \A n \in Planned(r) : isAdjudicatedStatus(r.nodes[n].status)
    /\ \E n \in Node : r.nodes[n].status = "accepted"

Complete ==
    /\ up
    /\ CompletionReady(Resolved)
    /\ run' = StatusChanged(Resolved, "completed")
    /\ UNCHANGED <<sched, child, up, gateFailures>>

\* Bug: one refusal too many.
AfterRefusalLate(r, count) == IF count > 3 THEN StatusChanged(r, "stopped") ELSE r

\* The deep-research quality gate refuses; the third refusal stops the run.
AfterRefusal(r, count) == IF count >= 3 THEN StatusChanged(r, "stopped") ELSE r

QualityGateFails ==
    /\ up
    /\ DeepResearch
    /\ CompletionReady(Resolved)
    /\ gateFailures < GateCap
    /\ gateFailures' = gateFailures + 1
    /\ run' = AfterRefusal(Resolved, gateFailures + 1)
    /\ UNCHANGED <<sched, child, up>>

(***************************************************************************)
(* Children, time, and the process.                                        *)
(***************************************************************************)
ChildEnds(n, k, outcome) ==
    /\ child[n][k].detached
    /\ child[n][k].outcome = "none"
    /\ child' = [child EXCEPT ![n][k].outcome = outcome]
    /\ UNCHANGED <<run, sched, up, gateFailures>>

\* handleForegroundCompletion: keep the event, and read the run unless a
\* run_ready is in progress or the binding is stale.
ChildTells(n, k) ==
    /\ up
    /\ child[n][k].outcome # "none"
    /\ ~ child[n][k].told
    /\ child' = [child EXCEPT ![n][k].told = TRUE]
    /\ run' = IF Scheduling \/ ~ binding THEN run ELSE Recovered(run, child')
    /\ UNCHANGED <<sched, up, gateFailures>>

DeadlinePasses(n) ==
    LET k == Len(run.nodes[n].attempts) IN
    /\ run.nodes[n].status = "waiting"
    /\ ~ child[n][k].due
    /\ child' = [child EXCEPT ![n][k].due = TRUE]
    /\ UNCHANGED <<run, sched, up, gateFailures>>

Crash ==
    /\ up
    /\ up' = FALSE
    /\ sched' = [s \in Sched |-> IdleScheduler]
    /\ child' = [n \in Node |-> [k \in 1..AttemptCap |-> [child[n][k] EXCEPT !.told = FALSE]]]
    /\ UNCHANGED <<run, gateFailures>>

\* handleSessionStart: recover, then schedule what was ready before the exit. A stale
\* binding stops the recovery.
SessionStart ==
    /\ ~ up
    /\ up' = TRUE
    /\ \/ binding /\ RunReadyFrom(Resolved)
       \/ /\ binding => Resolved.status # "active" \/ ReadyBatch(Resolved) = {}
          /\ run' = IF binding THEN Resolved ELSE run
          /\ UNCHANGED sched
    /\ UNCHANGED <<child, gateFailures>>

(***************************************************************************)
(* The binding. A call that changes the run appends its events and then    *)
(* writes the binding to the session; one that only reads writes it if     *)
(* recovery has appended something. update_node appends, and writes none.  *)
(***************************************************************************)
Persists ==
    \/ \E p \in Plans : ApplyPlan(p)
    \/ RunReady
    \/ \E n \in Node : RetryNode(n)
    \/ \E s \in Sched, n \in Node, answer \in Answers : Land(s, n, answer)
    \/ \E s \in Sched : RunReadyReturns(s)
    \/ \E n \in Node : CancelWaiting(n)
    \/ \E n \in Node : CancelIdle(n)
    \/ \E n \in Node : Accept(n)
    \/ \E n \in Node : Reject(n)
    \/ \E n, by \in Node : Supersede(n, by)
    \/ \E n \in Node, additional \in ReopenBy : Reopen(n, additional)
    \/ Pause
    \/ Resume
    \/ Stop
    \/ Complete

Reads ==
    \/ ReadRun
    \/ \E s \in Sched, n \in Node : CancelRunning(s, n)
    \/ QualityGateFails
    \/ \E n \in Node, k \in 1..AttemptCap : ChildTells(n, k)
    \/ SessionStart

Elsewhere ==
    \/ \E s \in Sched : CallerAborts(s)
    \/ \E s \in Sched, n \in Node : WorkerThrows(s, n)
    \/ \E n \in Node, k \in 1..AttemptCap, outcome \in ChildOutcomes : ChildEnds(n, k, outcome)
    \/ \E n \in Node : DeadlinePasses(n)

\* The wording and the options of a node, which the model leaves out. The controller lets a
\* ready node through as well; the reducer throws on it, before anything is appended.
UpdateNode(n) ==
    /\ up
    /\ IsLive(Resolved)
    /\ Resolved.nodes[n].status = "pending"
    /\ run' = Resolved
    /\ UNCHANGED <<sched, child, up, gateFailures>>

Persisted == binding' = TRUE
PersistedIfRecovered == binding' = (binding \/ run' # run)

\* Pi may die between the two writes of the step before.
Next ==
    \/ Persists /\ Persisted
    \/ Reads /\ PersistedIfRecovered
    \/ Elsewhere /\ UNCHANGED binding
    \/ \E n \in Node : UpdateNode(n) /\ binding' = FALSE
    \/ Crash /\ binding' \in {binding, FALSE}

Spec == Init /\ [][Next]_vars
=============================================================================
