-------------------------------- MODULE AsyncRun --------------------------------
(***************************************************************************)
(* One background run: the detached runner process that works through the  *)
(* steps of a chain (src/runs/background/subagent-runner.ts), the files    *)
(* through which it is watched and controlled (status.json, the result     *)
(* file, the control inbox of control-channel.ts, the append requests of   *)
(* chain-append.ts), and the Pi process that started it: its tool actions, *)
(* its job tracker (async-job-tracker.ts) and the reconciler of dead runs  *)
(* (stale-run-reconciler.ts).                                              *)
(*                                                                         *)
(* Either process may run between any two steps of the other. Within the   *)
(* runner, handlers run only where the main flow awaits: while children    *)
(* work, at a checkpoint, and while a finished session is exported. Within *)
(* Pi, a call that reads status.json and then acts on what it read is one  *)
(* step for Pi (`call`) and two for the runner.                            *)
(*                                                                         *)
(* Left out: nested runs, imported roots, dynamic groups (a group whose    *)
(* size is known late), worktrees, usage figures and activity notices.     *)
(***************************************************************************)
EXTENDS Naturals, Sequences, FiniteSets

CONSTANTS
    Scenarios,   \* what a run may meet: its chain, and bounds of the model on the
                 \* calls to it, the steps appended to it, and its faults
    Concurrency, \* children of a group that may work at a time
    Retries      \* bound of the model: further attempts of a child, with other models
                 \* or after a failed start

\* "kill": the runner dies; "stale": its status counts as a day old; "budget": the
\* usage or turn budget may be spent; "deadline": the run has a deadline; "share": the
\* finished session is exported; "signal": a child dies of a signal nobody sent;
\* "reload": Pi is reloaded.
Fault == {"kill", "stale", "budget", "deadline", "share", "signal", "reload"}

ASSUME RunAssumption ==
    /\ Concurrency \in Nat \ {0}
    /\ Retries \in Nat
    /\ \A s \in Scenarios : s.calls \in Nat /\ s.appends \in Nat /\ s.faults \subseteq Fault

VARIABLES
    scenario,   \* the scenario of this behaviour
    plan,       \* steps: the chain, with what was appended
    cursor,     \* stepCursor
    pc,         \* where the runner's main flow is
    payload,    \* statusPayload
    flags,      \* stopped, timedOut, interrupted, turn, usage, rejected
    child,      \* of each flat step: its process, attempts so far and outcome
    decision,   \* pendingCheckpointDecision
    status,     \* status.json
    resultFile, \* the state a result file on disk tells, or "none"
    inbox,      \* the request files of the control inbox
    appends,    \* how many append requests wait on disk
    call,       \* what Pi is in the middle of
    job,        \* the state of the run in Pi's job tracker, or "none"
    cleanup,    \* whether a cleanup timer runs for that job
    told,       \* the results Pi has told, in order
    remembered, \* whether completionSeen has the key of the run
    asked       \* how often Pi has asked for what

memory == <<scenario, plan, cursor, pc, payload, flags, child, decision>>
pi == <<call, job, cleanup, told, remembered, asked>>
vars == <<scenario, plan, cursor, pc, payload, flags, child, decision,
          status, resultFile, inbox, appends, call, job, cleanup, told, remembered, asked>>

NoCall == [op |-> "none"]
Control == {"stop", "interrupt", "approved", "rejected"}
Slots(steps) == UNION {steps[k].slots : k \in DOMAIN steps}

\* A step of the chain has one flat step, a group any number; they are numbered through.
ChainStep ==
    [kind : {"task", "checkpoint"}, slots : SUBSET Nat]
        \cup [kind : {"group"}, slots : SUBSET Nat, failFast : BOOLEAN]

Numbered(steps, n) ==
    /\ \A k \in DOMAIN steps : steps[k].slots \subseteq 1..n
    /\ \A i \in 1..n : \E k \in DOMAIN steps : i \in steps[k].slots
    /\ \A k \in DOMAIN steps : steps[k].kind # "group" => \E i \in steps[k].slots : steps[k].slots = {i}
    /\ \A k, l \in DOMAIN steps : k < l => \A i \in steps[k].slots, j \in steps[l].slots : i < j

ASSUME PlanAssumption ==
    \A s \in Scenarios :
        /\ s.plan \in Seq(ChainStep)
        /\ IsFiniteSet(Slots(s.plan))
        /\ Numbered(s.plan, Cardinality(Slots(s.plan)))

Unstarted == [proc |-> "none", tries |-> 0, outcome |-> "none"]

Init ==
    /\ scenario \in Scenarios
    /\ plan = scenario.plan
    /\ cursor = 0
    /\ pc = "loop"
    /\ payload = [state |-> "running", step |-> [i \in 1..Cardinality(Slots(plan)) |-> "pending"],
                  error |-> FALSE, checkpoint |-> FALSE, appends |-> 0]
    /\ flags = {}
    /\ child = [i \in 1..Cardinality(Slots(plan)) |-> Unstarted]
    /\ decision = "none"
    /\ status = payload
    /\ resultFile = "none"
    /\ inbox = {}
    /\ appends = 0
    /\ call = NoCall
    /\ job = "queued"
    /\ cleanup = FALSE
    /\ told = <<>>
    /\ remembered = FALSE
    /\ asked = [op \in Control \cup {"append"} |-> 0]

Up == pc \notin {"exited", "dead"}

\* Every change of statusPayload that matters is followed by writeStatusPayload.
Saved(p) ==
    /\ payload' = p
    /\ status' = p

Marked(steps, from, to) ==
    [i \in DOMAIN steps |-> IF steps[i] \in from THEN to ELSE steps[i]]

(***************************************************************************)
(* The main loop: one pass, from its top to the first await.               *)
(***************************************************************************)
\* consumePendingAppendRequests: every appended step is a single task here.
LongerPlan ==
    plan \o [k \in 1..appends |-> [kind |-> "task", slots |-> {Len(child) + k}]]

AppendsTaken ==
    /\ plan' = LongerPlan
    /\ child' = child \o [k \in 1..appends |-> Unstarted]
    /\ appends' = 0

LongerPayload ==
    [payload EXCEPT !.step = @ \o [k \in 1..appends |-> "pending"], !.appends = 0]

AtTop == pc = "loop" /\ flags = {}

\* The loop ends at once when the run was interrupted, stopped or timed out, or a
\* child has spent its turns.
LeavesLoop ==
    /\ pc = "loop"
    /\ flags # {}
    /\ pc' = "wrapUp"
    /\ UNCHANGED <<scenario, plan, cursor, payload, flags, child, decision,
                   status, resultFile, inbox, appends, pi>>

RunsOut ==
    /\ AtTop
    /\ cursor = Len(plan)
    /\ appends = 0
    /\ pc' = "wrapUp"
    /\ Saved(LongerPayload)
    /\ UNCHANGED <<scenario, plan, cursor, flags, child, decision, resultFile, inbox, appends, pi>>

UsageSpent ==
    /\ AtTop
    /\ "budget" \in scenario.faults
    /\ cursor < Len(LongerPlan)
    /\ AppendsTaken
    /\ flags' = {"usage"}
    /\ Saved([LongerPayload EXCEPT !.state = "failed", !.error = TRUE])
    /\ pc' = "wrapUp"
    /\ UNCHANGED <<scenario, cursor, decision, resultFile, inbox, pi>>

Spawned(c) == [c EXCEPT !.proc = IF "interrupted" \in flags THEN "interrupted" ELSE "up"]

StartsTask ==
    /\ AtTop
    /\ cursor < Len(LongerPlan)
    /\ LongerPlan[cursor + 1].kind = "task"
    /\ LET i == CHOOSE s \in LongerPlan[cursor + 1].slots : TRUE IN
         /\ child' = [child \o [k \in 1..appends |-> Unstarted] EXCEPT ![i] = Spawned(@)]
         /\ Saved([LongerPayload EXCEPT !.step[i] = "running"])
    /\ plan' = LongerPlan
    /\ appends' = 0
    /\ cursor' = cursor + 1
    /\ pc' = "children"
    /\ UNCHANGED <<scenario, flags, decision, resultFile, inbox, pi>>

StartsGroup ==
    /\ AtTop
    /\ cursor < Len(LongerPlan)
    /\ LongerPlan[cursor + 1].kind = "group"
    /\ AppendsTaken
    /\ Saved(LongerPayload)
    /\ cursor' = cursor + 1
    /\ pc' = "children"
    /\ UNCHANGED <<scenario, flags, decision, resultFile, inbox, pi>>

ReachesCheckpoint ==
    /\ AtTop
    /\ cursor < Len(LongerPlan)
    /\ LongerPlan[cursor + 1].kind = "checkpoint"
    /\ AppendsTaken
    /\ LET i == CHOOSE s \in LongerPlan[cursor + 1].slots : TRUE IN
         Saved([LongerPayload EXCEPT !.state = "paused", !.checkpoint = TRUE, !.step[i] = "paused"])
    /\ cursor' = cursor + 1
    /\ pc' = "checkpoint"
    /\ UNCHANGED <<scenario, flags, decision, resultFile, inbox, pi>>

\* waitForCheckpointDecision has returned. It would return without a decision when
\* the run is interrupted, stopped or timed out, but no handler does that to a run
\* that is not "running".
Approved ==
    /\ pc = "checkpoint"
    /\ decision = "approved"
    /\ decision' = "none"
    /\ LET i == CHOOSE s \in plan[cursor].slots : TRUE IN
         Saved([payload EXCEPT !.state = "running", !.step[i] = "complete"])
    /\ pc' = "loop"
    /\ UNCHANGED <<scenario, plan, cursor, flags, child, resultFile, inbox, appends, pi>>

Rejected ==
    /\ pc = "checkpoint"
    /\ decision = "rejected"
    /\ decision' = "none"
    /\ flags' = flags \cup {"rejected"}
    /\ LET i == CHOOSE s \in plan[cursor].slots : TRUE IN
         Saved([payload EXCEPT !.state = "rejected", !.error = TRUE, !.step[i] = "rejected"])
    /\ pc' = "wrapUp"
    /\ UNCHANGED <<scenario, plan, cursor, child, resultFile, inbox, appends, pi>>

(***************************************************************************)
(* Children. "gate" is a success whose acceptance gate rejects it, "retry" *)
(* a failure another model or another start may mend, "cut" a child that   *)
(* was interrupted and "cutEmpty" one that had said nothing by then.       *)
(***************************************************************************)
Working == {"up", "interrupted", "killed"}
Current == plan[cursor].slots
InFlight == {i \in Current : child[i].proc \in Working \cup {"closed"}}

\* mapConcurrent hands the tasks of a group to its workers in order.
NextTask(i) ==
    /\ pc = "children"
    /\ i \in Current
    /\ child[i].proc = "none"
    /\ \A j \in Current : j < i => child[j].proc # "none"
    /\ Cardinality(InFlight) < Concurrency

AwaitsChildren == pc = "children" /\ \A i \in Current : ~ NextTask(i)

OutcomesOf(proc) ==
    CASE proc = "up" -> {"ok", "gate", "bad", "retry"} \cup ({"signal"} \cap scenario.faults)
      [] proc = "interrupted" -> {"cut", "cutEmpty"}
      [] proc = "killed" -> {"bad"}

ChildCloses(i) ==
    /\ AwaitsChildren
    /\ i \in Current
    /\ child[i].proc \in Working
    /\ \E o \in OutcomesOf(child[i].proc) :
         child' = [child EXCEPT ![i].proc = "closed", ![i].outcome = o]
    /\ UNCHANGED <<scenario, plan, cursor, pc, payload, flags, decision,
                   status, resultFile, inbox, appends, pi>>

\* Bug: a stopped or timed-out run tries the next model all the same.
RetriesRegardless(i) ==
    child[i].outcome \in {"retry", "cutEmpty"} /\ child[i].tries < Retries

\* Whether runSingleStep makes another attempt; an interrupt does not prevent it.
Retrying(i) ==
    /\ child[i].outcome \in {"retry", "cutEmpty"}
    /\ child[i].tries < Retries
    /\ flags \cap {"stopped", "timedOut"} = {}

ChildRetried(i) ==
    /\ AwaitsChildren
    /\ i \in Current
    /\ child[i].proc = "closed"
    /\ Retrying(i)
    /\ child' = [child EXCEPT ![i] = Spawned([child[i] EXCEPT !.tries = @ + 1, !.outcome = "none"])]
    /\ UNCHANGED <<scenario, plan, cursor, pc, payload, flags, decision,
                   status, resultFile, inbox, appends, pi>>

EndStatus(i) ==
    CASE "stopped" \in flags -> "stopped"
      [] "stopped" \notin flags /\ "timedOut" \in flags -> "failed"
      [] OTHER -> CASE child[i].outcome \in {"cut", "cutEmpty"} -> "paused"
                    [] child[i].outcome \in {"ok", "gate"} -> "complete"
                    [] OTHER -> "failed"

\* The outcome in `results`: a stopped or timed-out child has failed.
Result(i) == IF flags \cap {"stopped", "timedOut"} # {} THEN "bad" ELSE child[i].outcome

AllOver(kids) == \A i \in Current : kids[i].proc = "over"

ChildEnds(i) ==
    /\ AwaitsChildren
    /\ i \in Current
    /\ child[i].proc = "closed"
    /\ ~ Retrying(i)
    /\ child' = [child EXCEPT ![i].proc = "over", ![i].outcome = Result(i)]
    /\ Saved([payload EXCEPT !.step[i] = EndStatus(i)])
    /\ pc' = IF AllOver(child') THEN "stepEnd" ELSE pc
    /\ UNCHANGED <<scenario, plan, cursor, flags, decision, resultFile, inbox, appends, pi>>

FailedFast ==
    /\ plan[cursor].failFast
    /\ \E j \in Current : child[j].proc = "over" /\ child[j].outcome \in {"bad", "retry", "signal"}

TaskSkipped == flags \cap {"timedOut", "stopped", "interrupted"} # {} \/ FailedFast

SkipsTask(i) ==
    /\ NextTask(i)
    /\ TaskSkipped
    /\ child' = [child EXCEPT ![i].proc = "over", ![i].outcome = "skip"]
    /\ Saved(IF flags \cap {"timedOut", "stopped", "interrupted"} = {}
             THEN [payload EXCEPT !.step[i] = "failed"] ELSE payload)
    /\ pc' = IF AllOver(child') THEN "stepEnd" ELSE pc
    /\ UNCHANGED <<scenario, plan, cursor, flags, decision, resultFile, inbox, appends, pi>>

\* The usage budget is asked first.
TaskUnaffordable(i) ==
    /\ NextTask(i)
    /\ "budget" \in scenario.faults
    /\ child' = [child EXCEPT ![i].proc = "over", ![i].outcome = "bad"]
    /\ flags' = flags \cup {"usage"}
    /\ Saved([payload EXCEPT !.step[i] = "failed"])
    /\ pc' = IF AllOver(child') THEN "stepEnd" ELSE pc
    /\ UNCHANGED <<scenario, plan, cursor, decision, resultFile, inbox, appends, pi>>

StartsGroupTask(i) ==
    /\ NextTask(i)
    /\ ~ TaskSkipped
    /\ child' = [child EXCEPT ![i] = Spawned(@)]
    /\ Saved([payload EXCEPT !.step[i] = "running"])
    /\ UNCHANGED <<scenario, plan, cursor, pc, flags, decision, resultFile, inbox, appends, pi>>

\* A child spends its last turn; the run goes on "running" until it has ended.
TurnsSpent(i) ==
    /\ AwaitsChildren
    /\ "budget" \in scenario.faults
    /\ i \in Current
    /\ child[i].proc \in {"up", "interrupted"}
    /\ flags \cap {"timedOut", "stopped", "turn"} = {}
    /\ flags' = flags \cup {"turn"}
    /\ Saved([payload EXCEPT !.error = TRUE])
    /\ child' = [child EXCEPT ![i].proc = "killed"]
    /\ UNCHANGED <<scenario, plan, cursor, pc, decision, resultFile, inbox, appends, pi>>

\* An acceptance gate or a failure ends the chain.
Failures == {"bad", "retry", "signal", "cutEmpty"}

StepEnds ==
    /\ pc = "stepEnd"
    /\ LET outcomes == {child[i].outcome : i \in Current}
           gated == "gate" \in outcomes
       IN /\ Saved([payload EXCEPT !.error = @ \/ gated])
          /\ pc' = IF gated \/ outcomes \cap Failures # {} THEN "wrapUp" ELSE "loop"
    /\ UNCHANGED <<scenario, plan, cursor, flags, child, decision, resultFile, inbox, appends, pi>>

(***************************************************************************)
(* Handlers of the control inbox, of the interrupt signal and of the       *)
(* deadline. A signal may overtake a request file, so no order is assumed. *)
(***************************************************************************)
Awaits ==
    \/ AwaitsChildren
    \/ pc = "checkpoint" /\ decision = "none"
    \/ pc = "wrapUp" /\ "share" \in scenario.faults

\* Bug: the children are not told.
Unsignalled(to) == child

\* stopActiveChildren, timeoutActiveChildren, interruptActiveChildren.
Signalled(to) == [i \in DOMAIN child |->
    IF child[i].proc \in {"up", "interrupted"} THEN [child[i] EXCEPT !.proc = to] ELSE child[i]]

EndsRun(flag, state, mark) ==
    /\ flags' = flags \cup {flag}
    /\ Saved([payload EXCEPT !.state = state, !.error = TRUE,
                             !.step = Marked(@, {"running", "pending"}, mark)])
    /\ child' = Signalled("killed")

\* The guard of all three handlers. (interruptRunner does not ask for `stopped` and
\* `timedOut`: such a run is not "running".)
MayEnd ==
    /\ flags \cap {"stopped", "timedOut", "interrupted"} = {}
    /\ payload.state = "running"

Ignored == UNCHANGED <<payload, flags, child, status>>

HandlesStop ==
    /\ Awaits
    /\ "stop" \in inbox
    /\ inbox' = inbox \ {"stop"}
    /\ IF MayEnd THEN EndsRun("stopped", "stopped", "stopped") ELSE Ignored
    /\ UNCHANGED <<scenario, plan, cursor, pc, decision, resultFile, appends, pi>>

DeadlinePasses ==
    /\ Awaits
    /\ "deadline" \in scenario.faults
    /\ MayEnd
    /\ EndsRun("timedOut", "failed", "failed")
    /\ UNCHANGED <<scenario, plan, cursor, pc, decision, resultFile, inbox, appends, pi>>

HandlesInterrupt ==
    /\ Awaits
    /\ "interrupt" \in inbox
    /\ inbox' = inbox \ {"interrupt"}
    /\ IF MayEnd
       THEN /\ flags' = flags \cup {"interrupted"}
            /\ Saved([payload EXCEPT !.state = "paused", !.step = Marked(@, {"running"}, "paused")])
            /\ child' = Signalled("interrupted")
       ELSE Ignored
    /\ UNCHANGED <<scenario, plan, cursor, pc, decision, resultFile, appends, pi>>

\* Bug: the request file stays.
KeptRequest(op) == inbox

Taken(op) == inbox \ {op}

\* A rejection is looked for first.
HandlesDecision ==
    /\ Awaits
    /\ inbox \cap {"approved", "rejected"} # {}
    /\ decision' = IF "rejected" \in inbox THEN "rejected" ELSE "approved"
    /\ inbox' = Taken(decision')
    /\ UNCHANGED <<scenario, plan, cursor, pc, payload, flags, child, status, resultFile, appends, pi>>

(***************************************************************************)
(* The end of the run. The inbox is closed, the status written, and then   *)
(* the result; a runner may die between the two.                           *)
(***************************************************************************)
AllSucceeded == \A i \in DOMAIN child : child[i].outcome \in {"none", "ok", "gate"}

SignalTerminated ==
    /\ flags \cap {"stopped", "timedOut", "turn", "interrupted"} = {}
    /\ \E i \in DOMAIN child : child[i].outcome = "signal"

\* The state of the run; `failed` tells whether an error counts as a failure.
FinalState(failed) ==
    IF "rejected" \in flags THEN "rejected"
    ELSE IF "stopped" \in flags \/ SignalTerminated THEN "stopped"
    ELSE IF flags \cap {"timedOut", "turn", "usage"} # {} \/ failed THEN "failed"
    ELSE IF "interrupted" \in flags THEN "paused"
    ELSE IF AllSucceeded THEN "complete" ELSE "failed"

Finalises ==
    /\ pc = "wrapUp"
    /\ Saved([payload EXCEPT !.state = FinalState(payload.error)])
    /\ pc' = "result"
    /\ UNCHANGED <<scenario, plan, cursor, flags, child, decision, resultFile, inbox, appends, pi>>

\* The result does not look at statusPayload.error.
WritesResult ==
    /\ pc = "result"
    /\ resultFile' = FinalState(FALSE)
    /\ pc' = "exited"
    /\ UNCHANGED <<scenario, plan, cursor, payload, flags, child, decision, status, inbox, appends, pi>>

Dies ==
    /\ "kill" \in scenario.faults
    /\ Up
    /\ pc' = "dead"
    /\ UNCHANGED <<scenario, plan, cursor, payload, flags, child, decision,
                   status, resultFile, inbox, appends, pi>>

(***************************************************************************)
(* Pi: tool actions on the run. Each reads status.json, then acts.         *)
(***************************************************************************)
Open(steps) == \E i \in DOMAIN steps : steps[i] \in {"running", "pending"}

AcceptsAppend(s) ==
    /\ asked["append"] < scenario.appends
    /\ s.state = "running"
    /\ Open(s.step) \/ s.appends > 0

Requested == asked["stop"] + asked["interrupt"] + asked["approved"] + asked["rejected"]

Accepts(op, s) ==
    \/ op \in {"stop", "interrupt"} /\ Requested < scenario.calls /\ s.state = "running"
    \/ op \in {"approved", "rejected"} /\ Requested < scenario.calls /\ s.checkpoint /\ s.state = "paused"
    \/ op = "append" /\ AcceptsAppend(s)

\* interruptAsyncRun and stopAsyncRun reconcile first: a dead runner refuses them.
Calls(op) ==
    /\ call = NoCall
    /\ Accepts(op, status)
    /\ op \in {"stop", "interrupt"} => Up
    /\ call' = [op |-> op, read |-> status]
    /\ UNCHANGED <<memory, status, resultFile, inbox, appends, job, cleanup, told, remembered, asked>>

\* An interrupt whose signal finds no process takes its request file back.
Requests ==
    /\ call.op \in Control
    /\ inbox' = IF call.op = "interrupt" /\ ~ Up THEN inbox ELSE inbox \cup {call.op}
    /\ asked' = [asked EXCEPT ![call.op] = @ + 1]
    /\ call' = NoCall
    /\ UNCHANGED <<memory, status, resultFile, appends, job, cleanup, told, remembered>>

\* enqueueChainAppendRequest: the request, then the status it has read.
Appends ==
    /\ call.op = "append"
    /\ appends' = appends + 1
    /\ status' = [call.read EXCEPT !.appends = appends']
    /\ asked' = [asked EXCEPT !["append"] = @ + 1]
    /\ call' = NoCall
    /\ UNCHANGED <<memory, resultFile, inbox, job, cleanup, told, remembered>>

(***************************************************************************)
(* Pi: the tracker polls, and reconciles as it does.                       *)
(***************************************************************************)
\* Bug: only success and failure count as final.
Done == {"complete", "failed"}

Final == {"complete", "failed", "paused", "stopped"}

Polls ==
    /\ call = NoCall
    /\ job # "none"
    /\ call' = [op |-> "poll", read |-> status]
    /\ UNCHANGED <<memory, status, resultFile, inbox, appends, job, cleanup, told, remembered, asked>>

\* terminalStatusFromResult.
Repaired(s, state) ==
    [s EXCEPT !.state = IF state \in Final THEN state ELSE "failed",
              !.step = Marked(@, {"running", "pending"}, IF state \in Final THEN state ELSE "failed")]

Failed(s) ==
    [s EXCEPT !.state = "failed", !.step = Marked(@, {"running", "pending"}, "failed")]

\* Bug: the runner is given up although its process is alive.
GivenUpAlive(s) == s.state = "running"

\* Bug: only age counts.
GivenUpWhenOld(s) == s.state = "running" /\ "stale" \in scenario.faults

GivenUp(s) == s.state = "running" /\ (~ Up \/ "stale" \in scenario.faults)

\* What the tracker makes of a state: a final one is cleaned up after a while. After
\* a reload only a running run is tracked again.
Tracks(state) ==
    \/ /\ call.op = "poll"
       /\ job' = state
       /\ cleanup' = (state \in Final)
    \/ /\ call.op = "reload"
       /\ job' = IF state = "running" THEN "running" ELSE "none"
       /\ cleanup' = FALSE

Reconciles ==
    /\ call.op \in {"poll", "reload"}
    /\ call' = NoCall
    /\ \/ /\ resultFile # "none"
          /\ call.read.state = "running"
          /\ status' = Repaired(call.read, resultFile)
          /\ Tracks(status'.state)
          /\ UNCHANGED resultFile
       \/ /\ resultFile # "none"
          /\ call.read.state # "running"
          /\ Tracks(call.read.state)
          /\ UNCHANGED <<status, resultFile>>
       \/ /\ resultFile = "none"
          /\ GivenUp(call.read)
          /\ resultFile' = "failed"
          /\ status' = Failed(call.read)
          /\ Tracks("failed")
       \/ /\ resultFile = "none"
          /\ ~ GivenUp(call.read)
          /\ Tracks(call.read.state)
          /\ UNCHANGED <<status, resultFile>>
    /\ UNCHANGED <<memory, inbox, appends, told, remembered, asked>>

CleanedUp ==
    /\ call = NoCall
    /\ cleanup
    /\ job' = "none"
    /\ cleanup' = FALSE
    /\ UNCHANGED <<memory, status, resultFile, inbox, appends, call, told, remembered, asked>>

\* The result watcher tells the result (ResultDelivery tells how) and remembers the
\* key of the run, which all its results share; the tracker hears of it.
TakesResult ==
    /\ call = NoCall
    /\ resultFile # "none"
    /\ ~ remembered
    /\ told' = Append(told, resultFile)
    /\ remembered' = TRUE
    /\ resultFile' = "none"
    /\ job' = IF job = "none" THEN job ELSE resultFile
    /\ cleanup' = (job # "none")
    /\ UNCHANGED <<memory, status, inbox, appends, call, asked>>

\* A further result of a run it remembers is deleted untold.
DropsResult ==
    /\ call = NoCall
    /\ resultFile # "none"
    /\ remembered
    /\ resultFile' = "none"
    /\ UNCHANGED <<memory, status, inbox, appends, pi>>

\* Ten minutes have passed, or the memory went with the process of Pi.
ForgetsResult ==
    /\ remembered
    /\ remembered' = FALSE
    /\ UNCHANGED <<memory, status, resultFile, inbox, appends, call, job, cleanup, told, asked>>

\* resetJobs and restoreActiveJobs.
Reloads ==
    /\ "reload" \in scenario.faults
    /\ call = NoCall
    /\ job' = "none"
    /\ cleanup' = FALSE
    /\ call' = [op |-> "reload", read |-> status]
    /\ UNCHANGED <<memory, status, resultFile, inbox, appends, told, remembered, asked>>

MainFlow ==
    \/ LeavesLoop \/ RunsOut \/ UsageSpent \/ StartsTask \/ StartsGroup \/ ReachesCheckpoint
    \/ Approved \/ Rejected \/ StepEnds \/ Finalises \/ WritesResult
    \/ \E i \in DOMAIN child :
         ChildRetried(i) \/ ChildEnds(i) \/ SkipsTask(i) \/ TaskUnaffordable(i) \/ StartsGroupTask(i)

Runner ==
    \/ MainFlow
    \/ \E i \in DOMAIN child : ChildCloses(i) \/ TurnsSpent(i)
    \/ HandlesStop \/ HandlesInterrupt \/ HandlesDecision \/ DeadlinePasses \/ Dies

Pi ==
    \/ \E op \in Control \cup {"append"} : Calls(op)
    \/ Requests \/ Appends \/ Polls \/ Reconciles \/ CleanedUp \/ Reloads
    \/ TakesResult \/ DropsResult \/ ForgetsResult

Next == Runner \/ Pi

Spec == Init /\ [][Next]_vars
================================================================================
