-------------------------- MODULE WorkflowProperties --------------------------
(***************************************************************************)
(* What the Supervisor workflow engine promises: the properties of Workflow *)
(* that TLC checks on small instances and WorkflowProofs proves.           *)
(***************************************************************************)
EXTENDS Workflow

(***************************************************************************)
(* Every variable has its type. WorkflowRun is types.ts's WorkflowRun.     *)
(***************************************************************************)
TypeOK ==
    /\ run \in WorkflowRun
    /\ sched \in [Sched -> Scheduler]
    /\ child \in [Node -> [1..AttemptCap -> Child]]
    /\ up \in BOOLEAN
    /\ gateFailures \in Nat
    /\ binding \in BOOLEAN

(***************************************************************************)
(* The state of a node and its attempt history never disagree: only the    *)
(* last attempt may be live, the node is live exactly when it is, an       *)
(* accepted or completed node ends in a completed attempt, and a node that *)
(* still waits for its dependencies has made no attempt. It is what lets   *)
(* recovery (controller.ts:215-347) read the last attempt alone.           *)
(***************************************************************************)
CoherentNode(v) ==
    /\ \A k \in 1..Len(v.attempts) :
          k < Len(v.attempts) => v.attempts[k] \in TerminalAttempt
    /\ v.status \in LiveAttempt \/ LastAttempt(v) \in LiveAttempt => v.status = LastAttempt(v)
    /\ v.status \in {"completed", "accepted"} => LastAttempt(v) = "completed"
    /\ v.status = "failed" => LastAttempt(v) \in {"failed", "fatal"}
    /\ v.status = "cancelled" => LastAttempt(v) # "completed"
    /\ v.status \in {"absent", "pending", "ready"} => v.attempts = <<>>

AttemptsCoherent == \A n \in Node : CoherentNode(run.nodes[n])

(***************************************************************************)
(* No node makes more attempts than its ceiling: the run's maxNodeAttempts, *)
(* or the one a reopen granted, whatever retries, crashes and late answers *)
(* happen (retry-policy.ts, reducer.ts:343-348).                           *)
(***************************************************************************)
Ceiling(v) == IF v.maxAttempts = 0 THEN MaxNodeAttempts ELSE v.maxAttempts

AttemptCeilingHeld == \A n \in Node : Len(run.nodes[n].attempts) <= Ceiling(run.nodes[n])

(***************************************************************************)
(* "ready" is never stale: a node that has not been started is ready       *)
(* exactly when each dependency is accepted, or superseded by a chain that *)
(* ends at an accepted node (reducer.ts refreshReadiness).                 *)
(***************************************************************************)
ReadinessCurrent ==
    \A n \in Node :
        /\ run.nodes[n].status = "ready"   => DependenciesAccepted(run, n)
        /\ run.nodes[n].status = "pending" => ~ DependenciesAccepted(run, n)

(***************************************************************************)
(* Retiring a node never strands its dependents: supersession has no loop  *)
(* and every chain of it ends at an accepted node that has run, so a       *)
(* superseded dependency counts as accepted (effective-nodes.ts:11-19).    *)
(***************************************************************************)
Superseded(r) == {n \in Node : r.nodes[n].status = "superseded"}

SupersessionResolves ==
    /\ \A n \in Superseded(run) :
          LET by == run.nodes[n].supersededBy
          IN  /\ by \in Node
              /\ run.nodes[by].status \in {"accepted", "superseded"}
              /\ run.nodes[by].attempts # <<>>
    /\ \A S \in SUBSET Superseded(run) :
          S # {} => \E n \in S : run.nodes[n].supersededBy \notin S

(***************************************************************************)
(* The attempt history is immutable (README: "immutable attempt history"): *)
(* no step removes an attempt or changes one that has ended.               *)
(***************************************************************************)
KeepsHistory(old, new) ==
    /\ Len(old.attempts) <= Len(new.attempts)
    /\ \A k \in 1..Len(old.attempts) :
          old.attempts[k] \in TerminalAttempt => new.attempts[k] = old.attempts[k]

AttemptHistoryImmutable == [][\A n \in Node : KeepsHistory(run.nodes[n], run'.nodes[n])]_vars

(***************************************************************************)
(* The run implements the ledger it promises (AttemptLedger): the attempt  *)
(* history is append-only and a result once accepted keeps satisfying      *)
(* those who depend on it, also after its node is superseded. A node that  *)
(* was superseded before it ran may be planned anew, so the promise is     *)
(* about nodes that have run.                                              *)
(***************************************************************************)
Ledger == INSTANCE AttemptLedger WITH
    Open      <- LiveAttempt,
    Closed    <- TerminalAttempt,
    history   <- [n \in Node |-> run.nodes[n].attempts],
    satisfied <- {n \in Node : run.nodes[n].attempts # <<>> /\ dependencyIsAccepted(run, n)}

ImplementsLedger == Ledger!Spec

(***************************************************************************)
(* A detached attempt completes only with the result of its own child:     *)
(* a late report never lands on a newer attempt of the node, and recovery  *)
(* never invents one (controller.ts:147-307).                              *)
(***************************************************************************)
DetachedCompletionGenuine ==
    \A n \in Node : \A k \in 1..Len(run.nodes[n].attempts) :
        run.nodes[n].attempts[k] = "completed" /\ child[n][k].detached
            => child[n][k].outcome = "completed"

(***************************************************************************)
(* The answer a worker awaits is always for the attempt its node is        *)
(* making: nothing that happens while it waits (cancel, stop, crash        *)
(* recovery, a late completion) ends that attempt behind its back. Only in *)
(* the absence of IO faults (scheduler.ts:545, controller.ts:331-347).     *)
(***************************************************************************)
InFlightIsRunning ==
    \A s \in Sched : \A n \in Flying(s) :
        /\ sched[s].awaited
        /\ run.nodes[n].status = "running"
        /\ sched[s].flights[n] = Len(run.nodes[n].attempts)

(***************************************************************************)
(* Pausing or stopping stops new scheduling, also that of workers already  *)
(* under way and of a resume or a session start that recovers the run      *)
(* first (recovery-and-stop.md:7: "pause stops new scheduling";            *)
(* scheduler.ts:342-347).                                                  *)
(***************************************************************************)
Begins(n) == Len(run.nodes[n].attempts) < Len(run'.nodes[n].attempts)

StartsOnlyWhenActive == [][\A n \in Node : Begins(n) => run'.status = "active"]_vars

(***************************************************************************)
(* A completed run is settled: every node that ever ran is adjudicated, so *)
(* no child is in flight or detached, and work planned after completion    *)
(* never starts, whichever schedulers were under way (controller.ts        *)
(* complete, apply_plan).                                                  *)
(***************************************************************************)
CompletedRunSettled ==
    run.status = "completed" =>
        \A n \in Node : \/ isAdjudicatedStatus(run.nodes[n].status)
                        \/ run.nodes[n].attempts = <<>>

(***************************************************************************)
(* Three quality-gate refusals stop a deep-research run, and it leaves the *)
(* stop only through a repair, which clears the count                      *)
(* (controller.ts:965-985, 902, 930, 1061).                                *)
(***************************************************************************)
AutoStopHolds == gateFailures >= 3 => run.status \in {"stopped", "completed"}

(***************************************************************************)
(* Fairness. A delegated child answers its worker in the end, a scheduler  *)
(* whose workers have returned goes on, time passes, and Pi is started     *)
(* again after it died. Nothing is assumed of detached children, nor of    *)
(* the Supervisor: no turn need ever be taken and no call need ever come.  *)
(* It is the fairness of a session with a UI, where the Activity Dock      *)
(* reads the run on a 500 ms timer, through current(), as long as the      *)
(* binding lets it (activity-dock.ts:433, 459, extension/index.ts:264-273).*)
(* In a session without one nothing reads it but a turn or a call.         *)
(***************************************************************************)
DockRefreshes == binding /\ ReadRun /\ PersistedIfRecovered

Fairness ==
    /\ \A s \in Sched, n \in Node :
          WF_vars((\E answer \in Answers : Land(s, n, answer)) /\ Persisted)
    /\ \A s \in Sched : WF_vars(RunReadyReturns(s) /\ Persisted)
    /\ \A n \in Node : WF_vars(DeadlinePasses(n) /\ UNCHANGED binding)
    /\ WF_vars(SessionStart /\ PersistedIfRecovered)
    /\ WF_vars(DockRefreshes)

FairSpec == Spec /\ Fairness

(***************************************************************************)
(* In a session with a UI no node stays live for ever, whatever the        *)
(* Supervisor does: the answer, the wait deadline or recovery ends its     *)
(* attempt, unless the run is stopped or completed, or the session's       *)
(* binding is stale.                                                       *)
(***************************************************************************)
NodeIsLive(n) == run.nodes[n].status \in LiveAttempt

LiveNodeSettles ==
    \A n \in Node : NodeIsLive(n) ~> (~ NodeIsLive(n) \/ ~ IsLive(run) \/ ~ binding)
===============================================================================
