----------------------------- MODULE RunProperties -----------------------------
(***************************************************************************)
(* What a background run promises to the session that started it: the      *)
(* properties of AsyncRun that TLC checks.                                 *)
(***************************************************************************)
EXTENDS AsyncRun

(***************************************************************************)
(* Once a run was stopped or timed out, no attempt with another model, no  *)
(* retried start and no worker of a group lets another child work, though  *)
(* each of them decides after an await of its own (subagent-runner.ts).    *)
(***************************************************************************)
Begins(i) == child'[i].proc = "up" /\ (i \in DOMAIN child => child[i].proc # "up")

NothingStartsOnceEnded ==
    [][(\E i \in DOMAIN child' : Begins(i))
         => flags \cap {"stopped", "timedOut", "interrupted"} = {}]_vars

(***************************************************************************)
(* "Approval resumes from that boundary" (README.md:1674): no child behind *)
(* a checkpoint works before it was approved, and an approval passes one   *)
(* checkpoint only, whatever requests cross the runner's polls.            *)
(***************************************************************************)
Checkpoints == UNION {plan[k].slots : k \in {k \in DOMAIN plan : plan[k].kind = "checkpoint"}}
Passed == {i \in Checkpoints : payload.step[i] = "complete"}

ApprovalsHeld ==
    /\ Cardinality(Passed) <= asked["approved"]
    /\ \A i \in Checkpoints \ Passed, j \in DOMAIN child : i < j => child[j].proc = "none"

(***************************************************************************)
(* A run has one result, told or waiting: the runner's, or the reconciler's *)
(* if the runner is dead, never both, so that nothing hangs on the ten     *)
(* minutes for which the watcher drops a further one. It takes that        *)
(* nothing was appended to the run, and that a living runner writes its    *)
(* status within a day.                                                    *)
(***************************************************************************)
Waiting == IF resultFile = "none" THEN 0 ELSE 1

OneResult ==
    asked["append"] = 0 /\ "stale" \notin scenario.faults => Len(told) + Waiting <= 1

(***************************************************************************)
(* "append-step ... completed ... runs reject appends" (README.md:1716): a *)
(* run that its runner has completed never fails for what is appended.     *)
(***************************************************************************)
CompletedStays == payload.state = "complete" => status.state # "failed"

(***************************************************************************)
(* Fairness: the runner goes on, a child that was killed ends, Pi's event  *)
(* loop runs what is due. Nothing is assumed of other children, of         *)
(* decisions or of requests.                                               *)
(***************************************************************************)
KilledChildCloses == \E i \in DOMAIN child : child[i].proc = "killed" /\ ChildCloses(i)

Fairness ==
    /\ WF_vars(MainFlow)
    /\ WF_vars(KilledChildCloses)
    /\ WF_vars(HandlesStop)
    /\ WF_vars(Requests \/ Appends \/ Reconciles)
    /\ WF_vars(Polls)
    /\ SF_vars(TakesResult \/ DropsResult)
    /\ SF_vars(CleanedUp)

FairSpec == Spec /\ Fairness

(***************************************************************************)
(* "stop ends a current-session top-level async run" (README.md:1712),     *)
(* whatever its children do, unless it finds the run at a checkpoint,      *)
(* where it is ignored, or interrupted, where it waits for the children.   *)
(***************************************************************************)
StopObeyed == "stop" \in inbox ~> ~ Up \/ pc = "checkpoint" \/ "interrupted" \in flags

(***************************************************************************)
(* A runner that dies while its status tells "running" is reported, as     *)
(* long as Pi tracks the run (stale-run-reconciler.ts).                    *)
(***************************************************************************)
Tracked == job # "none" /\ ~ cleanup /\ call = NoCall

DeadRunTold == pc = "dead" /\ status.state = "running" /\ Tracked ~> told # <<>>

(***************************************************************************)
(* A run that was told leaves the tracker, so that its poller ends         *)
(* (async-job-tracker.ts). A rejected run does not.                        *)
(***************************************************************************)
EndedJobDropped ==
    told # <<>> /\ "rejected" \notin flags ~> job = "none"
================================================================================
