--------------------------------- MODULE MCRun ---------------------------------
(***************************************************************************)
(* Runs for TLC of the two components that live on after the call that     *)
(* made them: a background run, with the calls, appended steps and faults  *)
(* it meets, and the scheduled runs of a session. They share no state;     *)
(* each behaviour moves one of them.                                       *)
(***************************************************************************)
EXTENDS RunProperties, ScheduledRuns

CONSTANTS
    j1, j2, j3

VARIABLE
    focus       \* the component that moves

ScheduledJobs == {j1, j2, j3}
FarJobs == {j1}

Task(i) == [kind |-> "task", slots |-> {i}]
Checkpoint(i) == [kind |-> "checkpoint", slots |-> {i}]
Group(s) == [kind |-> "group", slots |-> s, failFast |-> TRUE]
Case(chain, callBound, appendBound, mishaps) ==
    [plan |-> chain, calls |-> callBound, appends |-> appendBound, faults |-> mishaps]

Quiet == Case(<<Task(1)>>, 0, 0, {"stale"})

Several ==
    { Case(<<Group({1, 2})>>, 1, 0, {"budget", "signal", "deadline"}),
      Case(<<Task(1), Checkpoint(2), Task(3)>>, 1, 0, {"kill", "reload"}),
      Case(<<Checkpoint(1), Checkpoint(2)>>, 2, 0, {"reload"}),
      Case(<<Task(1)>>, 1, 1, {"share"}),
      Quiet }

\* One task, to which one step is appended.
Appended == { Case(<<Task(1)>>, 0, 1, {}) }

MCInit ==
    /\ Init /\ ScheduledInit
    /\ focus = "run" \/ (focus = "schedule" /\ scenario = Quiet)

MCNext ==
    /\ UNCHANGED focus
    /\ \/ focus = "run" /\ Next /\ UNCHANGED scheduledVars
       \/ focus = "schedule" /\ ScheduledNext /\ UNCHANGED vars

MCSpec == MCInit /\ [][MCNext]_<<focus, vars, scheduledVars>>

MCFairSpec == MCSpec /\ (focus = "run" => Fairness) /\ ScheduledFairness
================================================================================
