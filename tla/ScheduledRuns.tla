----------------------------- MODULE ScheduledRuns -----------------------------
(***************************************************************************)
(* The scheduled runs of one session (src/runs/background/                 *)
(* scheduled-runs.ts): jobs persisted in a file, a timer per job in the Pi *)
(* process that has the session open, and the launch of a job that is due, *)
(* which is awaited. Pi may close and open the session, and die, at any    *)
(* time; one process at a time has it open.                                *)
(***************************************************************************)
EXTENDS Naturals, FiniteSets

CONSTANTS
    Job,
    Far,        \* jobs whose time is further away than a timer can wait (24.8 days)
    MaxPending  \* resolveMaxPending

ASSUME ScheduledAssumption == Far \subseteq Job /\ MaxPending \in Nat \ {0}

VARIABLES
    jobs,       \* the file: the state of each job, "none" before it is created
    clock,      \* of each job: before its time, due, or later than maxLatenessMs
    bound,      \* whether the manager is bound to the session
    timers,     \* jobs with a timer
    launching,  \* jobs whose launch is awaited
    launches    \* how often each job was launched

scheduledVars == <<jobs, clock, bound, timers, launching, launches>>

ScheduledInit ==
    /\ jobs = [j \in Job |-> "none"]
    /\ clock = [j \in Job |-> "early"]
    /\ bound = TRUE
    /\ timers = {}
    /\ launching = {}
    /\ launches = [j \in Job |-> 0]

Pending == {j \in Job : jobs[j] \in {"scheduled", "running"}}

CreatesJob(j) ==
    /\ bound
    /\ jobs[j] = "none"
    /\ clock[j] = "early"
    /\ Cardinality(Pending) < MaxPending
    /\ jobs' = [jobs EXCEPT ![j] = "scheduled"]
    /\ timers' = timers \cup {j}
    /\ UNCHANGED <<clock, bound, launching, launches>>

CancelsJob(j) ==
    /\ bound
    /\ jobs[j] = "scheduled"
    /\ jobs' = [jobs EXCEPT ![j] = "canceled"]
    /\ timers' = timers \ {j}
    /\ UNCHANGED <<clock, bound, launching, launches>>

(***************************************************************************)
(* fire: what a timer does, up to the await of the launch.                 *)
(***************************************************************************)
\* Bug: a timer that fired too early is not set again.
NotRearmed(j) == timers \ {j}

Rearmed(j) == timers

FiresEarly(j) ==
    /\ j \in timers \cap Far
    /\ clock[j] = "early"
    /\ timers' = Rearmed(j)
    /\ UNCHANGED <<jobs, clock, bound, launching, launches>>

FiresLate(j) ==
    /\ j \in timers
    /\ clock[j] = "late"
    /\ timers' = timers \ {j}
    /\ jobs' = [jobs EXCEPT ![j] = "missed"]
    /\ UNCHANGED <<clock, bound, launching, launches>>

\* Bug: the file learns of the launch when it has returned.
Unmarked(j) == jobs

MarkedRunning(j) == [jobs EXCEPT ![j] = "running"]

Fires(j) ==
    /\ j \in timers
    /\ clock[j] = "due"
    /\ timers' = timers \ {j}
    /\ jobs' = MarkedRunning(j)
    /\ launching' = launching \cup {j}
    /\ launches' = [launches EXCEPT ![j] = @ + 1]
    /\ UNCHANGED <<clock, bound>>

\* Whatever the job is by then; also when the session was closed meanwhile.
LaunchReturns(j) ==
    /\ j \in launching
    /\ launching' = launching \ {j}
    /\ \E state \in {"fired", "failed"} : jobs' = [jobs EXCEPT ![j] = state]
    /\ UNCHANGED <<clock, bound, timers, launches>>

(***************************************************************************)
(* bindSession, and rearmScheduledJobs within it. A manager may be bound   *)
(* again while it is bound.                                                *)
(***************************************************************************)
DueToMiss == {j \in Job : jobs[j] = "scheduled" /\ clock[j] = "late"}

BindsSession ==
    /\ bound' = TRUE
    /\ jobs' = [j \in Job |-> IF j \in DueToMiss THEN "missed" ELSE jobs[j]]
    /\ timers' = {j \in Job : jobs'[j] = "scheduled"}
    /\ UNCHANGED <<clock, launching, launches>>

StopsManager ==
    /\ bound
    /\ bound' = FALSE
    /\ timers' = {}
    /\ UNCHANGED <<jobs, clock, launching, launches>>

\* The Pi process ends, and the awaits of its launches with it.
PiDies ==
    /\ bound' = FALSE
    /\ timers' = {}
    /\ launching' = {}
    /\ UNCHANGED <<jobs, clock, launches>>

TimePasses(j) ==
    /\ jobs[j] # "none"
    /\ clock[j] # "late"
    /\ clock' = [clock EXCEPT ![j] = IF @ = "early" THEN "due" ELSE "late"]
    /\ UNCHANGED <<jobs, bound, timers, launching, launches>>

TimerRuns(j) == FiresEarly(j) \/ FiresLate(j) \/ Fires(j)

ScheduledNext ==
    \/ \E j \in Job :
          \/ CreatesJob(j) \/ CancelsJob(j) \/ TimerRuns(j) \/ LaunchReturns(j) \/ TimePasses(j)
    \/ BindsSession \/ StopsManager \/ PiDies

ScheduledSpec == ScheduledInit /\ [][ScheduledNext]_scheduledVars

\* Node runs timers, time passes, and a session that was closed is opened again.
ScheduledFairness ==
    /\ \A j \in Job : WF_scheduledVars(TimerRuns(j)) /\ WF_scheduledVars(TimePasses(j))
    /\ WF_scheduledVars(~ bound /\ BindsSession)

(***************************************************************************)
(* A job is launched at most once, and not at all if it was cancelled or   *)
(* missed, however often the session is bound while its launch is awaited. *)
(***************************************************************************)
LaunchedOnce ==
    \A j \in Job : launches[j] <= (IF jobs[j] \in {"scheduled", "canceled", "missed"} THEN 0 ELSE 1)

(***************************************************************************)
(* Every scheduled job is launched, missed or cancelled in the end, also   *)
(* one further away than a timer can wait, if timers fire and the session  *)
(* is opened again after it was closed.                                    *)
(***************************************************************************)
ScheduledJobSettles == \A j \in Job : jobs[j] = "scheduled" ~> jobs[j] # "scheduled"
===============================================================================
