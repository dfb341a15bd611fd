------------------------------- MODULE RunProofs -------------------------------
(***************************************************************************)
(* Proofs about the runs that live on after the call that made them: the   *)
(* scheduled runs of a session, and one background run.                    *)
(***************************************************************************)
EXTENDS RunProperties, ScheduledRuns, FiniteSetTheorems, TLAPS

-----------------------------------------------------------------------------
(***************************************************************************)
(* Scheduled runs. A timer is always one of a job that the file has as     *)
(* scheduled, so that no timer is left over that could launch it again.    *)
(***************************************************************************)
JobState == {"none", "scheduled", "running", "canceled", "missed", "fired", "failed"}
Unlaunched == {"none", "scheduled", "canceled", "missed"}

ScheduledTypeOK ==
    /\ jobs \in [Job -> JobState]
    /\ clock \in [Job -> {"early", "due", "late"}]
    /\ bound \in BOOLEAN
    /\ timers \subseteq Job
    /\ launching \subseteq Job
    /\ launches \in [Job -> 0..1]

ScheduledInv ==
    /\ ScheduledTypeOK
    /\ \A j \in timers : jobs[j] = "scheduled"
    /\ \A j \in launching : jobs[j] = "running"
    /\ \A j \in Job : jobs[j] \in Unlaunched => launches[j] = 0

\* No job is there when a behaviour begins.
LEMMA ScheduledInvInit == ScheduledInit => ScheduledInv
  BY DEF ScheduledInit, ScheduledInv, ScheduledTypeOK, JobState

\* What happens to one job.
LEMMA JobStepInv ==
    ASSUME ScheduledInv, NEW j \in Job,
           CreatesJob(j) \/ CancelsJob(j) \/ TimerRuns(j) \/ LaunchReturns(j) \/ TimePasses(j)
    PROVE  ScheduledInv'
<1> USE DEF ScheduledInv, ScheduledTypeOK, JobState, Unlaunched
<1>1. CASE CreatesJob(j) \/ CancelsJob(j)
  BY <1>1 DEF CreatesJob, CancelsJob
<1>2. CASE FiresEarly(j) \/ FiresLate(j)
  BY <1>2 DEF FiresEarly, FiresLate, Rearmed
<1>3. CASE Fires(j)
  BY <1>3 DEF Fires, MarkedRunning
<1>4. CASE LaunchReturns(j)
  BY <1>4 DEF LaunchReturns
<1>5. CASE TimePasses(j)
  BY <1>5 DEF TimePasses
<1> QED
  BY <1>1, <1>2, <1>3, <1>4, <1>5 DEF TimerRuns

\* The session is opened, again or anew: only what is still scheduled gets a timer, and a
\* launch that is awaited keeps its job out of that.
LEMMA BindsInv ==
    ASSUME ScheduledInv, BindsSession
    PROVE  ScheduledInv'
  BY DEF ScheduledInv, ScheduledTypeOK, JobState, Unlaunched, BindsSession, DueToMiss

\* The invariant is inductive.
LEMMA ScheduledInvNext == ScheduledInv /\ [ScheduledNext]_scheduledVars => ScheduledInv'
<1> SUFFICES ASSUME ScheduledInv, [ScheduledNext]_scheduledVars PROVE ScheduledInv'
  OBVIOUS
<1>1. CASE StopsManager \/ PiDies
  BY <1>1 DEF StopsManager, PiDies, ScheduledInv, ScheduledTypeOK
<1>2. CASE UNCHANGED scheduledVars
  BY <1>2 DEF scheduledVars, ScheduledInv, ScheduledTypeOK
<1> QED
  BY <1>1, <1>2, JobStepInv, BindsInv DEF ScheduledNext

(***************************************************************************)
(* A job is launched at most once, and never if it was cancelled or missed *)
(* (scheduled-runs.ts, fire), for every set of jobs.                       *)
(***************************************************************************)
THEOREM LaunchedOnceHolds == ScheduledSpec => []LaunchedOnce
<1>1. ScheduledInv => LaunchedOnce
  BY DEF ScheduledInv, ScheduledTypeOK, Unlaunched, LaunchedOnce
<1> QED
  BY <1>1, ScheduledInvInit, ScheduledInvNext, PTL DEF ScheduledSpec

-----------------------------------------------------------------------------
(***************************************************************************)
(* One background run: its types, and those of what Pi reads of it.        *)
(***************************************************************************)
RunState == {"running", "paused", "stopped", "failed", "complete", "rejected"}
StepState == RunState \cup {"pending"}
Proc == {"none", "up", "interrupted", "killed", "closed", "over"}
KidEnd == {"none", "ok", "gate", "bad", "retry", "signal", "cut", "cutEmpty", "skip"}
Kids == [proc : Proc, tries : Nat, outcome : KidEnd]

Statuses == [state : RunState, step : Seq(StepState), error : BOOLEAN, checkpoint : BOOLEAN, appends : Nat]

Op == Control \cup {"append"}
Reading == [op : Op \cup {"poll", "reload"}, read : Statuses]
Flag == {"stopped", "timedOut", "interrupted", "turn", "usage", "rejected"}

RunnerTypeOK ==
    /\ scenario \in Scenarios
    /\ cursor \in 0..Len(plan)
    /\ pc \in {"loop", "children", "stepEnd", "checkpoint", "wrapUp", "result", "exited", "dead"}
    /\ payload \in Statuses
    /\ flags \subseteq Flag
    /\ child \in Seq(Kids)
    /\ decision \in {"none", "approved", "rejected"}

FilesTypeOK ==
    /\ status \in Statuses
    /\ resultFile \in RunState \cup {"none"}
    /\ inbox \subseteq Control
    /\ appends \in Nat

PiTypeOK ==
    /\ asked \in [Op -> Nat]
    /\ call \in Reading \cup {NoCall}
    /\ told \in Seq(RunState)

\* The chain is numbered through, with what was appended to it.
PlanKept ==
    /\ plan \in Seq(ChainStep)
    /\ Numbered(plan, Len(child))
    /\ Len(payload.step) = Len(child)

(***************************************************************************)
(* The chain up to the cursor: what has started lies there, and behind the *)
(* cursor, or under it, every checkpoint that is not passed.               *)
(***************************************************************************)
IsCheckpoint(k) == plan[k].kind = "checkpoint"

Among == {"loop", "children", "stepEnd"}

CursorKept ==
    /\ pc = "checkpoint" => cursor > 0 /\ IsCheckpoint(cursor)
    /\ pc \in {"children", "stepEnd"} => cursor > 0 /\ ~ IsCheckpoint(cursor)
    /\ \A i \in DOMAIN child : child[i].proc # "none" =>
          \E k \in 1..cursor : i \in plan[k].slots /\ ~ IsCheckpoint(k)
    /\ \A k \in DOMAIN plan : \A i \in plan[k].slots : IsCheckpoint(k) /\ payload.step[i] # "complete" =>
          k > cursor \/ (k = cursor /\ pc \notin Among)

\* An approval that was asked for is on its way, or was used for one checkpoint.
Due == (IF decision = "approved" THEN 1 ELSE 0) + (IF "approved" \in inbox THEN 1 ELSE 0)

ApprovalsCounted == Cardinality(Passed) + Due <= asked["approved"]

(***************************************************************************)
(* A result is there or was told only when no reader can still take the    *)
(* run for one that is running: neither status.json tells so, nor what Pi  *)
(* has read of it before its last await.                                   *)
(***************************************************************************)
Steady == asked["append"] = 0 /\ "stale" \notin scenario.faults

ResultOnce ==
    /\ Up => told = <<>> /\ resultFile = "none"
    /\ pc = "result" => status.state # "running"
    /\ told # <<>> \/ resultFile # "none" => status.state # "running"
    /\ told # <<>> => Len(told) = 1 /\ resultFile = "none"
    /\ told # <<>> /\ call.op \in {"poll", "reload"} => call.read.state # "running"

RunInv ==
    /\ RunnerTypeOK /\ FilesTypeOK /\ PiTypeOK
    /\ PlanKept /\ CursorKept /\ ApprovalsCounted
    /\ Steady => ResultOnce

\* The checkpoints that were passed are some of the flat steps.
LEMMA PassedFinite ==
    ASSUME PlanKept, child \in Seq(Kids)
    PROVE  IsFiniteSet(Passed) /\ Cardinality(Passed) \in Nat
<1>1. Passed \subseteq 1..Len(child)
  BY DEF Passed, Checkpoints, PlanKept, Numbered
<1>2. Len(child) \in Nat
  OBVIOUS
<1>3. IsFiniteSet(1..Len(child))
  BY <1>2, FS_Interval
<1> QED
  BY <1>1, <1>3, FS_Subset, FS_CardinalityType

\* The initial states satisfy the invariant.
LEMMA RunInvInit == Init => RunInv
<1> SUFFICES ASSUME Init PROVE RunInv
  OBVIOUS
<1>1. PICK n \in Nat : n = Cardinality(Slots(plan)) /\ Numbered(plan, n) /\ plan \in Seq(ChainStep)
  BY PlanAssumption, FS_CardinalityType DEF Init
<1>2. /\ payload.step \in Seq(StepState) /\ Len(payload.step) = n
      /\ child \in Seq(Kids) /\ Len(child) = n
      /\ \A i \in 1..n : child[i].proc = "none" /\ payload.step[i] = "pending"
  <2>1. Unstarted \in Kids /\ Unstarted.proc = "none" /\ "pending" \in StepState
    BY DEF Unstarted, Kids, Proc, KidEnd, StepState
  <2>2. payload.step = [i \in 1..n |-> "pending"] /\ child = [i \in 1..n |-> Unstarted]
    BY <1>1 DEF Init
  <2> QED
    BY <2>1, <2>2
<1>3. payload \in Statuses /\ status = payload
  BY <1>2 DEF Init, Statuses, RunState
<1>4. RunnerTypeOK
  BY <1>1, <1>2, <1>3 DEF Init, RunnerTypeOK
<1>5. FilesTypeOK
  BY <1>3 DEF Init, FilesTypeOK
<1>6. PiTypeOK
  BY DEF Init, PiTypeOK, Op
<1>7. PlanKept
  BY <1>1, <1>2 DEF PlanKept
<1>8. CursorKept
  BY <1>1, <1>2 DEF Init, CursorKept
<1>9. ApprovalsCounted
  <2>1. Passed = {}
    BY <1>1, <1>2 DEF Passed, Checkpoints, Numbered
  <2>2. Cardinality(Passed) = 0
    BY <2>1, FS_EmptySet
  <2> QED
    BY <2>2 DEF Init, ApprovalsCounted, Due, Control
<1>10. ResultOnce
  BY DEF Init, ResultOnce
<1> QED
  BY <1>4, <1>5, <1>6, <1>7, <1>8, <1>9, <1>10 DEF RunInv

(***************************************************************************)
(* A step of the chain: what it may start and pass.                        *)
(***************************************************************************)
ChainMoves ==
    /\ DOMAIN plan \subseteq DOMAIN plan'
    /\ \A k \in DOMAIN plan : plan'[k] = plan[k]
    /\ \A k \in DOMAIN plan' \ DOMAIN plan : plan'[k].kind = "task"
    /\ \/ cursor' = cursor /\ (pc' \in Among => pc \in Among)
       \/ cursor' = cursor + 1 /\ pc = "loop" /\ pc' # "loop"
    /\ pc' = "checkpoint" => cursor' > 0 /\ IsCheckpoint(cursor)'
    /\ pc' \in {"children", "stepEnd"} => cursor' > 0 /\ ~ IsCheckpoint(cursor)'
    /\ \A i \in DOMAIN child' : child'[i].proc # "none" =>
          \/ i \in DOMAIN child /\ child[i].proc # "none"
          \/ cursor' > 0 /\ i \in plan'[cursor'].slots /\ ~ IsCheckpoint(cursor)'
    /\ \A k \in DOMAIN plan : \A i \in plan[k].slots : IsCheckpoint(k) =>
          /\ payload'.step[i] = "complete" => payload.step[i] = "complete"
          /\ payload.step[i] = "complete" =>
                payload'.step[i] = "complete" \/ (k = cursor' /\ pc' \notin Among)
    /\ Due' + asked["approved"] <= Due + asked'["approved"]

\* Such a step keeps what is said of the cursor and of the approvals.
LEMMA ChainKept ==
    ASSUME RunInv, RunnerTypeOK', PiTypeOK', PlanKept', ChainMoves
    PROVE  CursorKept' /\ ApprovalsCounted'
<1> USE DEF RunInv
<1>1. /\ cursor \in Nat /\ cursor' \in Nat /\ cursor <= Len(plan) /\ cursor' <= Len(plan')
      /\ cursor <= cursor' /\ plan \in Seq(ChainStep) /\ plan' \in Seq(ChainStep)
  BY DEF RunnerTypeOK, PlanKept, ChainMoves
<1>2. CursorKept'
  <2>1. ASSUME NEW i \in DOMAIN child', child'[i].proc # "none"
        PROVE  \E k \in 1..cursor' : i \in plan'[k].slots /\ ~ IsCheckpoint(k)'
    <3>1. CASE i \in DOMAIN child /\ child[i].proc # "none"
      <4>1. PICK k \in 1..cursor : i \in plan[k].slots /\ ~ IsCheckpoint(k)
        BY <3>1 DEF CursorKept
      <4>2. plan'[k] = plan[k] /\ k \in 1..cursor'
        BY <1>1, <4>1 DEF ChainMoves
      <4> QED
        BY <4>1, <4>2 DEF IsCheckpoint
    <3>2. CASE cursor' > 0 /\ i \in plan'[cursor'].slots /\ ~ IsCheckpoint(cursor)'
      <4>1. cursor' \in 1..cursor'
        BY <1>1, <3>2
      <4> QED
        BY <3>2, <4>1 DEF IsCheckpoint
    <3> QED
      BY <2>1, <3>1, <3>2 DEF ChainMoves
  <2>2. ASSUME NEW k \in DOMAIN plan', NEW i \in plan'[k].slots, IsCheckpoint(k)', payload'.step[i] # "complete"
        PROVE  k > cursor' \/ (k = cursor' /\ pc' \notin Among)
    <3>1. k \in DOMAIN plan /\ plan'[k] = plan[k] /\ i \in plan[k].slots /\ IsCheckpoint(k)
      BY <2>2 DEF ChainMoves, IsCheckpoint
    <3>2. payload.step[i] # "complete" \/ (k = cursor' /\ pc' \notin Among)
      BY <2>2, <3>1 DEF ChainMoves
    <3>3. payload.step[i] # "complete" => k > cursor \/ (k = cursor /\ pc \notin Among)
      BY <3>1 DEF CursorKept
    <3>4. k \in Nat
      BY <1>1, <3>1
    <3>5. CASE cursor' = cursor /\ (pc' \in Among => pc \in Among)
      BY <3>2, <3>3, <3>5
    <3>6. CASE /\ cursor' = cursor + 1 /\ pc = "loop" /\ pc' # "loop"
               /\ payload.step[i] # "complete"
      <4>1. k >= cursor'
        BY <1>1, <3>3, <3>4, <3>6 DEF Among
      <4>2. k = cursor' => pc' \notin {"children", "stepEnd"}
        BY <2>2 DEF ChainMoves, IsCheckpoint
      <4> QED
        BY <1>1, <3>4, <3>6, <4>1, <4>2 DEF Among
    <3> QED
      BY <3>2, <3>5, <3>6 DEF ChainMoves
  <2> QED
    BY <2>1, <2>2 DEF CursorKept, ChainMoves
<1>3. Passed' \subseteq Passed
  <2>1. \A i : i \in Checkpoints <=> \E k \in DOMAIN plan : IsCheckpoint(k) /\ i \in plan[k].slots
    BY DEF Checkpoints, IsCheckpoint
  <2>2. \A i : i \in Checkpoints' <=> \E k \in DOMAIN plan' : IsCheckpoint(k)' /\ i \in plan'[k].slots
    BY DEF Checkpoints, IsCheckpoint
  <2>3. \A i : i \in Checkpoints' => i \in Checkpoints
    BY <2>1, <2>2 DEF ChainMoves, IsCheckpoint
  <2>4. \A i \in Checkpoints : payload'.step[i] = "complete" => payload.step[i] = "complete"
    BY <2>1 DEF ChainMoves
  <2> QED
    BY <2>3, <2>4 DEF Passed
<1>4. ApprovalsCounted'
  <2>1. Cardinality(Passed') <= Cardinality(Passed) /\ Cardinality(Passed) \in Nat
    BY <1>3, PassedFinite, FS_Subset DEF RunnerTypeOK
  <2>2. asked["approved"] \in Nat /\ asked'["approved"] \in Nat
    BY DEF PiTypeOK, Op, Control
  <2>3. Due \in Nat /\ Due' \in Nat
    BY DEF Due
  <2>4. Cardinality(Passed)' = Cardinality(Passed') /\ Cardinality(Passed') \in Nat
    BY <1>3, PassedFinite, FS_Subset, FS_CardinalityType DEF RunnerTypeOK
  <2> QED
    BY <2>1, <2>2, <2>3, <2>4 DEF ApprovalsCounted, ChainMoves
<1> QED
  BY <1>2, <1>4

(***************************************************************************)
(* Operators of the chain that grows.                                      *)
(***************************************************************************)
LEMMA ConcatParts ==
    ASSUME NEW S, NEW s \in Seq(S), NEW t \in Seq(S)
    PROVE  /\ s \o t \in Seq(S) /\ Len(s \o t) = Len(s) + Len(t)
           /\ \A k \in DOMAIN s : (s \o t)[k] = s[k]
           /\ \A k \in 1..Len(t) : (s \o t)[Len(s) + k] = t[k]
  OBVIOUS

\* A function on 1..n is a sequence of its values.
LEMMA CountedSeq ==
    ASSUME NEW S, NEW n \in Nat, NEW f \in [1..n -> S]
    PROVE  f \in Seq(S) /\ Len(f) = n
  OBVIOUS

\* The chain with what was appended is numbered through as well.
LEMMA LongerChain ==
    ASSUME RunInv
    PROVE  /\ LongerPlan \in Seq(ChainStep) /\ Len(LongerPlan) = Len(plan) + appends
           /\ \A k \in DOMAIN plan : LongerPlan[k] = plan[k]
           /\ \A k \in 1..appends : LongerPlan[Len(plan) + k] = [kind |-> "task", slots |-> {Len(child) + k}]
           /\ Numbered(LongerPlan, Len(child) + appends)
<1> DEFINE more == [k \in 1..appends |-> [kind |-> "task", slots |-> {Len(child) + k}]]
<1>1. appends \in Nat /\ plan \in Seq(ChainStep) /\ child \in Seq(Kids) /\ Len(child) \in Nat /\ Len(plan) \in Nat
      /\ Numbered(plan, Len(child))
  BY DEF RunInv, RunnerTypeOK, FilesTypeOK, PlanKept
<1>2. \A k \in 1..appends : [kind |-> "task", slots |-> {Len(child) + k}] \in ChainStep
  BY <1>1 DEF ChainStep
<1>3. more \in Seq(ChainStep) /\ Len(more) = appends
      /\ \A k \in 1..appends : more[k] = [kind |-> "task", slots |-> {Len(child) + k}]
  <2>1. more \in [1..appends -> ChainStep]
    BY <1>2
  <2> QED
    BY <1>1, <2>1, CountedSeq
<1>4. LongerPlan = plan \o more
  BY DEF LongerPlan
<1> HIDE DEF more
<1>5. /\ LongerPlan \in Seq(ChainStep) /\ Len(LongerPlan) = Len(plan) + appends
      /\ \A k \in DOMAIN plan : LongerPlan[k] = plan[k]
      /\ \A k \in 1..appends : LongerPlan[Len(plan) + k] = more[k]
  <2>0. plan \in Seq(ChainStep) /\ more \in Seq(ChainStep)
    BY <1>1, <1>3
  <2>1. /\ plan \o more \in Seq(ChainStep) /\ Len(plan \o more) = Len(plan) + Len(more)
        /\ \A k \in DOMAIN plan : (plan \o more)[k] = plan[k]
        /\ \A k \in 1..Len(more) : (plan \o more)[Len(plan) + k] = more[k]
    BY <2>0, ConcatParts
  <2> QED
    BY <1>3, <1>4, <2>1
<1>6. ASSUME NEW k \in DOMAIN LongerPlan
      PROVE  \/ k \in DOMAIN plan /\ LongerPlan[k] = plan[k]
             \/ /\ k - Len(plan) \in 1..appends
                /\ LongerPlan[k].kind = "task"
                /\ LongerPlan[k].slots = {Len(child) + (k - Len(plan))}
  <2>1. k \in 1..(Len(plan) + appends)
    BY <1>5
  <2>2. CASE k > Len(plan)
    <3>1. k - Len(plan) \in 1..appends /\ Len(plan) + (k - Len(plan)) = k
      BY <1>1, <2>1, <2>2
    <3>2. LongerPlan[k] = [kind |-> "task", slots |-> {Len(child) + (k - Len(plan))}]
      BY <1>3, <1>5, <3>1
    <3> QED
      BY <3>1, <3>2
  <2>3. CASE k <= Len(plan)
    BY <1>1, <1>5, <2>1, <2>3
  <2> QED
    BY <1>1, <2>1, <2>2, <2>3
<1>7. Numbered(LongerPlan, Len(child) + appends)
  <2>1. ASSUME NEW k \in DOMAIN LongerPlan
        PROVE  LongerPlan[k].slots \subseteq 1..(Len(child) + appends)
    BY <1>1, <1>6 DEF Numbered
  <2>2. ASSUME NEW i \in 1..(Len(child) + appends)
        PROVE  \E k \in DOMAIN LongerPlan : i \in LongerPlan[k].slots
    <3>1. CASE i <= Len(child)
      <4>1. PICK k \in DOMAIN plan : i \in plan[k].slots
        BY <1>1, <3>1 DEF Numbered
      <4> QED
        BY <1>1, <1>5, <4>1
    <3>2. CASE i > Len(child)
      <4>1. i - Len(child) \in 1..appends /\ Len(child) + (i - Len(child)) = i
        BY <1>1, <3>2
      <4>2. LongerPlan[Len(plan) + (i - Len(child))] = [kind |-> "task", slots |-> {i}]
        BY <1>3, <1>5, <4>1
      <4>3. Len(plan) + (i - Len(child)) \in DOMAIN LongerPlan
        BY <1>1, <1>5, <4>1
      <4> QED
        BY <4>2, <4>3
    <3> QED
      BY <1>1, <3>1, <3>2
  <2>3. ASSUME NEW k \in DOMAIN LongerPlan, LongerPlan[k].kind # "group"
        PROVE  \E i \in LongerPlan[k].slots : LongerPlan[k].slots = {i}
    BY <1>1, <1>6, <2>3 DEF Numbered
  <2>4. ASSUME NEW k \in DOMAIN LongerPlan, NEW l \in DOMAIN LongerPlan, k < l,
               NEW i \in LongerPlan[k].slots, NEW j \in LongerPlan[l].slots
        PROVE  i < j
    <3>1. k \in Nat /\ l \in Nat
      BY <1>5
    <3>2. CASE l \in DOMAIN plan
      <4>1. k \in DOMAIN plan
        BY <1>1, <1>5, <2>4, <3>1, <3>2
      <4> QED
        BY <1>1, <1>5, <2>4, <3>2, <4>1 DEF Numbered
    <3>3. CASE l \notin DOMAIN plan
      <4>1. j = Len(child) + (l - Len(plan)) /\ l - Len(plan) \in 1..appends
        BY <1>6, <3>3
      <4>2. CASE k \in DOMAIN plan
        <5>1. i \in 1..Len(child)
          BY <1>1, <1>5, <4>2 DEF Numbered
        <5> QED
          BY <1>1, <4>1, <5>1
      <4>3. CASE k \notin DOMAIN plan
        <5>1. i = Len(child) + (k - Len(plan))
          BY <1>6, <4>3
        <5> QED
          BY <1>1, <2>4, <3>1, <4>1, <5>1
      <4> QED
        BY <4>2, <4>3
    <3> QED
      BY <3>2, <3>3
  <2> QED
    BY <2>1, <2>2, <2>3, <2>4 DEF Numbered
<1> QED
  BY <1>3, <1>5, <1>7

\* The children and the status of the longer chain.
LongerKids == child \o [k \in 1..appends |-> Unstarted]

\* What append-step adds to the chain, and what it leaves.
LEMMA LongerRest ==
    ASSUME RunInv
    PROVE  /\ LongerKids \in Seq(Kids) /\ Len(LongerKids) = Len(child) + appends
           /\ \A i \in DOMAIN child : LongerKids[i] = child[i]
           /\ \A i \in DOMAIN LongerKids : i \notin DOMAIN child => LongerKids[i].proc = "none"
           /\ LongerPayload \in Statuses /\ Len(LongerPayload.step) = Len(child) + appends
           /\ \A i \in DOMAIN child : LongerPayload.step[i] = payload.step[i]
<1>1. appends \in Nat /\ child \in Seq(Kids) /\ payload \in Statuses /\ payload.step \in Seq(StepState)
      /\ Len(payload.step) = Len(child)
  BY DEF RunInv, RunnerTypeOK, FilesTypeOK, PlanKept, Statuses
<1>2. Unstarted \in Kids /\ Unstarted.proc = "none" /\ "pending" \in StepState
  BY DEF Unstarted, Kids, Proc, KidEnd, StepState
<1>3. /\ LongerKids \in Seq(Kids) /\ Len(LongerKids) = Len(child) + appends
      /\ \A i \in DOMAIN child : LongerKids[i] = child[i]
      /\ \A i \in DOMAIN LongerKids : i \notin DOMAIN child => LongerKids[i].proc = "none"
  <2> DEFINE more == [k \in 1..appends |-> Unstarted]
  <2>1. more \in Seq(Kids) /\ Len(more) = appends /\ \A k \in 1..appends : more[k] = Unstarted
    BY <1>1, <1>2
  <2>2. LongerKids = child \o more
    BY DEF LongerKids
  <2> HIDE DEF more
  <2>3. /\ LongerKids \in Seq(Kids) /\ Len(LongerKids) = Len(child) + appends
        /\ \A i \in DOMAIN child : LongerKids[i] = child[i]
    BY <1>1, <2>1, <2>2, ConcatParts
  <2>4. ASSUME NEW i \in DOMAIN LongerKids, i \notin DOMAIN child
        PROVE  LongerKids[i].proc = "none"
    <3>1. i - Len(child) \in 1..appends /\ i \in 1..(Len(child) + appends)
      BY <1>1, <2>3, <2>4
    <3>2. LongerKids[i] = more[i - Len(child)]
      BY <1>1, <2>1, <2>2, <2>4, <3>1
    <3> QED
      BY <1>2, <2>1, <3>1, <3>2
  <2> QED
    BY <2>3, <2>4
<1>4. /\ LongerPayload \in Statuses /\ Len(LongerPayload.step) = Len(child) + appends
      /\ \A i \in DOMAIN child : LongerPayload.step[i] = payload.step[i]
  <2> DEFINE more == [k \in 1..appends |-> "pending"]
             steps == payload.step \o more
  <2>1. more \in Seq(StepState) /\ Len(more) = appends
    BY <1>1, <1>2
  <2>2. LongerPayload = [payload EXCEPT !.step = steps, !.appends = 0]
    BY DEF LongerPayload
  <2> HIDE DEF more
  <2>3. /\ steps \in Seq(StepState) /\ Len(steps) = Len(child) + appends
        /\ \A i \in DOMAIN child : steps[i] = payload.step[i]
    <3>1. DOMAIN child = DOMAIN payload.step
      BY <1>1
    <3>2. PICK old \in Seq(StepState) : old = payload.step
      BY <1>1
    <3>3. steps = old \o more
      BY <3>2
    <3> HIDE DEF steps
    <3>4. /\ steps \in Seq(StepState) /\ Len(steps) = Len(old) + Len(more)
          /\ \A k \in DOMAIN old : steps[k] = old[k]
      BY <2>1, <3>3, ConcatParts
    <3> QED
      BY <1>1, <2>1, <3>1, <3>2, <3>4
  <2> HIDE DEF steps
  <2> QED
    BY <1>1, <2>2, <2>3 DEF Statuses
<1> QED
  BY <1>3, <1>4

(***************************************************************************)
(* Operators of the status and of the children.                            *)
(***************************************************************************)
LEMMA SeqPut ==
    ASSUME NEW S, NEW s \in Seq(S), NEW i, NEW x \in S
    PROVE  /\ [s EXCEPT ![i] = x] \in Seq(S) /\ Len([s EXCEPT ![i] = x]) = Len(s)
           /\ i \in DOMAIN s => [s EXCEPT ![i] = x][i] = x
           /\ \A j \in DOMAIN s : j # i => [s EXCEPT ![i] = x][j] = s[j]
<1>1. Len(s) \in Nat /\ DOMAIN s = 1..Len(s) /\ \A j \in 1..Len(s) : s[j] \in S
  OBVIOUS
<1>2. [s EXCEPT ![i] = x] = [j \in 1..Len(s) |-> IF j = i THEN x ELSE s[j]]
  BY <1>1
<1>3. [j \in 1..Len(s) |-> IF j = i THEN x ELSE s[j]] \in [1..Len(s) -> S]
  BY <1>1
<1> QED
  BY <1>1, <1>2, <1>3, CountedSeq

\* A step of a status is set.
LEMMA StepPut ==
    ASSUME NEW p \in Statuses, NEW i, NEW x \in StepState, NEW q, q = [p EXCEPT !.step[i] = x]
    PROVE  /\ q \in Statuses /\ Len(q.step) = Len(p.step) /\ q.state = p.state
           /\ i \in DOMAIN p.step => q.step[i] = x
           /\ \A j \in DOMAIN p.step : j # i => q.step[j] = p.step[j]
<1> DEFINE steps == [p.step EXCEPT ![i] = x]
<1>1. p.step \in Seq(StepState) /\ Len(p.step) \in Nat
  BY DEF Statuses
<1>2. q = [p EXCEPT !.step = steps]
  OBVIOUS
<1>4. /\ steps \in Seq(StepState) /\ Len(steps) = Len(p.step)
      /\ i \in DOMAIN p.step => steps[i] = x
      /\ \A j \in DOMAIN p.step : j # i => steps[j] = p.step[j]
  BY <1>1, SeqPut
<1> HIDE DEF steps
<1>5. q \in Statuses /\ q.step = steps /\ q.state = p.state
  BY <1>2, <1>4 DEF Statuses
<1> QED
  BY <1>4, <1>5

\* Marking steps of a status that were not complete leaves those that were.
LEMMA MarkedSteps ==
    ASSUME NEW steps \in Seq(StepState), NEW from, NEW to \in StepState \ {"complete"}, "complete" \notin from
    PROVE  /\ Marked(steps, from, to) \in Seq(StepState) /\ Len(Marked(steps, from, to)) = Len(steps)
           /\ \A i \in DOMAIN steps : Marked(steps, from, to)[i] = "complete" <=> steps[i] = "complete"
<1>1. Marked(steps, from, to) \in [1..Len(steps) -> StepState]
  BY DEF Marked
<1>2. Marked(steps, from, to) \in Seq(StepState) /\ Len(Marked(steps, from, to)) = Len(steps)
  BY <1>1, CountedSeq
<1>3. \A i \in DOMAIN steps : Marked(steps, from, to)[i] = "complete" <=> steps[i] = "complete"
  BY DEF Marked
<1> QED
  BY <1>2, <1>3

\* A child is put in the place of one.
LEMMA ChildPut ==
    ASSUME NEW kids \in Seq(Kids), NEW i, NEW kid \in Kids
    PROVE  LET put == [kids EXCEPT ![i] = kid]
           IN  /\ put \in Seq(Kids) /\ Len(put) = Len(kids)
               /\ i \in DOMAIN kids => put[i] = kid
               /\ \A j \in DOMAIN kids : j # i => put[j] = kids[j]
  BY SeqPut

\* The children are told to stop, and none starts by that.
LEMMA SignalledKids ==
    ASSUME child \in Seq(Kids), NEW to \in {"killed", "interrupted"}
    PROVE  /\ Signalled(to) \in Seq(Kids) /\ Len(Signalled(to)) = Len(child)
           /\ \A i \in DOMAIN child : /\ Signalled(to)[i].proc # "none" => child[i].proc # "none"
                                      /\ Signalled(to)[i].proc = "up" => child[i].proc = "up"
<1>1. \A i \in DOMAIN child : [child[i] EXCEPT !.proc = to] \in Kids /\ child[i] \in Kids
                              /\ [child[i] EXCEPT !.proc = to].proc = to
  <2>1. \A kid \in Kids : [kid EXCEPT !.proc = to] \in Kids /\ [kid EXCEPT !.proc = to].proc = to
    BY DEF Kids, Proc
  <2>2. \A i \in DOMAIN child : child[i] \in Kids
    OBVIOUS
  <2> QED
    BY <2>1, <2>2
<1>2. Signalled(to) \in [1..Len(child) -> Kids]
  BY <1>1 DEF Signalled
<1>3. Signalled(to) \in Seq(Kids) /\ Len(Signalled(to)) = Len(child)
  BY <1>2, CountedSeq
<1>4. \A i \in DOMAIN child : /\ Signalled(to)[i].proc # "none" => child[i].proc # "none"
                              /\ Signalled(to)[i].proc = "up" => child[i].proc = "up"
  BY <1>1 DEF Signalled
<1> QED
  BY <1>3, <1>4

\* A flat step is of one step of the chain only.
LEMMA OneStep ==
    ASSUME NEW steps \in Seq(ChainStep), NEW n, Numbered(steps, n), n \in Nat,
           NEW k \in DOMAIN steps, NEW l \in DOMAIN steps,
           NEW i, i \in steps[k].slots, i \in steps[l].slots
    PROVE  k = l
<1>1. k \in Nat /\ l \in Nat /\ i \in Nat
  BY DEF Numbered
<1>2. ~ k < l /\ ~ l < k
  BY <1>1 DEF Numbered
<1> QED
  BY <1>1, <1>2

-----------------------------------------------------------------------------
(***************************************************************************)
(* A step of the runner leaves what Pi knows as it is.                     *)
(***************************************************************************)
ResultMoves ==
    /\ Up /\ pc' # "exited"
    /\ pc' = "result" => status'.state # "running"
    /\ UNCHANGED <<scenario, resultFile, pi>>

\* Such a step keeps the invariant if it keeps the chain.
LEMMA RunnerKept ==
    ASSUME RunInv, RunnerTypeOK', FilesTypeOK', PlanKept', ChainMoves, ResultMoves
    PROVE  RunInv'
<1>1. PiTypeOK'
  BY DEF RunInv, PiTypeOK, ResultMoves, pi
<1>2. CursorKept' /\ ApprovalsCounted'
  BY <1>1, ChainKept
<1>3. Steady' => ResultOnce'
  BY DEF RunInv, ResultMoves, pi, Steady, ResultOnce, Up
<1> QED
  BY <1>1, <1>2, <1>3 DEF RunInv

(***************************************************************************)
(* A step of the runner on the chain as it is.                             *)
(***************************************************************************)
Stays ==
    /\ UNCHANGED <<plan, cursor>>
    /\ child' \in Seq(Kids) /\ Len(child') = Len(child)
    /\ payload' \in Statuses /\ Len(payload'.step) = Len(child)
    /\ pc' \in Among => pc \in Among
    /\ pc' = "checkpoint" => pc = "checkpoint"
    /\ pc' \in {"children", "stepEnd"} => pc \in {"children", "stepEnd"}
    /\ \A i \in DOMAIN child : child'[i].proc # "none" =>
          child[i].proc # "none" \/ (pc = "children" /\ i \in Current)
    /\ \A i \in DOMAIN child : (payload'.step[i] = "complete" <=> payload.step[i] = "complete")
          \/ (pc = "children" /\ i \in Current)
    /\ Due' <= Due

\* It keeps the chain.
LEMMA StaysKept ==
    ASSUME RunInv, Stays, asked' = asked
    PROVE  PlanKept' /\ ChainMoves
<1> USE DEF RunInv
<1>1. /\ plan \in Seq(ChainStep) /\ Numbered(plan, Len(child)) /\ child \in Seq(Kids) /\ Len(child) \in Nat
      /\ cursor \in 0..Len(plan)
  BY DEF PlanKept, RunnerTypeOK
<1>2. PlanKept'
  BY <1>1 DEF Stays, PlanKept
<1>3. pc \in {"children", "stepEnd"} => cursor > 0 /\ cursor \in DOMAIN plan /\ ~ IsCheckpoint(cursor)
  BY <1>1 DEF CursorKept
<1>4. ASSUME NEW i \in DOMAIN child', child'[i].proc # "none"
      PROVE  \/ i \in DOMAIN child /\ child[i].proc # "none"
             \/ cursor' > 0 /\ i \in plan'[cursor'].slots /\ ~ IsCheckpoint(cursor)'
  <2>1. i \in DOMAIN child
    BY <1>1 DEF Stays
  <2> QED
    BY <1>3, <1>4, <2>1 DEF Stays, IsCheckpoint, Current
<1>5. ASSUME NEW k \in DOMAIN plan, NEW i \in plan[k].slots, IsCheckpoint(k)
      PROVE  payload'.step[i] = "complete" <=> payload.step[i] = "complete"
  <2>1. i \in DOMAIN child
    BY <1>1 DEF Numbered
  <2>2. ASSUME pc = "children", i \in plan[cursor].slots
        PROVE  FALSE
    <3>1. k = cursor
      BY <1>1, <1>3, <2>2, OneStep
    <3> QED
      BY <1>3, <1>5, <2>2, <3>1
  <2> QED
    BY <2>1, <2>2 DEF Stays, Current
<1>6. /\ pc' = "checkpoint" => cursor' > 0 /\ IsCheckpoint(cursor)'
      /\ pc' \in {"children", "stepEnd"} => cursor' > 0 /\ ~ IsCheckpoint(cursor)'
  BY <1>3 DEF Stays, CursorKept, IsCheckpoint
<1>7. Due' + asked["approved"] <= Due + asked'["approved"]
  BY DEF Stays, Due, PiTypeOK, Op, Control
<1> QED
  BY <1>1, <1>2, <1>4, <1>5, <1>6, <1>7 DEF ChainMoves, Stays

(***************************************************************************)
(* A quiet step: it leaves the chain as long as it is.                     *)
(***************************************************************************)
Quiet ==
    /\ Stays /\ ResultMoves
    /\ pc' \in {"loop", "children", "stepEnd", "checkpoint", "wrapUp", "result", "dead"}
    /\ flags' \subseteq Flag
    /\ decision' \in {"none", "approved", "rejected"}
    /\ status' \in Statuses
    /\ inbox' \subseteq Control
    /\ appends' \in Nat

\* It keeps the invariant.
LEMMA QuietKept ==
    ASSUME RunInv, Quiet
    PROVE  RunInv'
<1>1. PlanKept' /\ ChainMoves
  BY StaysKept DEF Quiet, ResultMoves, pi
<1>2. RunnerTypeOK'
  BY DEF RunInv, Quiet, Stays, ResultMoves, RunnerTypeOK
<1>3. FilesTypeOK'
  BY DEF RunInv, Quiet, ResultMoves, FilesTypeOK
<1> QED
  BY <1>1, <1>2, <1>3, RunnerKept DEF Quiet

\* What the types say of the state.
LEMMA RunTypes ==
    ASSUME RunInv
    PROVE  /\ plan \in Seq(ChainStep) /\ Len(plan) \in Nat /\ cursor \in 0..Len(plan)
           /\ payload \in Statuses /\ status \in Statuses /\ payload.step \in Seq(StepState)
           /\ Len(payload.step) = Len(child) /\ child \in Seq(Kids) /\ Len(child) \in Nat
           /\ DOMAIN child = 1..Len(child) /\ DOMAIN payload.step = 1..Len(child)
           /\ \A i \in DOMAIN child : child[i] \in Kids
           /\ flags \subseteq Flag /\ decision \in {"none", "approved", "rejected"}
           /\ inbox \subseteq Control /\ appends \in Nat /\ Due \in Nat
           /\ scenario \in Scenarios
<1>1. Due \in Nat
  BY DEF Due
<1>2. payload.step \in Seq(StepState) /\ Len(payload.step) = Len(child)
  BY DEF RunInv, RunnerTypeOK, PlanKept, Statuses
<1>3. child \in Seq(Kids) /\ plan \in Seq(ChainStep)
  BY DEF RunInv, RunnerTypeOK, PlanKept
<1>4. /\ cursor \in 0..Len(plan) /\ payload \in Statuses /\ status \in Statuses
      /\ flags \subseteq Flag /\ decision \in {"none", "approved", "rejected"}
      /\ inbox \subseteq Control /\ appends \in Nat /\ scenario \in Scenarios
  BY DEF RunInv, RunnerTypeOK, FilesTypeOK
<1> QED
  BY <1>1, <1>2, <1>3, <1>4

\* The flat steps of the step under the cursor are those of the run.
LEMMA CurrentSteps ==
    ASSUME RunInv, cursor > 0
    PROVE  cursor \in DOMAIN plan /\ Current \subseteq DOMAIN child
<1>1. cursor \in DOMAIN plan
  BY RunTypes
<1> QED
  BY <1>1, RunTypes DEF RunInv, PlanKept, Numbered, Current

(***************************************************************************)
(* The main flow between the steps of the chain.                           *)
(***************************************************************************)
\* A state is set, and whether there was an error.
LEMMA StateSet ==
    ASSUME NEW p \in Statuses, NEW s \in RunState, NEW e \in BOOLEAN
    PROVE  /\ [p EXCEPT !.state = s] \in Statuses /\ [p EXCEPT !.state = s].step = p.step
           /\ [p EXCEPT !.error = e] \in Statuses /\ [p EXCEPT !.error = e].step = p.step
           /\ [p EXCEPT !.state = s, !.error = e] \in Statuses
           /\ [p EXCEPT !.state = s, !.error = e].step = p.step
           /\ [p EXCEPT !.state = s].state = s
  BY DEF Statuses

\* The main flow leaves the loop, or the process dies.
LEMMA LeavesInv ==
    ASSUME RunInv, LeavesLoop \/ Dies
    PROVE  RunInv'
<1>1. /\ UNCHANGED <<scenario, plan, cursor, payload, flags, child, decision, status, resultFile, inbox, appends, pi>>
      /\ Up /\ pc' \in {"wrapUp", "dead"}
  BY DEF LeavesLoop, Dies, Up
<1>2. Due' = Due
  BY <1>1 DEF Due
<1>3. Stays
  BY <1>1, <1>2, RunTypes DEF Stays, Among
<1>4. Quiet
  BY <1>1, <1>3, RunTypes DEF Quiet, ResultMoves
<1> QED
  BY <1>4, QuietKept

\* The chain is through.
LEMMA RunsOutInv ==
    ASSUME RunInv, RunsOut
    PROVE  RunInv'
<1>1. /\ UNCHANGED <<scenario, plan, cursor, flags, child, decision, resultFile, inbox, appends, pi>>
      /\ Up /\ pc' = "wrapUp" /\ payload' = LongerPayload /\ status' = LongerPayload /\ appends = 0
  BY DEF RunsOut, AtTop, Up, Saved
<1>2. Due' = Due
  BY <1>1 DEF Due
<1>3. /\ LongerPayload \in Statuses /\ Len(LongerPayload.step) = Len(child)
      /\ \A i \in DOMAIN child : LongerPayload.step[i] = payload.step[i]
  BY <1>1, LongerRest, RunTypes
<1>4. Stays
  BY <1>1, <1>2, <1>3, RunTypes DEF Stays, Among
<1>5. Quiet
  BY <1>1, <1>3, <1>4, RunTypes DEF Quiet, ResultMoves
<1> QED
  BY <1>5, QuietKept

\* The outcome of a step is looked at.
LEMMA StepEndsInv ==
    ASSUME RunInv, StepEnds
    PROVE  RunInv'
<1>1. PICK e \in BOOLEAN : payload' = [payload EXCEPT !.error = e]
  <2>1. payload.error \in BOOLEAN
    BY RunTypes DEF Statuses
  <2>2. \A g \in BOOLEAN : (payload.error \/ g) \in BOOLEAN
    BY <2>1
  <2>3. PICK g \in BOOLEAN : payload' = [payload EXCEPT !.error = payload.error \/ g]
    BY DEF StepEnds, Saved
  <2> QED
    BY <2>2, <2>3
<1>2. /\ UNCHANGED <<scenario, plan, cursor, flags, child, decision, resultFile, inbox, appends, pi>>
      /\ Up /\ pc = "stepEnd" /\ pc' \in {"wrapUp", "loop"} /\ status' = payload'
  BY DEF StepEnds, Up, Saved
<1>3. Due' = Due
  BY <1>2 DEF Due
<1>4. payload' \in Statuses /\ payload'.step = payload.step
  BY <1>1, RunTypes DEF Statuses
<1>5. Stays
  BY <1>2, <1>3, <1>4, RunTypes DEF Stays, Among
<1>6. Quiet
  BY <1>2, <1>4, <1>5, RunTypes DEF Quiet, ResultMoves
<1> QED
  BY <1>6, QuietKept

\* The state a run ends with is one, and never "running".
LEMMA FinalStates ==
    ASSUME NEW failed
    PROVE  FinalState(failed) \in RunState \ {"running"}
  BY DEF FinalState, RunState

\* The last status is written.
LEMMA FinalisesInv ==
    ASSUME RunInv, Finalises
    PROVE  RunInv'
<1>1. PICK s \in RunState \ {"running"} : payload' = [payload EXCEPT !.state = s]
  BY FinalStates DEF Finalises, Saved
<1>2. /\ UNCHANGED <<scenario, plan, cursor, flags, child, decision, resultFile, inbox, appends, pi>>
      /\ Up /\ pc' = "result" /\ status' = payload'
  BY DEF Finalises, Up, Saved
<1>3. Due' = Due
  BY <1>2 DEF Due
<1>4. payload' \in Statuses /\ payload'.step = payload.step /\ payload'.state = s
  BY <1>1, RunTypes DEF Statuses
<1>5. Stays
  BY <1>2, <1>3, <1>4, RunTypes DEF Stays, Among
<1>6. Quiet
  BY <1>2, <1>4, <1>5, RunTypes DEF Quiet, ResultMoves
<1> QED
  BY <1>6, QuietKept

(***************************************************************************)
(* Children of the step under the cursor.                                  *)
(***************************************************************************)
ChildStep(i) ==
    /\ pc = "children" /\ pc' \in {"children", "stepEnd"}
    /\ i \in Current
    /\ \E kid \in Kids : child' = [child EXCEPT ![i] = kid]
    /\ \/ payload' = payload
       \/ payload' = [payload EXCEPT !.error = TRUE]
       \/ \E x \in StepState : payload' = [payload EXCEPT !.step[i] = x]
    /\ status' \in {status, payload'}
    /\ flags' \subseteq Flag
    /\ UNCHANGED <<scenario, plan, cursor, decision, resultFile, inbox, appends, pi>>

\* A step of one of them keeps the invariant.
LEMMA ChildStepInv ==
    ASSUME RunInv, NEW i, ChildStep(i)
    PROVE  RunInv'
<1>1. cursor > 0 /\ i \in DOMAIN child /\ i \in Current
  <2>1. cursor > 0
    BY DEF RunInv, CursorKept, ChildStep
  <2> QED
    BY <2>1, CurrentSteps DEF ChildStep
<1>2. /\ child' \in Seq(Kids) /\ Len(child') = Len(child)
      /\ \A j \in DOMAIN child : j # i => child'[j] = child[j]
  BY RunTypes, ChildPut DEF ChildStep
<1>3. /\ payload' \in Statuses /\ Len(payload'.step) = Len(child)
      /\ \A j \in DOMAIN child : j # i => payload'.step[j] = payload.step[j]
  <2>1. CASE payload' = payload
    BY <2>1, RunTypes
  <2>2. CASE payload' = [payload EXCEPT !.error = TRUE]
    <3>1. payload' \in Statuses /\ payload'.step = payload.step
      BY <2>2, RunTypes DEF Statuses
    <3> QED
      BY <3>1, RunTypes
  <2>3. CASE \E x \in StepState : payload' = [payload EXCEPT !.step[i] = x]
    <3>1. PICK x \in StepState : payload' = [payload EXCEPT !.step[i] = x]
      BY <2>3
    <3>2. PICK p \in Statuses : p = payload
      BY RunTypes
    <3>3. PICK q : q = [p EXCEPT !.step[i] = x]
      OBVIOUS
    <3>4. q \in Statuses /\ Len(q.step) = Len(p.step) /\ \A j \in DOMAIN p.step : j # i => q.step[j] = p.step[j]
      BY <3>3, StepPut
    <3>5. payload' = q
      BY <3>1, <3>2, <3>3
    <3> QED
      BY <3>2, <3>4, <3>5, RunTypes
  <2> QED
    BY <2>1, <2>2, <2>3 DEF ChildStep
<1>4. Due' = Due
  BY DEF Due, ChildStep
<1>5. Stays
  BY <1>1, <1>2, <1>3, <1>4, RunTypes DEF Stays, Among, ChildStep
<1>6. status' \in Statuses
  BY <1>3, RunTypes DEF ChildStep
<1>7. ResultMoves
  BY DEF ResultMoves, Up, ChildStep
<1>8. Quiet
  BY <1>5, <1>6, <1>7, RunTypes DEF Quiet, ChildStep
<1> QED
  BY <1>8, QuietKept

\* The outcomes of a child, and what becomes of its step.
LEMMA ChildEndings ==
    ASSUME RunInv, NEW i \in DOMAIN child
    PROVE  /\ Result(i) \in KidEnd /\ EndStatus(i) \in StepState
           /\ child[i].proc \in Working => OutcomesOf(child[i].proc) \subseteq KidEnd
           /\ Spawned(child[i]) \in Kids
           /\ Spawned([child[i] EXCEPT !.tries = @ + 1, !.outcome = "none"]) \in Kids
<1>1. child[i] \in Kids /\ child[i].outcome \in KidEnd /\ child[i].tries \in Nat
  <2>1. child[i] \in Kids
    BY RunTypes
  <2> QED
    BY <2>1 DEF Kids
<1>2. Result(i) \in KidEnd
  BY <1>1 DEF Result, KidEnd
<1>3. EndStatus(i) \in StepState
  BY DEF EndStatus, StepState, RunState
<1>4. child[i].proc \in Working => OutcomesOf(child[i].proc) \subseteq KidEnd
  BY DEF OutcomesOf, KidEnd, Working
<1>5. \A kid \in Kids : Spawned(kid) \in Kids
  BY DEF Spawned, Kids, Proc
<1>6. ASSUME NEW kid \in Kids
      PROVE  [kid EXCEPT !.tries = @ + 1, !.outcome = "none"] \in Kids
  <2>1. kid.tries + 1 \in Nat /\ "none" \in KidEnd
    BY DEF Kids, KidEnd
  <2>2. \A n \in Nat, o \in KidEnd : [kid EXCEPT !.tries = n, !.outcome = o] \in Kids
    BY DEF Kids
  <2> QED
    BY <2>1, <2>2
<1> QED
  BY <1>1, <1>2, <1>3, <1>4, <1>5, <1>6

\* What happens to a child of the step that runs.
LEMMA ChildInv ==
    ASSUME RunInv, NEW i \in DOMAIN child,
           \/ ChildCloses(i) \/ ChildRetried(i) \/ ChildEnds(i) \/ SkipsTask(i)
           \/ TaskUnaffordable(i) \/ StartsGroupTask(i) \/ TurnsSpent(i)
    PROVE  RunInv'
<1>1. child[i] \in Kids /\ child[i].proc \in Proc /\ child[i].outcome \in KidEnd
  <2>1. child[i] \in Kids
    BY RunTypes
  <2> QED
    BY <2>1 DEF Kids
<1>2. \A p \in Proc, o \in KidEnd :
        /\ [child[i] EXCEPT !.proc = p] \in Kids
        /\ [child[i] EXCEPT !.proc = p, !.outcome = o] \in Kids
        /\ [child EXCEPT ![i].proc = p] = [child EXCEPT ![i] = [child[i] EXCEPT !.proc = p]]
        /\ [child EXCEPT ![i].proc = p, ![i].outcome = o]
             = [child EXCEPT ![i] = [child[i] EXCEPT !.proc = p, !.outcome = o]]
  <2>1. \A kid \in Kids, p \in Proc, o \in KidEnd :
          [kid EXCEPT !.proc = p] \in Kids /\ [kid EXCEPT !.proc = p, !.outcome = o] \in Kids
    BY DEF Kids
  <2>2. ASSUME NEW p, NEW o
        PROVE  [child EXCEPT ![i].proc = p, ![i].outcome = o]
                 = [child EXCEPT ![i] = [child[i] EXCEPT !.proc = p, !.outcome = o]]
    OBVIOUS
  <2>3. ASSUME NEW p
        PROVE  [child EXCEPT ![i].proc = p] = [child EXCEPT ![i] = [child[i] EXCEPT !.proc = p]]
    OBVIOUS
  <2> QED
    BY <1>1, <2>1, <2>2, <2>3
<1>3. {"closed", "over", "killed"} \subseteq Proc /\ {"skip", "bad"} \subseteq KidEnd
      /\ {"failed", "running"} \subseteq StepState /\ {"usage", "turn"} \subseteq Flag
  BY DEF Proc, KidEnd, StepState, RunState, Flag
<1>4. CASE ChildCloses(i)
  <2>1. \E kid \in Kids : child' = [child EXCEPT ![i] = kid]
    BY <1>2, <1>3, <1>4, ChildEndings DEF ChildCloses
  <2> QED
    BY <1>4, <2>1, RunTypes, ChildStepInv DEF ChildCloses, AwaitsChildren, ChildStep
<1>5. CASE ChildRetried(i)
  <2>1. \E kid \in Kids : child' = [child EXCEPT ![i] = kid]
    BY <1>5, ChildEndings DEF ChildRetried
  <2> QED
    BY <1>5, <2>1, RunTypes, ChildStepInv DEF ChildRetried, AwaitsChildren, ChildStep
<1>6. CASE ChildEnds(i)
  <2>1. \E kid \in Kids : child' = [child EXCEPT ![i] = kid]
    BY <1>2, <1>3, <1>6, ChildEndings DEF ChildEnds
  <2> QED
    BY <1>6, <2>1, ChildEndings, RunTypes, ChildStepInv DEF ChildEnds, AwaitsChildren, ChildStep, Saved
<1>7. CASE SkipsTask(i)
  <2>1. \E kid \in Kids : child' = [child EXCEPT ![i] = kid]
    BY <1>2, <1>3, <1>7 DEF SkipsTask
  <2> QED
    BY <1>3, <1>7, <2>1, RunTypes, ChildStepInv DEF SkipsTask, NextTask, ChildStep, Saved
<1>8. CASE TaskUnaffordable(i)
  <2>1. \E kid \in Kids : child' = [child EXCEPT ![i] = kid]
    BY <1>2, <1>3, <1>8 DEF TaskUnaffordable
  <2> QED
    BY <1>3, <1>8, <2>1, RunTypes, ChildStepInv DEF TaskUnaffordable, NextTask, ChildStep, Saved
<1>9. CASE StartsGroupTask(i)
  <2>1. \E kid \in Kids : child' = [child EXCEPT ![i] = kid]
    BY <1>9, ChildEndings DEF StartsGroupTask
  <2> QED
    BY <1>3, <1>9, <2>1, RunTypes, ChildStepInv DEF StartsGroupTask, NextTask, ChildStep, Saved
<1>10. CASE TurnsSpent(i)
  <2>1. \E kid \in Kids : child' = [child EXCEPT ![i] = kid]
    BY <1>2, <1>3, <1>10 DEF TurnsSpent
  <2> QED
    BY <1>3, <1>10, <2>1, RunTypes, ChildStepInv DEF TurnsSpent, AwaitsChildren, ChildStep, Saved
<1> QED
  BY <1>4, <1>5, <1>6, <1>7, <1>8, <1>9, <1>10

(***************************************************************************)
(* The handlers: what they do to the children and to the status.           *)
(***************************************************************************)
Handled ==
    /\ Up /\ pc' = pc /\ pc # "result"
    /\ \/ child' = child
       \/ \E to \in {"killed", "interrupted"} : child' = Signalled(to)
    /\ payload' \in Statuses /\ Len(payload'.step) = Len(child)
    /\ \A i \in DOMAIN child : payload'.step[i] = "complete" <=> payload.step[i] = "complete"
    /\ flags' \subseteq Flag
    /\ status' \in {status, payload'}
    /\ decision' \in {"none", "approved", "rejected"}
    /\ inbox' \subseteq inbox
    /\ Due' <= Due
    /\ UNCHANGED <<scenario, plan, cursor, resultFile, appends, pi>>

\* Such a handler keeps the invariant.
LEMMA HandledInv ==
    ASSUME RunInv, Handled
    PROVE  RunInv'
<1>1. /\ child' \in Seq(Kids) /\ Len(child') = Len(child)
      /\ \A i \in DOMAIN child : child'[i].proc # "none" => child[i].proc # "none"
  BY RunTypes, SignalledKids DEF Handled
<1>2. Stays
  BY <1>1 DEF Handled, Stays
<1>3. pc \in {"loop", "children", "stepEnd", "checkpoint", "wrapUp"}
  BY DEF RunInv, RunnerTypeOK, Handled, Up
<1>4. ResultMoves
  BY <1>3 DEF ResultMoves, Handled
<1>5. status' \in Statuses /\ inbox' \subseteq Control
  BY RunTypes DEF Handled
<1>6. Quiet
  BY <1>2, <1>3, <1>4, <1>5, RunTypes DEF Quiet, Handled
<1> QED
  BY <1>6, QuietKept

\* A status with steps marked, as the handlers write it.
MarkedStatus(s, e, from, to) == [payload EXCEPT !.state = s, !.error = e, !.step = Marked(@, from, to)]

\* An end marks steps as ended, and completes none.
LEMMA EndedStatus ==
    ASSUME RunInv
    PROVE  \A from : \A s \in RunState, e \in BOOLEAN, to \in StepState \ {"complete"} : "complete" \notin from =>
             /\ MarkedStatus(s, e, from, to) \in Statuses
             /\ Len(MarkedStatus(s, e, from, to).step) = Len(child)
             /\ \A i \in DOMAIN child : MarkedStatus(s, e, from, to).step[i] = "complete" <=> payload.step[i] = "complete"
<1> SUFFICES ASSUME NEW s \in RunState, NEW e \in BOOLEAN, NEW from, NEW to \in StepState \ {"complete"},
                    "complete" \notin from
             PROVE  /\ MarkedStatus(s, e, from, to) \in Statuses
                    /\ Len(MarkedStatus(s, e, from, to).step) = Len(child)
                    /\ \A i \in DOMAIN child :
                         MarkedStatus(s, e, from, to).step[i] = "complete" <=> payload.step[i] = "complete"
  OBVIOUS
<1>1. PICK steps \in Seq(StepState) : /\ steps = Marked(payload.step, from, to) /\ Len(steps) = Len(child)
                                      /\ \A i \in DOMAIN child : steps[i] = "complete" <=> payload.step[i] = "complete"
  BY RunTypes, MarkedSteps
<1>2. PICK q : q = MarkedStatus(s, e, from, to)
  OBVIOUS
<1>3. q = [payload EXCEPT !.state = s, !.error = e, !.step = steps]
  BY <1>1, <1>2 DEF MarkedStatus
<1>4. q \in Statuses /\ q.step = steps
  BY <1>3, RunTypes DEF Statuses
<1> QED
  BY <1>1, <1>2, <1>4

\* The children of an open run are told to stop.
LEMMA EndsRunHandled ==
    ASSUME RunInv, NEW flag \in {"stopped", "timedOut"}, NEW state \in {"stopped", "failed"},
           EndsRun(flag, state, state)
    PROVE  /\ payload' \in Statuses /\ Len(payload'.step) = Len(child)
           /\ \A i \in DOMAIN child : payload'.step[i] = "complete" <=> payload.step[i] = "complete"
           /\ flags' \subseteq Flag /\ status' = payload'
           /\ \E to \in {"killed", "interrupted"} : child' = Signalled(to)
<1>1. payload' = MarkedStatus(state, TRUE, {"running", "pending"}, state)
  BY DEF EndsRun, Saved, MarkedStatus
<1>2. state \in RunState /\ state \in StepState \ {"complete"} /\ "complete" \notin {"running", "pending"}
  BY DEF RunState, StepState
<1>3. /\ payload' \in Statuses /\ Len(payload'.step) = Len(child)
      /\ \A i \in DOMAIN child : payload'.step[i] = "complete" <=> payload.step[i] = "complete"
  <2>1. PICK from : from = {"running", "pending"}
    OBVIOUS
  <2>2. PICK e \in BOOLEAN : e = TRUE
    OBVIOUS
  <2>3. payload' = MarkedStatus(state, e, from, state) /\ "complete" \notin from
    BY <1>1, <2>1, <2>2
  <2> QED
    BY <1>2, <2>3, EndedStatus
<1>4. flags' \subseteq Flag /\ status' = payload' /\ child' = Signalled("killed")
  BY RunTypes DEF EndsRun, Saved, Flag
<1> QED
  BY <1>3, <1>4

\* Where the main flow awaits.
LEMMA AwaitsUp == Awaits => Up /\ pc # "result"
  BY DEF Awaits, AwaitsChildren, Up

\* A request to stop is handled.
LEMMA StopInv ==
    ASSUME RunInv, HandlesStop
    PROVE  RunInv'
<1>1. Due' = Due /\ inbox' \subseteq inbox
  BY DEF HandlesStop, Due
<1>2. CASE MayEnd
  <2>1. EndsRun("stopped", "stopped", "stopped")
    BY <1>2 DEF HandlesStop
  <2>2. Handled
    BY <1>1, <2>1, EndsRunHandled, AwaitsUp, RunTypes DEF HandlesStop, Handled
  <2> QED
    BY <2>2, HandledInv
<1>3. CASE ~ MayEnd
  <2>1. Handled
    BY <1>1, <1>3, AwaitsUp, RunTypes DEF HandlesStop, Handled, Ignored
  <2> QED
    BY <2>1, HandledInv
<1> QED
  BY <1>2, <1>3

\* The deadline passes.
LEMMA DeadlineInv ==
    ASSUME RunInv, DeadlinePasses
    PROVE  RunInv'
<1>1. Due' = Due /\ inbox' \subseteq inbox
  BY DEF DeadlinePasses, Due
<1>2. EndsRun("timedOut", "failed", "failed")
  BY DEF DeadlinePasses
<1>3. Handled
  BY <1>1, <1>2, EndsRunHandled, AwaitsUp, RunTypes DEF DeadlinePasses, Handled
<1> QED
  BY <1>3, HandledInv

\* A request to interrupt is handled.
LEMMA InterruptInv ==
    ASSUME RunInv, HandlesInterrupt
    PROVE  RunInv'
<1>1. Due' = Due /\ inbox' \subseteq inbox
  BY DEF HandlesInterrupt, Due
<1>2. CASE MayEnd
  <2>1. /\ payload' = [payload EXCEPT !.state = "paused", !.step = Marked(@, {"running"}, "paused")]
        /\ status' = payload' /\ flags' \subseteq Flag /\ child' = Signalled("interrupted")
    BY <1>2, RunTypes DEF HandlesInterrupt, Saved, Flag
  <2>2. payload.error \in BOOLEAN
    BY RunTypes DEF Statuses
  <2>3. payload' = MarkedStatus("paused", payload.error, {"running"}, "paused")
    BY <2>1, RunTypes DEF Statuses, MarkedStatus
  <2>4. "paused" \in RunState /\ "paused" \in StepState \ {"complete"} /\ "complete" \notin {"running"}
    BY DEF RunState, StepState
  <2>5. /\ payload' \in Statuses /\ Len(payload'.step) = Len(child)
        /\ \A i \in DOMAIN child : payload'.step[i] = "complete" <=> payload.step[i] = "complete"
    <3>1. PICK from : from = {"running"}
      OBVIOUS
    <3>2. "complete" \notin from
      BY <3>1
    <3>3. PICK s : s = "paused"
      OBVIOUS
    <3>4. payload' = MarkedStatus(s, payload.error, from, s) /\ s \in RunState /\ s \in StepState \ {"complete"}
      BY <2>3, <2>4, <3>1, <3>3
    <3> QED
      BY <2>2, <3>2, <3>4, EndedStatus
  <2>6. Handled
    BY <1>1, <2>1, <2>5, AwaitsUp, RunTypes DEF HandlesInterrupt, Handled
  <2> QED
    BY <2>6, HandledInv
<1>3. CASE ~ MayEnd
  <2>1. Handled
    BY <1>1, <1>3, AwaitsUp, RunTypes DEF HandlesInterrupt, Handled, Ignored
  <2> QED
    BY <2>1, HandledInv
<1> QED
  BY <1>2, <1>3

\* A decision is taken from the inbox.
LEMMA DecisionInv ==
    ASSUME RunInv, HandlesDecision
    PROVE  RunInv'
<1>1. Due' <= Due
  BY DEF HandlesDecision, Taken, Due
<1>2. Handled
  BY <1>1, AwaitsUp, RunTypes DEF HandlesDecision, Taken, Handled
<1> QED
  BY <1>2, HandledInv

(***************************************************************************)
(* A step at the top of the loop: the chain grows by what was appended.    *)
(***************************************************************************)
Advances == cursor' = cursor + 1 /\ cursor < Len(LongerPlan)

Grows ==
    /\ pc = "loop" /\ plan' = LongerPlan /\ appends' = 0
    /\ \/ pc' = "wrapUp" /\ cursor' = cursor
       \/ pc' = "children" /\ Advances /\ LongerPlan[cursor'].kind # "checkpoint"
       \/ pc' = "checkpoint" /\ Advances /\ LongerPlan[cursor'].kind = "checkpoint"
    /\ child' \in Seq(Kids) /\ Len(child') = Len(LongerKids)
    /\ \A i \in DOMAIN child' :
          child'[i] = LongerKids[i] \/ (pc' = "children" /\ i \in LongerPlan[cursor'].slots)
    /\ payload' \in Statuses /\ Len(payload'.step) = Len(LongerKids) /\ status' = payload'
    /\ \A i \in DOMAIN LongerKids :
          \/ payload'.step[i] = LongerPayload.step[i]
          \/ Advances /\ i \in LongerPlan[cursor'].slots /\ payload'.step[i] # "complete"
    /\ flags' \subseteq Flag
    /\ UNCHANGED <<scenario, decision, resultFile, inbox, pi>>

\* It keeps the invariant.
LEMMA GrowsInv ==
    ASSUME RunInv, Grows
    PROVE  RunInv'
<1>1. /\ LongerPlan \in Seq(ChainStep) /\ Len(LongerPlan) = Len(plan) + appends
      /\ \A k \in DOMAIN plan : LongerPlan[k] = plan[k]
      /\ \A k \in 1..appends : LongerPlan[Len(plan) + k].kind = "task"
      /\ Numbered(LongerPlan, Len(LongerKids)) /\ Len(LongerKids) = Len(child) + appends
  <2>1. PICK n \in Nat : n = Len(child) + appends
    BY RunTypes
  <2>2. Len(LongerKids) = n /\ Numbered(LongerPlan, n)
    BY <2>1, LongerChain, LongerRest
  <2>3. ASSUME NEW k \in 1..appends
        PROVE  LongerPlan[Len(plan) + k].kind = "task"
    <3>1. LongerPlan[Len(plan) + k] = [kind |-> "task", slots |-> {Len(child) + k}]
      BY LongerChain
    <3> QED
      BY <3>1
  <2>4. /\ LongerPlan \in Seq(ChainStep) /\ Len(LongerPlan) = Len(plan) + appends
        /\ \A k \in DOMAIN plan : LongerPlan[k] = plan[k]
    BY LongerChain
  <2> QED
    BY <2>1, <2>2, <2>3, <2>4
<1>2. /\ \A i \in DOMAIN child : LongerKids[i] = child[i] /\ LongerPayload.step[i] = payload.step[i]
      /\ \A i \in DOMAIN LongerKids : i \notin DOMAIN child => LongerKids[i].proc = "none"
      /\ LongerKids \in Seq(Kids)
  BY LongerRest
<1>3. PlanKept'
  BY <1>1 DEF Grows, PlanKept
<1>4. cursor' \in 0..Len(plan') /\ cursor' \in Nat /\ (Advances => cursor' > 0 /\ cursor' \in DOMAIN plan')
  BY <1>1, RunTypes DEF Grows, Advances
<1>5. RunnerTypeOK'
  BY <1>4, RunTypes DEF Grows, RunnerTypeOK
<1>6. FilesTypeOK'
  BY RunTypes DEF Grows, FilesTypeOK, RunInv
<1>7. DOMAIN plan \subseteq DOMAIN plan' /\ \A k \in DOMAIN plan : plan'[k] = plan[k]
  BY <1>1, RunTypes DEF Grows
<1>8. ASSUME NEW k \in DOMAIN plan' \ DOMAIN plan
      PROVE  plan'[k].kind = "task"
  <2>1. k - Len(plan) \in 1..appends /\ Len(plan) + (k - Len(plan)) = k
    <3>1. k \in 1..(Len(plan) + appends) /\ k \notin 1..Len(plan)
      BY <1>1, RunTypes DEF Grows
    <3> QED
      BY <3>1, RunTypes
  <2> QED
    BY <1>1, <2>1 DEF Grows
<1>9. /\ pc' = "checkpoint" => cursor' > 0 /\ IsCheckpoint(cursor)'
      /\ pc' \in {"children", "stepEnd"} => cursor' > 0 /\ ~ IsCheckpoint(cursor)'
  BY <1>4 DEF Grows, IsCheckpoint
<1>10. ASSUME NEW i \in DOMAIN child', child'[i].proc # "none"
       PROVE  \/ i \in DOMAIN child /\ child[i].proc # "none"
              \/ cursor' > 0 /\ i \in plan'[cursor'].slots /\ ~ IsCheckpoint(cursor)'
  <2>1. CASE child'[i] = LongerKids[i]
    <3>1. i \in DOMAIN LongerKids
      BY <1>2 DEF Grows
    <3> QED
      BY <1>2, <1>10, <2>1, <3>1
  <2>2. CASE pc' = "children" /\ i \in LongerPlan[cursor'].slots
    BY <1>9, <2>2 DEF Grows
  <2> QED
    BY <2>1, <2>2 DEF Grows
<1>11. ASSUME NEW k \in DOMAIN plan, NEW i \in plan[k].slots, IsCheckpoint(k)
       PROVE  /\ payload'.step[i] = "complete" => payload.step[i] = "complete"
              /\ payload.step[i] = "complete" =>
                   payload'.step[i] = "complete" \/ (k = cursor' /\ pc' \notin Among)
  <2>1. i \in DOMAIN child /\ i \in DOMAIN LongerKids
    <3>1. i \in 1..Len(child)
      BY <1>11 DEF RunInv, PlanKept, Numbered
    <3> QED
      BY <1>1, <1>2, <3>1, RunTypes
  <2>2. CASE payload'.step[i] = LongerPayload.step[i]
    BY <1>2, <2>1, <2>2
  <2>3. CASE Advances /\ i \in LongerPlan[cursor'].slots /\ payload'.step[i] # "complete"
    <3>1. k \in DOMAIN plan' /\ plan'[k] = plan[k] /\ cursor' \in DOMAIN plan' /\ i \in plan'[cursor'].slots
      BY <1>4, <1>7, <2>3 DEF Grows
    <3>2. k = cursor'
      <4>1. Numbered(plan', Len(LongerKids)) /\ Len(LongerKids) \in Nat /\ plan' \in Seq(ChainStep)
        BY <1>1, <1>2 DEF Grows
      <4> QED
        BY <3>1, <4>1, OneStep
    <3>3. plan'[k].kind = "checkpoint"
      BY <1>11, <3>1 DEF IsCheckpoint
    <3>4. pc' \notin Among
      BY <2>3, <3>2, <3>3, RunTypes DEF Grows, Among, Advances
    <3> QED
      BY <2>3, <3>2, <3>4
  <2> QED
    BY <2>1, <2>2, <2>3 DEF Grows
<1>12. Due' + asked["approved"] <= Due + asked'["approved"]
  <2>1. Due' = Due /\ asked' = asked
    BY DEF Grows, Due, pi
  <2>2. asked["approved"] \in Nat
    BY DEF RunInv, PiTypeOK, Op, Control
  <2> QED
    BY <2>1, <2>2, RunTypes
<1>13. \/ cursor' = cursor /\ (pc' \in Among => pc \in Among)
       \/ cursor' = cursor + 1 /\ pc = "loop" /\ pc' # "loop"
  BY DEF Grows, Advances, Among
<1>14. ChainMoves
  BY <1>7, <1>8, <1>9, <1>10, <1>11, <1>12, <1>13 DEF ChainMoves
<1>15. ResultMoves
  BY DEF Grows, ResultMoves, Up
<1> QED
  BY <1>3, <1>5, <1>6, <1>14, <1>15, RunnerKept

\* The steps of the loop's top that take what was appended.
LEMMA GrowingInv ==
    ASSUME RunInv, UsageSpent \/ StartsTask \/ StartsGroup \/ ReachesCheckpoint
    PROVE  RunInv'
<1> DEFINE next == LongerPlan[cursor + 1].slots
           i == CHOOSE s \in next : TRUE
<1>1. /\ LongerKids \in Seq(Kids) /\ LongerPayload \in Statuses
      /\ LongerPayload.step \in Seq(StepState) /\ Len(LongerPayload.step) = Len(LongerKids)
      /\ DOMAIN LongerPayload.step = DOMAIN LongerKids
  <2>1. LongerPayload.step \in Seq(StepState)
    BY LongerRest DEF Statuses
  <2> QED
    BY <2>1, LongerRest
<1>2. AtTop => pc = "loop" /\ flags = {}
  BY DEF AtTop
<1>3. CASE UsageSpent
  <2>1. payload' = [LongerPayload EXCEPT !.state = "failed", !.error = TRUE] /\ status' = payload'
    BY <1>3 DEF UsageSpent, Saved
  <2>2. payload' \in Statuses /\ payload'.step = LongerPayload.step
    BY <1>1, <2>1 DEF Statuses, RunState
  <2>3. /\ child' = LongerKids /\ plan' = LongerPlan /\ appends' = 0 /\ cursor' = cursor /\ pc' = "wrapUp"
        /\ flags' \subseteq Flag /\ UNCHANGED <<scenario, decision, resultFile, inbox, pi>>
    BY <1>3 DEF UsageSpent, AppendsTaken, LongerKids, Flag
  <2>4. Grows
    BY <1>1, <1>2, <1>3, <2>1, <2>2, <2>3 DEF Grows, UsageSpent
  <2> QED
    BY <2>4, GrowsInv
<1>4. CASE StartsGroup
  <2>1. payload' = LongerPayload /\ status' = payload'
    BY <1>4 DEF StartsGroup, Saved
  <2>2. /\ child' = LongerKids /\ plan' = LongerPlan /\ appends' = 0 /\ Advances /\ pc' = "children"
        /\ LongerPlan[cursor'].kind # "checkpoint"
        /\ flags' \subseteq Flag /\ UNCHANGED <<scenario, decision, resultFile, inbox, pi>>
    BY <1>4, RunTypes DEF StartsGroup, AppendsTaken, LongerKids, Advances
  <2>3. Grows
    BY <1>1, <1>2, <1>4, <2>1, <2>2 DEF Grows, StartsGroup
  <2> QED
    BY <2>3, GrowsInv
<1>5. CASE StartsTask \/ ReachesCheckpoint
  <2>1. /\ AtTop /\ Advances /\ LongerPlan[cursor'].kind # "group"
        /\ plan' = LongerPlan /\ appends' = 0
        /\ UNCHANGED <<scenario, flags, decision, resultFile, inbox, pi>>
    BY <1>5 DEF StartsTask, ReachesCheckpoint, AppendsTaken, Advances
  <2>2. i \in next /\ i \in DOMAIN LongerKids
    <3>1. cursor + 1 \in DOMAIN LongerPlan
      BY <2>1, LongerChain, RunTypes DEF Advances
    <3>2. PICK n \in Nat : n = Len(child) + appends /\ Numbered(LongerPlan, n) /\ DOMAIN LongerKids = 1..n
      BY LongerChain, LongerRest, RunTypes
    <3>3. \E s \in next : next = {s}
      BY <2>1, <3>1, <3>2 DEF Numbered, Advances
    <3>4. next \subseteq 1..n
      BY <3>1, <3>2 DEF Numbered
    <3> QED
      BY <3>2, <3>3, <3>4
  <2>3. PICK s : s = i
    OBVIOUS
  <2> HIDE DEF i
  <2>4. CASE StartsTask
    <3>1. /\ child' = [LongerKids EXCEPT ![s] = Spawned(LongerKids[s])]
          /\ payload' = [LongerPayload EXCEPT !.step[s] = "running"] /\ status' = payload' /\ pc' = "children"
          /\ LongerPlan[cursor'].kind # "checkpoint"
      BY <1>1, <2>1, <2>2, <2>3, <2>4 DEF StartsTask, LongerKids, Saved, i, Advances
    <3>2. Spawned(LongerKids[s]) \in Kids
      <4>1. LongerKids[s] \in Kids
        BY <1>1, <2>2, <2>3
      <4> QED
        BY <4>1 DEF Spawned, Kids, Proc
    <3>3. /\ child' \in Seq(Kids) /\ Len(child') = Len(LongerKids)
          /\ \A j \in DOMAIN LongerKids : j # s => child'[j] = LongerKids[j]
      BY <1>1, <3>1, <3>2, SeqPut
    <3>4. /\ payload' \in Statuses /\ Len(payload'.step) = Len(LongerKids) /\ payload'.step[s] # "complete"
          /\ \A j \in DOMAIN LongerKids : j # s => payload'.step[j] = LongerPayload.step[j]
      <4>1. "running" \in StepState
        BY DEF StepState, RunState
      <4> QED
        <5>1. PICK p, q, x : p = LongerPayload /\ x = "running" /\ q = [p EXCEPT !.step[s] = x]
          OBVIOUS
        <5>2. /\ q \in Statuses /\ Len(q.step) = Len(p.step) /\ (s \in DOMAIN p.step => q.step[s] = x)
              /\ \A j \in DOMAIN p.step : j # s => q.step[j] = p.step[j]
          <6>1. p \in Statuses /\ x \in StepState /\ q = [p EXCEPT !.step[s] = x]
            BY <1>1, <4>1, <5>1
          <6> QED
            BY <6>1, StepPut
        <5>3. payload' = q
          BY <3>1, <5>1
        <5> QED
          BY <1>1, <2>2, <2>3, <5>1, <5>2, <5>3
    <3>5. Grows
      BY <1>1, <1>2, <2>1, <2>2, <2>3, <3>1, <3>3, <3>4, RunTypes DEF Grows, Advances
    <3> QED
      BY <3>5, GrowsInv
  <2>5. CASE ReachesCheckpoint
    <3>1. /\ child' = LongerKids
          /\ payload' = [LongerPayload EXCEPT !.state = "paused", !.checkpoint = TRUE, !.step[s] = "paused"]
          /\ status' = payload' /\ pc' = "checkpoint" /\ LongerPlan[cursor'].kind = "checkpoint"
      BY <2>1, <2>3, <2>5 DEF ReachesCheckpoint, AppendsTaken, LongerKids, Saved, i, Advances
    <3>2. /\ payload' \in Statuses /\ Len(payload'.step) = Len(LongerKids) /\ payload'.step[s] # "complete"
          /\ \A j \in DOMAIN LongerKids : j # s => payload'.step[j] = LongerPayload.step[j]
      <4>1. PICK p : p = [LongerPayload EXCEPT !.state = "paused", !.checkpoint = TRUE]
        OBVIOUS
      <4>2. p \in Statuses /\ p.step = LongerPayload.step
        BY <1>1, <4>1 DEF Statuses, RunState
      <4>3. payload' = [p EXCEPT !.step[s] = "paused"]
        BY <3>1, <4>1
      <4>4. "paused" \in StepState
        BY DEF StepState, RunState
      <4> QED
        <5>1. PICK q, x : x = "paused" /\ q = [p EXCEPT !.step[s] = x]
          OBVIOUS
        <5>2. /\ q \in Statuses /\ Len(q.step) = Len(p.step) /\ (s \in DOMAIN p.step => q.step[s] = x)
              /\ \A j \in DOMAIN p.step : j # s => q.step[j] = p.step[j]
          BY <4>2, <4>4, <5>1, StepPut
        <5>3. payload' = q
          BY <4>3, <5>1
        <5> QED
          BY <1>1, <2>2, <2>3, <4>2, <5>1, <5>2, <5>3
    <3>3. Grows
      BY <1>1, <1>2, <2>1, <2>2, <2>3, <3>1, <3>2, RunTypes DEF Grows, Advances
    <3> QED
      BY <3>3, GrowsInv
  <2> QED
    BY <1>5, <2>4, <2>5
<1> QED
  BY <1>3, <1>4, <1>5

(***************************************************************************)
(* Decisions at a checkpoint.                                              *)
(***************************************************************************)
\* The flat step of the checkpoint under the cursor.
LEMMA CheckpointStep ==
    ASSUME RunInv, pc = "checkpoint"
    PROVE  /\ cursor \in DOMAIN plan /\ IsCheckpoint(cursor)
           /\ \E i \in DOMAIN child : plan[cursor].slots = {i} /\ (CHOOSE s \in plan[cursor].slots : TRUE) = i
<1>1. cursor \in DOMAIN plan /\ IsCheckpoint(cursor)
  BY RunTypes DEF RunInv, CursorKept
<1>2. PICK i : i \in DOMAIN child /\ plan[cursor].slots = {i}
  BY <1>1, RunTypes DEF RunInv, PlanKept, Numbered, IsCheckpoint
<1>3. (CHOOSE s \in plan[cursor].slots : TRUE) \in plan[cursor].slots
  BY <1>2
<1> QED
  BY <1>1, <1>2, <1>3

\* A rejection ends the run.
LEMMA RejectedInv ==
    ASSUME RunInv, Rejected
    PROVE  RunInv'
<1>1. PICK i \in DOMAIN child : plan[cursor].slots = {i} /\ (CHOOSE s \in plan[cursor].slots : TRUE) = i
  BY CheckpointStep DEF Rejected
<1>2. PICK p \in Statuses : p = [payload EXCEPT !.state = "rejected", !.error = TRUE] /\ p.step = payload.step
  <2>1. PICK p : p = [payload EXCEPT !.state = "rejected", !.error = TRUE]
    OBVIOUS
  <2>2. p \in Statuses /\ p.step = payload.step
    BY <2>1, RunTypes DEF Statuses, RunState
  <2> QED
    BY <2>1, <2>2
<1>3. /\ payload' \in Statuses /\ Len(payload'.step) = Len(child) /\ payload'.step[i] = "rejected"
      /\ \A j \in DOMAIN child : j # i => payload'.step[j] = payload.step[j]
  <2>1. PICK q, x : x = "rejected" /\ q = [p EXCEPT !.step[i] = x]
    OBVIOUS
  <2>2. x \in StepState
    BY <2>1 DEF StepState, RunState
  <2>3. payload' = q
    BY <1>1, <1>2, <2>1 DEF Rejected, Saved
  <2>4. /\ q \in Statuses /\ Len(q.step) = Len(child) /\ q.step[i] = x
        /\ \A j \in DOMAIN child : j # i => q.step[j] = payload.step[j]
    <3>1. p \in Statuses /\ x \in StepState /\ q = [p EXCEPT !.step[i] = x]
      BY <1>2, <2>1, <2>2
    <3>2. /\ q \in Statuses /\ Len(q.step) = Len(p.step) /\ (i \in DOMAIN p.step => q.step[i] = x)
          /\ \A j \in DOMAIN p.step : j # i => q.step[j] = p.step[j]
      BY <3>1, StepPut
    <3> QED
      BY <1>2, <3>2, RunTypes
  <2> QED
    BY <2>1, <2>3, <2>4
<1>4. /\ UNCHANGED <<scenario, plan, cursor, child, resultFile, inbox, appends, pi>>
      /\ pc = "checkpoint" /\ pc' = "wrapUp" /\ decision' = "none" /\ flags' \subseteq Flag /\ status' = payload'
  BY RunTypes DEF Rejected, Saved, Flag
<1>5. RunnerTypeOK'
  BY <1>3, <1>4, RunTypes DEF RunnerTypeOK
<1>6. FilesTypeOK'
  BY <1>3, <1>4 DEF RunInv, FilesTypeOK
<1>7. PlanKept'
  BY <1>3, <1>4 DEF RunInv, PlanKept
<1>8. ASSUME NEW k \in DOMAIN plan, NEW j \in plan[k].slots, IsCheckpoint(k)
      PROVE  /\ payload'.step[j] = "complete" => payload.step[j] = "complete"
             /\ payload.step[j] = "complete" =>
                  payload'.step[j] = "complete" \/ (k = cursor' /\ pc' \notin Among)
  <2>1. j \in DOMAIN child
    BY RunTypes DEF RunInv, PlanKept, Numbered
  <2>2. j = i => k = cursor
    BY <1>1, <1>4, CheckpointStep, OneStep, RunTypes DEF RunInv, PlanKept
  <2> QED
    BY <1>3, <1>4, <2>1, <2>2 DEF Among
<1>9. Due' + asked["approved"] <= Due + asked'["approved"]
  <2>1. Due' <= Due /\ Due' \in Nat /\ asked' = asked /\ asked["approved"] \in Nat
    BY <1>4 DEF Due, pi, RunInv, PiTypeOK, Op, Control
  <2> QED
    BY <2>1, RunTypes
<1>10. ChainMoves
  BY <1>4, <1>8, <1>9 DEF ChainMoves, Among
<1>11. ResultMoves
  BY <1>4 DEF ResultMoves, Up
<1> QED
  BY <1>5, <1>6, <1>7, <1>10, <1>11, RunnerKept

\* An approval passes one checkpoint, and is used up by that.
LEMMA ApprovedInv ==
    ASSUME RunInv, Approved
    PROVE  RunInv'
<1>1. PICK i \in DOMAIN child : plan[cursor].slots = {i} /\ (CHOOSE s \in plan[cursor].slots : TRUE) = i
  BY CheckpointStep DEF Approved
<1>2. PICK p \in Statuses : p = [payload EXCEPT !.state = "running"] /\ p.step = payload.step
  <2>1. PICK p : p = [payload EXCEPT !.state = "running"]
    OBVIOUS
  <2>2. p \in Statuses /\ p.step = payload.step
    BY <2>1, RunTypes DEF Statuses, RunState
  <2> QED
    BY <2>1, <2>2
<1>3. /\ payload' \in Statuses /\ Len(payload'.step) = Len(child) /\ payload'.step[i] = "complete"
      /\ \A j \in DOMAIN child : j # i => payload'.step[j] = payload.step[j]
  <2>1. PICK q, x : x = "complete" /\ q = [p EXCEPT !.step[i] = x]
    OBVIOUS
  <2>2. x \in StepState
    BY <2>1 DEF StepState, RunState
  <2>3. payload' = q
    BY <1>1, <1>2, <2>1 DEF Approved, Saved
  <2>4. /\ q \in Statuses /\ Len(q.step) = Len(child) /\ q.step[i] = x
        /\ \A j \in DOMAIN child : j # i => q.step[j] = payload.step[j]
    <3>1. p \in Statuses /\ x \in StepState /\ q = [p EXCEPT !.step[i] = x]
      BY <1>2, <2>1, <2>2
    <3>2. /\ q \in Statuses /\ Len(q.step) = Len(p.step) /\ (i \in DOMAIN p.step => q.step[i] = x)
          /\ \A j \in DOMAIN p.step : j # i => q.step[j] = p.step[j]
      BY <3>1, StepPut
    <3> QED
      BY <1>2, <3>2, RunTypes
  <2> QED
    BY <2>1, <2>3, <2>4
<1>4. /\ UNCHANGED <<scenario, plan, cursor, flags, child, resultFile, inbox, appends, pi>>
      /\ pc = "checkpoint" /\ pc' = "loop" /\ decision = "approved" /\ decision' = "none" /\ status' = payload'
  BY DEF Approved, Saved
<1>5. RunnerTypeOK'
  BY <1>3, <1>4, RunTypes DEF RunnerTypeOK
<1>6. FilesTypeOK'
  BY <1>3, <1>4 DEF RunInv, FilesTypeOK
<1>7. PlanKept'
  BY <1>3, <1>4 DEF RunInv, PlanKept
<1>8. PiTypeOK'
  BY <1>4 DEF RunInv, PiTypeOK, pi
<1>9. CursorKept'
  <2>1. ASSUME NEW k \in DOMAIN plan, NEW j \in plan[k].slots, IsCheckpoint(k), payload'.step[j] # "complete"
        PROVE  k > cursor
    <3>1. j \in DOMAIN child /\ j # i
      BY <1>3, <2>1, RunTypes DEF RunInv, PlanKept, Numbered
    <3>2. payload.step[j] # "complete" /\ k # cursor
      BY <1>1, <1>3, <2>1, <3>1
    <3> QED
      BY <2>1, <3>2 DEF RunInv, CursorKept
  <2> QED
    BY <1>4, <2>1 DEF RunInv, CursorKept, IsCheckpoint
<1>10. ApprovalsCounted'
  <2>1. Passed' \subseteq Passed \cup {i}
    <3>1. Checkpoints' = Checkpoints /\ Checkpoints \subseteq DOMAIN child
      BY <1>4, RunTypes DEF Checkpoints, RunInv, PlanKept, Numbered
    <3> QED
      BY <1>3, <3>1 DEF Passed
  <2>2. IsFiniteSet(Passed) /\ Cardinality(Passed) \in Nat
    BY PassedFinite, RunTypes DEF RunInv
  <2>3. PICK S : S = Passed \cup {i}
    OBVIOUS
  <2>4. IsFiniteSet(S) /\ Cardinality(S) \in Nat /\ Cardinality(S) <= Cardinality(Passed) + 1
    <3>1. PICK T : T = Passed
      OBVIOUS
    <3>2. S = T \cup {i} /\ IsFiniteSet(T) /\ Cardinality(T) \in Nat
      BY <2>2, <2>3, <3>1
    <3>3. IsFiniteSet(S) /\ Cardinality(S) = IF i \in T THEN Cardinality(T) ELSE Cardinality(T) + 1
      BY <3>2, FS_AddElement
    <3> QED
      BY <3>1, <3>2, <3>3
  <2>5. Cardinality(Passed') \in Nat /\ Cardinality(Passed') <= Cardinality(S) /\ Cardinality(Passed)' = Cardinality(Passed')
    BY <2>1, <2>3, <2>4, FS_Subset, FS_CardinalityType
  <2>6. Due = Due' + 1 /\ Due' \in Nat /\ asked' = asked /\ asked["approved"] \in Nat
    BY <1>4 DEF Due, pi, RunInv, PiTypeOK, Op, Control
  <2> QED
    BY <2>2, <2>4, <2>5, <2>6 DEF RunInv, ApprovalsCounted
<1>11. Steady' => ResultOnce'
  BY <1>4 DEF RunInv, Steady, ResultOnce, Up, pi
<1> QED
  BY <1>5, <1>6, <1>7, <1>8, <1>9, <1>10, <1>11 DEF RunInv

\* The result is written: the status no longer tells "running".
LEMMA WritesResultInv ==
    ASSUME RunInv, WritesResult
    PROVE  RunInv'
<1>1. /\ UNCHANGED <<scenario, plan, cursor, payload, flags, child, decision, status, inbox, appends, pi>>
      /\ pc = "result" /\ pc' = "exited" /\ resultFile' \in RunState
  BY FinalStates DEF WritesResult
<1>2. Due' = Due
  BY <1>1 DEF Due
<1>3. PlanKept' /\ ChainMoves
  <2>1. Stays
    BY <1>1, <1>2, RunTypes DEF Stays, Among
  <2> QED
    BY <1>1, <2>1, StaysKept DEF pi
<1>4. RunnerTypeOK'
  BY <1>1 DEF RunInv, RunnerTypeOK
<1>5. FilesTypeOK'
  BY <1>1 DEF RunInv, FilesTypeOK
<1>6. PiTypeOK'
  BY <1>1 DEF RunInv, PiTypeOK, pi
<1>7. Steady' => ResultOnce'
  BY <1>1 DEF RunInv, Steady, ResultOnce, Up, pi
<1> QED
  BY <1>3, <1>4, <1>5, <1>6, <1>7, ChainKept DEF RunInv

(***************************************************************************)
(* Pi's steps: the runner and its chain stay as they are.                  *)
(***************************************************************************)
\* What such a step has to show.
LEMMA PiKept ==
    ASSUME RunInv, UNCHANGED memory, FilesTypeOK', PiTypeOK',
           Due' + asked["approved"] <= Due + asked'["approved"], Steady' => ResultOnce'
    PROVE  RunInv'
<1>1. RunnerTypeOK'
  BY DEF RunInv, RunnerTypeOK, memory
<1>2. PlanKept'
  BY DEF RunInv, PlanKept, memory
<1>3. UNCHANGED <<plan, cursor, pc, payload, child>>
  BY DEF memory
<1>4. ChainMoves
  BY <1>3 DEF ChainMoves, RunInv, CursorKept, Among, IsCheckpoint
<1> QED
  BY <1>1, <1>2, <1>4, ChainKept DEF RunInv

\* What the types say of what Pi knows.
LEMMA PiTypes ==
    ASSUME RunInv
    PROVE  /\ asked \in [Op -> Nat] /\ asked["approved"] \in Nat /\ asked["append"] \in Nat
           /\ call \in Reading \cup {NoCall} /\ told \in Seq(RunState)
           /\ call.op # "none" => call.read \in Statuses
           /\ resultFile \in RunState \cup {"none"}
           /\ NoCall.op = "none"
<1>1. asked \in [Op -> Nat] /\ call \in Reading \cup {NoCall} /\ told \in Seq(RunState)
  BY DEF RunInv, PiTypeOK
<1>2. call.op # "none" => call.read \in Statuses
  BY <1>1 DEF Reading, NoCall
<1> QED
  BY <1>1, <1>2 DEF RunInv, FilesTypeOK, Op, Control, NoCall

\* A call begins: the status is read.
LEMMA CallsInv ==
    ASSUME RunInv, NEW op \in Op, Calls(op)
    PROVE  RunInv'
<1>1. /\ UNCHANGED <<memory, status, resultFile, inbox, appends, job, cleanup, told, asked>>
      /\ call' = [op |-> op, read |-> status]
  BY DEF Calls
<1>2. call' \in Reading /\ call'.op \notin {"poll", "reload"}
  BY <1>1, RunTypes DEF Reading, Op, Control
<1>3. FilesTypeOK' /\ PiTypeOK'
  BY <1>1, <1>2 DEF RunInv, FilesTypeOK, PiTypeOK
<1>4. Due' = Due
  BY <1>1 DEF Due, memory
<1>5. Steady' => ResultOnce'
  BY <1>1, <1>2 DEF RunInv, Steady, ResultOnce, Up, memory
<1> QED
  BY <1>1, <1>3, <1>4, <1>5, PiKept, PiTypes, RunTypes

\* A request file is written.
LEMMA RequestsInv ==
    ASSUME RunInv, Requests
    PROVE  RunInv'
<1>1. PICK op \in Control : op = call.op
  BY DEF Requests
<1>2. /\ UNCHANGED <<memory, status, resultFile, appends, job, cleanup, told>>
      /\ call' = NoCall /\ asked' = [asked EXCEPT ![op] = asked[op] + 1]
      /\ inbox' \subseteq inbox \cup {op}
  BY <1>1 DEF Requests
<1>3. op \in Op /\ op # "append" /\ asked[op] \in Nat
  BY PiTypes DEF Op, Control
<1>4. /\ asked' \in [Op -> Nat] /\ asked'["append"] = asked["append"]
      /\ asked'["approved"] = IF op = "approved" THEN asked["approved"] + 1 ELSE asked["approved"]
  BY <1>2, <1>3, PiTypes DEF Op, Control
<1>5. FilesTypeOK' /\ PiTypeOK'
  BY <1>2, <1>4 DEF RunInv, FilesTypeOK, PiTypeOK
<1>6. Due' + asked["approved"] <= Due + asked'["approved"]
  <2>1. asked["approved"] \in Nat /\ decision' = decision
    BY <1>2, PiTypes DEF memory
  <2> QED
    BY <1>2, <1>4, <2>1 DEF Due
<1>7. Steady' => ResultOnce'
  BY <1>2, <1>4, PiTypes DEF RunInv, Steady, ResultOnce, Up, memory
<1> QED
  BY <1>2, <1>5, <1>6, <1>7, PiKept

\* A step is appended: nothing is said of the result of such a run.
LEMMA AppendsInv ==
    ASSUME RunInv, Appends
    PROVE  RunInv'
<1>1. /\ UNCHANGED <<memory, resultFile, inbox, job, cleanup, told>>
      /\ call.op = "append" /\ appends' = appends + 1 /\ status' = [call.read EXCEPT !.appends = appends']
      /\ asked' = [asked EXCEPT !["append"] = asked["append"] + 1] /\ call' = NoCall
  BY DEF Appends
<1>2. appends' \in Nat /\ status' \in Statuses
  <2>1. PICK s \in Statuses, n \in Nat : s = call.read /\ n = appends' /\ n = appends + 1
    BY <1>1, PiTypes, RunTypes
  <2>2. [s EXCEPT !.appends = n] \in Statuses
    BY DEF Statuses
  <2> QED
    BY <1>1, <2>1, <2>2
<1>3. /\ asked' \in [Op -> Nat] /\ asked'["append"] = asked["append"] + 1
      /\ asked'["approved"] = asked["approved"]
  BY <1>1, PiTypes DEF Op, Control
<1>4. FilesTypeOK' /\ PiTypeOK'
  BY <1>1, <1>2, <1>3 DEF RunInv, FilesTypeOK, PiTypeOK
<1>5. Due' = Due
  BY <1>1 DEF Due, memory
<1>6. ~ Steady'
  BY <1>3, PiTypes DEF Steady
<1> QED
  BY <1>1, <1>3, <1>4, <1>5, <1>6, PiKept, PiTypes, RunTypes

\* The tracker reads the status, by itself or after a reload.
LEMMA ReadsInv ==
    ASSUME RunInv, Polls \/ Reloads
    PROVE  RunInv'
<1>1. /\ UNCHANGED <<memory, status, resultFile, inbox, appends, told, asked>>
      /\ \E op \in {"poll", "reload"} : call' = [op |-> op, read |-> status]
  BY DEF Polls, Reloads
<1>2. call' \in Reading /\ call'.read = status
  BY <1>1, RunTypes DEF Reading
<1>3. FilesTypeOK' /\ PiTypeOK'
  BY <1>1, <1>2 DEF RunInv, FilesTypeOK, PiTypeOK
<1>4. Due' = Due
  BY <1>1 DEF Due, memory
<1>5. Steady' => ResultOnce'
  BY <1>1, <1>2 DEF RunInv, Steady, ResultOnce, Up, memory
<1> QED
  BY <1>1, <1>3, <1>4, <1>5, PiKept, PiTypes, RunTypes

\* A job is cleaned up.
LEMMA CleanedUpInv ==
    ASSUME RunInv, CleanedUp
    PROVE  RunInv'
<1>1. UNCHANGED <<memory, status, resultFile, inbox, appends, call, told, asked>>
  BY DEF CleanedUp
<1>2. FilesTypeOK' /\ PiTypeOK'
  BY <1>1 DEF RunInv, FilesTypeOK, PiTypeOK
<1>3. Due' = Due
  BY <1>1 DEF Due, memory
<1>4. Steady' => ResultOnce'
  BY <1>1 DEF RunInv, Steady, ResultOnce, Up, memory
<1> QED
  BY <1>1, <1>2, <1>3, <1>4, PiKept, PiTypes, RunTypes

\* A result is taken.
LEMMA TakesResultInv ==
    ASSUME RunInv, TakesResult
    PROVE  RunInv'
<1>1. /\ UNCHANGED <<memory, status, inbox, appends, call, asked>>
      /\ call = NoCall /\ resultFile # "none" /\ resultFile' = "none" /\ told' = Append(told, resultFile)
  BY DEF TakesResult
<1>2. told' \in Seq(RunState) /\ Len(told') = Len(told) + 1
  BY <1>1, PiTypes
<1>3. FilesTypeOK' /\ PiTypeOK'
  BY <1>1, <1>2 DEF RunInv, FilesTypeOK, PiTypeOK
<1>4. Due' = Due
  BY <1>1 DEF Due, memory
<1>5. Steady' => ResultOnce'
  <2>1. SUFFICES ASSUME Steady' PROVE ResultOnce'
    OBVIOUS
  <2>2. ResultOnce
    BY <1>1, <2>1 DEF RunInv, Steady, memory
  <2>3. told # <<>> => resultFile = "none"
    BY <2>2 DEF ResultOnce
  <2>4. Len(told') = 1 /\ ~ Up
    BY <1>1, <1>2, <2>2, <2>3 DEF ResultOnce
  <2>5. status.state # "running" /\ call.op = "none"
    BY <1>1, <2>2, PiTypes DEF ResultOnce
  <2> QED
    BY <1>1, <2>2, <2>4, <2>5 DEF ResultOnce, Up, memory
<1> QED
  BY <1>1, <1>3, <1>4, <1>5, PiKept, PiTypes, RunTypes

\* A further result is dropped, or the watcher forgets that it told one.
LEMMA WatcherInv ==
    ASSUME RunInv, DropsResult \/ ForgetsResult
    PROVE  RunInv'
<1>1. /\ UNCHANGED <<memory, status, inbox, appends, call, told, asked>>
      /\ resultFile' \in {resultFile, "none"}
  BY DEF DropsResult, ForgetsResult, pi
<1>2. FilesTypeOK' /\ PiTypeOK'
  BY <1>1 DEF RunInv, FilesTypeOK, PiTypeOK
<1>3. Due' = Due
  BY <1>1 DEF Due, memory
<1>4. Steady' => ResultOnce'
  BY <1>1 DEF RunInv, Steady, ResultOnce, Up, memory
<1> QED
  BY <1>1, <1>2, <1>3, <1>4, PiKept, PiTypes, RunTypes

\* What the reconciler writes is a status that does not tell "running".
LEMMA RepairedStatus ==
    ASSUME NEW s \in Statuses, NEW state \in RunState
    PROVE  /\ Repaired(s, state) \in Statuses /\ Repaired(s, state).state # "running"
           /\ Failed(s) \in Statuses /\ Failed(s).state # "running"
<1>1. PICK to : to = IF state \in Final THEN state ELSE "failed"
  OBVIOUS
<1>2. to \in RunState /\ to # "running" /\ to \in StepState
  BY <1>1 DEF Final, RunState, StepState
<1>3. \A x \in StepState : Marked(s.step, {"running", "pending"}, x) \in Seq(StepState)
  <2>1. s.step \in Seq(StepState) /\ Len(s.step) \in Nat
    BY DEF Statuses
  <2> SUFFICES ASSUME NEW x \in StepState
               PROVE  Marked(s.step, {"running", "pending"}, x) \in Seq(StepState)
    OBVIOUS
  <2>2. Marked(s.step, {"running", "pending"}, x) \in [1..Len(s.step) -> StepState]
    BY <2>1 DEF Marked
  <2> QED
    BY <2>1, <2>2, CountedSeq
<1>4. Repaired(s, state) \in Statuses /\ Repaired(s, state).state # "running"
  <2>1. PICK steps \in Seq(StepState) : steps = Marked(s.step, {"running", "pending"}, to)
    BY <1>2, <1>3
  <2>2. Repaired(s, state) = [s EXCEPT !.state = to, !.step = steps]
    BY <1>1, <2>1 DEF Repaired
  <2> QED
    BY <1>2, <2>2 DEF Statuses
<1>5. Failed(s) \in Statuses /\ Failed(s).state # "running"
  <2>0. "failed" \in RunState /\ "failed" \in StepState
    BY DEF RunState, StepState
  <2>1. PICK steps \in Seq(StepState) : steps = Marked(s.step, {"running", "pending"}, "failed")
    BY <1>3, <2>0
  <2>2. Failed(s) = [s EXCEPT !.state = "failed", !.step = steps]
    BY <2>1 DEF Failed
  <2> QED
    BY <2>0, <2>2 DEF Statuses
<1> QED
  BY <1>4, <1>5

\* The reconciler acts on what was read: it fails a run only if its runner is dead, and
\* then no result was told before.
LEMMA ReconcilesInv ==
    ASSUME RunInv, Reconciles
    PROVE  RunInv'
<1>1. /\ UNCHANGED <<memory, inbox, appends, told, asked>>
      /\ call.op \in {"poll", "reload"} /\ call' = NoCall /\ call.read \in Statuses
  BY PiTypes DEF Reconciles
<1>2. \/ /\ resultFile # "none" /\ call.read.state = "running"
         /\ status' = Repaired(call.read, resultFile) /\ resultFile' = resultFile
      \/ UNCHANGED <<status, resultFile>>
      \/ /\ resultFile = "none" /\ GivenUp(call.read)
         /\ status' = Failed(call.read) /\ resultFile' = "failed"
  BY DEF Reconciles
<1>3. /\ status' \in Statuses /\ resultFile' \in RunState \cup {"none"}
      /\ status'.state = "running" => UNCHANGED <<status, resultFile>>
  BY <1>1, <1>2, PiTypes, RunTypes, RepairedStatus DEF RunState
<1>4. FilesTypeOK' /\ PiTypeOK'
  BY <1>1, <1>3 DEF RunInv, FilesTypeOK, PiTypeOK
<1>5. Due' = Due
  BY <1>1 DEF Due, memory
<1>6. Steady' => ResultOnce'
  <2>1. SUFFICES ASSUME Steady' PROVE ResultOnce'
    OBVIOUS
  <2>2. ResultOnce /\ Steady
    BY <1>1, <2>1 DEF RunInv, Steady, memory
  <2>3. CASE UNCHANGED <<status, resultFile>>
    BY <1>1, <2>2, <2>3, PiTypes DEF ResultOnce, Up, memory
  <2>4. CASE /\ resultFile # "none" /\ status'.state # "running" /\ resultFile' = resultFile
    BY <1>1, <2>2, <2>4, PiTypes DEF ResultOnce, Up, memory
  <2>5. CASE /\ resultFile = "none" /\ GivenUp(call.read) /\ status'.state # "running"
    <3>1. ~ Up /\ call.read.state = "running"
      BY <2>2, <2>5 DEF GivenUp, Steady
    <3>2. told = <<>>
      BY <1>1, <2>2, <3>1 DEF ResultOnce
    <3> QED
      BY <1>1, <2>5, <3>1, <3>2, PiTypes DEF ResultOnce, Up, memory
  <2>6. status'.state # "running" \/ UNCHANGED <<status, resultFile>>
    BY <1>3
  <2> QED
    BY <1>2, <2>3, <2>4, <2>5, <2>6
<1> QED
  BY <1>1, <1>4, <1>5, <1>6, PiKept, PiTypes, RunTypes

\* The invariant is inductive.
LEMMA RunInvNext == RunInv /\ [Next]_vars => RunInv'
<1> SUFFICES ASSUME RunInv, [Next]_vars PROVE RunInv'
  OBVIOUS
<1>1. CASE MainFlow
  BY <1>1, LeavesInv, RunsOutInv, GrowingInv, ApprovedInv, RejectedInv, StepEndsInv, FinalisesInv,
     WritesResultInv, ChildInv DEF MainFlow
<1>2. CASE \E i \in DOMAIN child : ChildCloses(i) \/ TurnsSpent(i)
  BY <1>2, ChildInv
<1>3. CASE HandlesStop \/ HandlesInterrupt \/ HandlesDecision \/ DeadlinePasses \/ Dies
  BY <1>3, StopInv, InterruptInv, DecisionInv, DeadlineInv, LeavesInv
<1>4. CASE Pi
  BY <1>4, CallsInv, RequestsInv, AppendsInv, ReadsInv, ReconcilesInv, CleanedUpInv, TakesResultInv, WatcherInv
  DEF Pi, Op
<1>5. CASE UNCHANGED vars
  <2>1. /\ UNCHANGED memory /\ Due' = Due /\ asked' = asked
    BY <1>5 DEF vars, memory, Due
  <2>2. FilesTypeOK' /\ PiTypeOK'
    BY <1>5 DEF vars, RunInv, FilesTypeOK, PiTypeOK
  <2>3. Steady' => ResultOnce'
    BY <1>5 DEF vars, RunInv, Steady, ResultOnce, Up
  <2> QED
    BY <2>1, <2>2, <2>3, PiKept, PiTypes, RunTypes
<1> QED
  BY <1>1, <1>2, <1>3, <1>4, <1>5 DEF Next, Runner

\* It holds throughout.
LEMMA RunInvAlways == Spec => []RunInv
  BY RunInvInit, RunInvNext, PTL DEF Spec

(***************************************************************************)
(* A run to which nothing was appended and whose living runner keeps its   *)
(* status fresh has at most one result, told or waiting, for every chain,  *)
(* however the reconciler's reads (stale-run-reconciler.ts) fall between   *)
(* the runner's writes, its death and the watcher's taking of a result.    *)
(***************************************************************************)
THEOREM OneResultHolds == Spec => []OneResult
<1>1. RunInv => OneResult
  <2> SUFFICES ASSUME RunInv, Steady PROVE Len(told) + Waiting <= 1
    BY DEF Steady, OneResult
  <2>1. CASE told = <<>>
    <3>1. Len(told) = 0
      BY <2>1
    <3> QED
      BY <3>1 DEF Waiting
  <2>2. CASE told # <<>>
    <3>1. Len(told) = 1 /\ resultFile = "none"
      BY <2>2 DEF RunInv, ResultOnce
    <3> QED
      BY <3>1 DEF Waiting
  <2> QED
    BY <2>1, <2>2
<1> QED
  BY <1>1, RunInvAlways, PTL

(***************************************************************************)
(* No child behind a checkpoint works before it was approved, and as many  *)
(* checkpoints at most are passed as approvals were asked for, for every   *)
(* chain, whatever is appended to it and wherever the runner dies          *)
(* (subagent-runner.ts, waitForCheckpointDecision).                        *)
(***************************************************************************)
THEOREM ApprovalsHeldAlways == Spec => []ApprovalsHeld
<1>1. RunInv => ApprovalsHeld
  <2> SUFFICES ASSUME RunInv PROVE ApprovalsHeld
    OBVIOUS
  <2>1. Cardinality(Passed) <= asked["approved"]
    <3>1. Cardinality(Passed) \in Nat
      BY PassedFinite, RunTypes DEF RunInv
    <3> QED
      BY <3>1, PiTypes, RunTypes DEF RunInv, ApprovalsCounted
  <2>2. ASSUME NEW i \in Checkpoints \ Passed, NEW j \in DOMAIN child, i < j, child[j].proc # "none"
        PROVE  FALSE
    <3>1. PICK k \in DOMAIN plan : IsCheckpoint(k) /\ i \in plan[k].slots
      BY DEF Checkpoints, IsCheckpoint
    <3>2. payload.step[i] # "complete"
      BY <2>2 DEF Passed
    <3>3. k > cursor \/ (k = cursor /\ pc \notin Among)
      BY <3>1, <3>2 DEF RunInv, CursorKept
    <3>4. PICK l \in 1..cursor : j \in plan[l].slots /\ ~ IsCheckpoint(l)
      BY <2>2 DEF RunInv, CursorKept
    <3>5. l \in DOMAIN plan /\ k \in Nat /\ l \in Nat /\ cursor \in Nat /\ l < k
      BY <3>1, <3>3, <3>4, RunTypes DEF IsCheckpoint
    <3>6. j < i /\ j \in Nat /\ i \in Nat
      BY <3>1, <3>4, <3>5, RunTypes DEF RunInv, PlanKept, Numbered
    <3> QED
      BY <2>2, <3>6
  <2> QED
    BY <2>1, <2>2 DEF ApprovalsHeld
<1> QED
  BY <1>1, RunInvAlways, PTL

-----------------------------------------------------------------------------
(***************************************************************************)
(* Children that begin to work.                                            *)
(***************************************************************************)
Ended == flags \cap {"stopped", "timedOut", "interrupted"} # {}

\* Nothing begins when the children stay, or when one of them is put that is not up.
LEMMA NoneBegins ==
    ASSUME RunInv, Ended, NEW i \in DOMAIN child, NEW kid \in Kids, kid.proc # "up",
           child' = [child EXCEPT ![i] = kid]
    PROVE  ~ \E j \in DOMAIN child' : Begins(j)
<1>1. /\ Len(child') = Len(child) /\ child' \in Seq(Kids) /\ child'[i] = kid
      /\ \A j \in DOMAIN child : j # i => child'[j] = child[j]
  BY RunTypes, SeqPut
<1> QED
  BY <1>1, RunTypes DEF Begins

\* A step of one child.
LEMMA ChildBegins ==
    ASSUME RunInv, Ended, NEW i \in DOMAIN child,
           \/ ChildCloses(i) \/ ChildRetried(i) \/ ChildEnds(i) \/ SkipsTask(i)
           \/ TaskUnaffordable(i) \/ StartsGroupTask(i) \/ TurnsSpent(i)
    PROVE  ~ \E j \in DOMAIN child' : Begins(j)
<1>1. PICK kid \in Kids : kid = child[i] /\ kid.proc \in Proc /\ kid.outcome \in KidEnd
  <2>1. child[i] \in Kids
    BY RunTypes
  <2> QED
    BY <2>1 DEF Kids
<1>2. \A p \in Proc, o \in KidEnd :
        /\ [kid EXCEPT !.proc = p] \in Kids /\ [kid EXCEPT !.proc = p].proc = p
        /\ [kid EXCEPT !.proc = p, !.outcome = o] \in Kids /\ [kid EXCEPT !.proc = p, !.outcome = o].proc = p
  BY DEF Kids
<1>3. {"closed", "over", "killed"} \subseteq Proc /\ {"skip", "bad"} \subseteq KidEnd
  BY DEF Proc, KidEnd
<1>4. CASE ChildCloses(i) \/ ChildEnds(i) \/ SkipsTask(i) \/ TaskUnaffordable(i)
  <2>1. \E p \in {"closed", "over"}, o \in KidEnd : child' = [child EXCEPT ![i] = [kid EXCEPT !.proc = p, !.outcome = o]]
    <3>1. CASE ChildCloses(i)
      <4>1. PICK o \in KidEnd : child' = [child EXCEPT ![i].proc = "closed", ![i].outcome = o]
        BY <3>1, ChildEndings DEF ChildCloses
      <4> QED
        BY <1>1, <4>1
    <3>2. CASE ChildEnds(i) \/ SkipsTask(i) \/ TaskUnaffordable(i)
      <4>1. PICK o \in KidEnd : child' = [child EXCEPT ![i].proc = "over", ![i].outcome = o]
        BY <1>3, <3>2, ChildEndings DEF ChildEnds, SkipsTask, TaskUnaffordable
      <4> QED
        BY <1>1, <4>1
    <3> QED
      BY <1>4, <3>1, <3>2
  <2>2. PICK k : k \in Kids /\ k.proc # "up" /\ child' = [child EXCEPT ![i] = k]
    BY <1>2, <1>3, <2>1
  <2> QED
    BY <2>2, NoneBegins
<1>5. CASE TurnsSpent(i)
  <2>1. child' = [child EXCEPT ![i] = [kid EXCEPT !.proc = "killed"]]
    BY <1>1, <1>5 DEF TurnsSpent
  <2>2. PICK k : k \in Kids /\ k.proc # "up" /\ child' = [child EXCEPT ![i] = k]
    BY <1>2, <1>3, <2>1, <1>1
  <2> QED
    BY <2>2, NoneBegins
<1>6. CASE ChildRetried(i)
  <2>1. "interrupted" \in flags
    BY <1>6 DEF Ended, ChildRetried, Retrying
  <2>2. PICK k : k = Spawned([child[i] EXCEPT !.tries = @ + 1, !.outcome = "none"]) /\ k \in Kids
    BY ChildEndings
  <2>3. k.proc # "up"
    <3>1. PICK c : c = [child[i] EXCEPT !.tries = @ + 1, !.outcome = "none"] /\ c \in Kids
      <4>1. kid.tries + 1 \in Nat /\ "none" \in KidEnd
        BY DEF Kids, KidEnd
      <4>2. \A n \in Nat, o \in KidEnd : [kid EXCEPT !.tries = n, !.outcome = o] \in Kids
        BY DEF Kids
      <4>3. [kid EXCEPT !.tries = @ + 1, !.outcome = "none"] \in Kids
        BY <4>1, <4>2
      <4> QED
        BY <1>1, <4>3
    <3>2. k = [c EXCEPT !.proc = "interrupted"]
      BY <2>1, <2>2, <3>1 DEF Spawned
    <3> QED
      BY <3>1, <3>2 DEF Kids
  <2>4. child' = [child EXCEPT ![i] = k]
    BY <1>6, <2>2 DEF ChildRetried
  <2> QED
    BY <2>2, <2>3, <2>4, NoneBegins
<1>7. ~ StartsGroupTask(i)
  BY DEF StartsGroupTask, TaskSkipped, Ended
<1> QED
  BY <1>4, <1>5, <1>6, <1>7

(***************************************************************************)
(* No child begins to work in a run that was stopped, timed out or         *)
(* interrupted (subagent-runner.ts, runSingleStep and mapConcurrent), for  *)
(* every chain, every group's concurrency and any number of attempts.      *)
(***************************************************************************)
THEOREM NothingStartsHolds == Spec => NothingStartsOnceEnded
<1>1. RunInv /\ [Next]_vars =>
        [(\E i \in DOMAIN child' : Begins(i)) => flags \cap {"stopped", "timedOut", "interrupted"} = {}]_vars
  <2> SUFFICES ASSUME RunInv, Next, Ended
               PROVE  ~ \E i \in DOMAIN child' : Begins(i)
    BY DEF Ended
  <2>1. CASE child' = child
    BY <2>1 DEF Begins
  <2>2. CASE \E to \in {"killed", "interrupted"} : child' = Signalled(to)
    BY <2>2, SignalledKids, RunTypes DEF Begins
  <2>3. CASE \E i \in DOMAIN child : \/ ChildCloses(i) \/ ChildRetried(i) \/ ChildEnds(i) \/ SkipsTask(i)
                                    \/ TaskUnaffordable(i) \/ StartsGroupTask(i) \/ TurnsSpent(i)
    BY <2>3, ChildBegins
  <2>4. ~ AtTop
    BY DEF AtTop, Ended
  <2>5. CASE MainFlow
    BY <2>1, <2>3, <2>4, <2>5 DEF MainFlow, LeavesLoop, RunsOut, UsageSpent, StartsTask, StartsGroup,
       ReachesCheckpoint, Approved, Rejected, StepEnds, Finalises, WritesResult
  <2>6. CASE HandlesStop \/ HandlesInterrupt \/ HandlesDecision \/ DeadlinePasses \/ Dies
    BY <2>1, <2>2, <2>6 DEF HandlesStop, HandlesInterrupt, HandlesDecision, DeadlinePasses, Dies, EndsRun, Ignored
  <2>7. CASE Pi
    BY <2>1, <2>7 DEF Pi, Calls, Requests, Appends, Polls, Reconciles, CleanedUp, TakesResult, DropsResult,
       ForgetsResult, Reloads, memory, pi
  <2> QED
    BY <2>3, <2>5, <2>6, <2>7 DEF Next, Runner
<1> QED
  BY <1>1, RunInvAlways, PTL DEF Spec, NothingStartsOnceEnded
================================================================================
