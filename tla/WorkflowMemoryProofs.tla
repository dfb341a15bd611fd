-------------------------- MODULE WorkflowMemoryProofs --------------------------
(***************************************************************************)
(* What relates the run of Workflow to the memory beside its log: the      *)
(* count of quality-gate refusals, the answers that schedulers await, and  *)
(* the detached children.                                                  *)
(***************************************************************************)
EXTENDS WorkflowEventProofs

-----------------------------------------------------------------------------
(***************************************************************************)
(* The quality gate.                                                       *)
(***************************************************************************)

\* Recovery and the operations on nodes leave the state of the run.
LEMMA StatusKept ==
    ASSUME NEW r \in WorkflowRun
    PROVE  /\ \A outcomes : Settled(r, outcomes).status = r.status
           /\ \A c : Recovered(r, c).status = r.status /\ Reconciled(r, c).status = r.status
           /\ WaitingCancelled(r).status = r.status
           /\ \A starting : NodesStarted(r, starting).status = r.status
           /\ \A n, k, outcome : NodeReported(r, n, k, outcome).status = r.status
           /\ \A p : PlanApplied(r, p).status = r.status
           /\ \A n : /\ NodeAccepted(r, n).status = r.status
                     /\ NodeRejected(r, n).status = r.status
                     /\ NodeCancelled(r, n).status = r.status
  BY DEF WorkflowRun, Settled, Recovered, Reconciled, WaitingCancelled, NodesStarted, NodeReported,
         PlanApplied, NodeAccepted, NodeRejected, NodeCancelled, refreshReadiness

\* A status change is what it says.
LEMMA StatusSet ==
    ASSUME NEW r \in WorkflowRun, NEW s
    PROVE  StatusChanged(r, s).status = s
  BY DEF WorkflowRun, StatusChanged

\* So does a start.
LEMMA StartsStatus ==
    ASSUME NEW r \in WorkflowRun, NEW q, Starts(r, q)
    PROVE  q.status = r.status
  BY StatusKept DEF Starts

\* After an answer an active run may be paused, and no other changes its state.
LEMMA LandStatus ==
    ASSUME IInv, NEW s \in Sched, NEW n \in Node, NEW answer \in Answers, Land(s, n, answer)
    PROVE  run'.status = run.status \/ run.status = "active"
<1> DEFINE k == sched[s].flights[n]
           aborted == sched[s].aborted \/ n \in sched[s].nodeAborted
           next == NodeReported(run, n, k, AttemptOutcome(answer, aborted))
           after == AfterAnswer(run, n, k, answer, aborted)
<1>1. RunInv(run) /\ ReportTakes(run, n, k) /\ NextLaunch(after, s, n)
  BY DEF Land, IInv
<1>2. RunInv(after) /\ after \in WorkflowRun
  BY <1>1, AfterAnswerInv DEF RunInv
<1>3. run'.status = after.status
  BY <1>1, <1>2, NextLaunchStarts, StartsStatus
<1>4. next.status = run.status
  BY <1>1, StatusKept DEF RunInv
<1>5. after = next \/ run.status = "active"
  BY DEF AfterAnswer
<1> QED
  BY <1>3, <1>4, <1>5

\* The count and the state of the run, step by step.
LEMMA AutoStopNext ==
    ASSUME IInv, AutoStopHolds, [Next]_vars
    PROVE  AutoStopHolds'
<1> DEFINE r == Resolved
<1>1. run \in WorkflowRun /\ r \in WorkflowRun /\ r.status = run.status /\ gateFailures \in Nat
  BY ResolvedInv, StatusKept DEF IInv, RunInv, TypeOK, Resolved
<1> HIDE DEF r
<1>2. ASSUME gateFailures' = gateFailures, run'.status = run.status \/ run.status = "active"
      PROVE  AutoStopHolds'
  BY <1>2 DEF AutoStopHolds
<1>3. ASSUME gateFailures' = gateFailures, run'.status \in {"stopped", "completed"}
      PROVE  AutoStopHolds'
  BY <1>3 DEF AutoStopHolds
<1>4. ASSUME gateFailures' = 0
      PROVE  AutoStopHolds'
  BY <1>4 DEF AutoStopHolds
<1>5. CASE UNCHANGED vars
  BY <1>5 DEF vars, AutoStopHolds
<1>6. ASSUME NEW s \in Sched, NEW n \in Node, NEW answer \in Answers, Land(s, n, answer)
      PROVE  AutoStopHolds'
  BY <1>2, <1>6, LandStatus DEF Land
<1>7. CASE RunReady \/ (\E n \in Node : RetryNode(n)) \/ SessionStart
  <2>1. r.status = "active" \/ run' \in {r, run}
    BY <1>7 DEF RunReady, RetryNode, SessionStart, RunReadyFrom, r
  <2>2. gateFailures' = gateFailures
    BY <1>7 DEF RunReady, RetryNode, SessionStart
  <2> QED
    BY <1>1, <1>2, <2>1, <2>2
<1>8. CASE Resume
  <2>1. CASE r.status = "paused"
    BY <1>1, <1>8, <2>1 DEF Resume, CanRestartRepairPlan, AutoStopHolds, r
  <2>2. CASE CanRestartRepairPlan(r)
    BY <1>4, <1>8, <2>2 DEF Resume, r
  <2> QED
    BY <1>8, <2>1, <2>2 DEF Resume, r
<1>9. CASE \/ \E p \in Plans : ApplyPlan(p)
           \/ ReadRun
           \/ \E n \in Node : CancelWaiting(n) \/ CancelIdle(n) \/ Accept(n) \/ Reject(n)
           \/ \E n \in Node : UpdateNode(n)
  <2>1. run'.status = r.status /\ gateFailures' = gateFailures
    BY <1>1, <1>9, StatusKept
       DEF ApplyPlan, ReadRun, CancelWaiting, CancelIdle, Accept, Reject, UpdateNode, r
  <2> QED
    BY <1>1, <1>2, <2>1
<1>10. CASE \/ \E n, by \in Node : Supersede(n, by)
            \/ \E n \in Node, additional \in ReopenBy : Reopen(n, additional)
  BY <1>4, <1>10 DEF Supersede, Reopen
<1>11. CASE Pause
  BY <1>1, <1>2, <1>11 DEF Pause, r
<1>12. CASE Stop \/ Complete
  <2>1. WaitingCancelled(r) \in WorkflowRun
    BY ResolvedInv, WaitingCancelledInv DEF RunInv, r
  <2>2. run'.status \in {"stopped", "completed"}
    BY <1>1, <1>12, <2>1, StatusSet DEF Stop, Complete, r
  <2> QED
    BY <1>3, <1>12, <2>2 DEF Stop, Complete
<1>13. CASE QualityGateFails
  <2>1. gateFailures' = gateFailures + 1 /\ run' = AfterRefusal(r, gateFailures + 1)
    BY <1>13 DEF QualityGateFails, r
  <2>2. gateFailures + 1 >= 3 => run'.status = "stopped"
    BY <1>1, <2>1, StatusSet DEF AfterRefusal
  <2> QED
    BY <1>1, <2>1, <2>2 DEF AutoStopHolds
<1>14. CASE \/ \E s \in Sched : RunReadyReturns(s) \/ CallerAborts(s)
            \/ \E s \in Sched, n \in Node : WorkerThrows(s, n) \/ CancelRunning(s, n)
            \/ Surroundings
  <2>1. /\ run' \in {run, Reconciled(run, child), Recovered(run, child), Recovered(run, child')}
        /\ gateFailures' = gateFailures
    BY <1>14 DEF RunReadyReturns, CallerAborts, WorkerThrows, CancelRunning, Surroundings,
         ChildEnds, ChildTells, DeadlinePasses, Crash, Resolved
  <2> QED
    BY <1>1, <1>2, <2>1, StatusKept
<1> QED
  BY <1>5, <1>6, <1>7, <1>8, <1>9, <1>10, <1>11, <1>12, <1>13, <1>14
     DEF Next, Persists, Reads, Elsewhere, Surroundings

(***************************************************************************)
(* A deep-research run that was refused three times is stopped, or was     *)
(* completed, until a repair clears the count.                             *)
(***************************************************************************)
THEOREM AutoStopProved == Spec => []AutoStopHolds
<1>1. Init => AutoStopHolds
  BY DEF Init, AutoStopHolds
<1>2. IInv /\ AutoStopHolds /\ [Next]_vars => AutoStopHolds'
  BY AutoStopNext
<1> QED
  BY <1>1, <1>2, InitInv, NextInv, PTL DEF Spec

-----------------------------------------------------------------------------
(***************************************************************************)
(* Schedulers and children beside the run. A step of Workflow goes on from *)
(* the run soberly and then may start attempts, or it is the answer of a   *)
(* child. Sober: no attempt is added, an attempt becomes completed only if *)
(* its child did, and while a scheduler is awaited no running node moves.  *)
(***************************************************************************)
SoberNode(v, w, cs) ==
    /\ Len(w.attempts) = Len(v.attempts)
    /\ \A k \in 1..Len(v.attempts) :
          w.attempts[k] = "completed" =>
              v.attempts[k] = "completed" \/ cs[k].outcome = "completed"
    /\ Scheduling /\ v.status = "running" => w.attempts = v.attempts

Sober(r, q, c) == \A n \in Node : SoberNode(r.nodes[n], q.nodes[n], c[n])

\* A node whose last attempt runs is running, and the other way round.
LEMMA RunningNode ==
    ASSUME NEW v, NodeInv(v)
    PROVE  /\ v.attempts \in Seq(AttemptState)
           /\ v.status = "running" <=> LastAttempt(v) = "running"
           /\ v.status = "running" => /\ Len(v.attempts) \in 1..Len(v.attempts)
                                      /\ v.attempts[Len(v.attempts)] = "running"
<1>1. v \in WorkflowNode /\ CoherentNode(v) /\ v.attempts \in Seq(AttemptState)
  BY NodeFields DEF NodeInv
<1>2. v.status = "running" <=> LastAttempt(v) = "running"
  BY <1>1 DEF CoherentNode, LiveAttempt
<1> QED
  BY <1>1, <1>2, LastAttemptType

\* Sober events in sequence are sober.
LEMMA SoberTransitive ==
    ASSUME NEW r, RunInv(r), NEW q, RunInv(q), NEW w, NEW c, Sober(r, q, c), Sober(q, w, c)
    PROVE  Sober(r, w, c)
<1> SUFFICES ASSUME NEW n \in Node PROVE SoberNode(r.nodes[n], w.nodes[n], c[n])
  BY DEF Sober
<1>1. NodeInv(r.nodes[n]) /\ NodeInv(q.nodes[n])
  BY DEF RunInv
<1>2. SoberNode(r.nodes[n], q.nodes[n], c[n]) /\ SoberNode(q.nodes[n], w.nodes[n], c[n])
  BY DEF Sober
<1>3. Scheduling /\ r.nodes[n].status = "running" => q.nodes[n].status = "running"
  BY <1>1, <1>2, RunningNode DEF SoberNode, LastAttempt
<1> QED
  BY <1>2, <1>3 DEF SoberNode

\* What leaves the attempts is sober.
LEMMA SameSober ==
    ASSUME NEW r, NEW q, NEW c, \A n \in Node : q.nodes[n].attempts = r.nodes[n].attempts
    PROVE  Sober(r, q, c)
  BY DEF Sober, SoberNode

\* Reports on last attempts, which complete them only with their children.
LEMMA SettledSober ==
    ASSUME NEW r, RunInv(r), NEW outcomes, NEW c,
           \A n \in Node : outcomes[n] # "none" =>
               /\ outcomes[n] \in AttemptState
               /\ LastAttempt(r.nodes[n]) \in LiveAttempt
               /\ ~ (Scheduling /\ r.nodes[n].status = "running")
               /\ outcomes[n] = "completed" =>
                     c[n][Len(r.nodes[n].attempts)].outcome = "completed"
    PROVE  Sober(r, Settled(r, outcomes), c)
<1> DEFINE q == Settled(r, outcomes)
<1>1. \A n \in Node : q.nodes[n] = IF outcomes[n] = "none" THEN r.nodes[n]
                                   ELSE Reported(r.nodes[n], Len(r.nodes[n].attempts), outcomes[n])
  BY DEF Settled, RunInv, WorkflowRun
<1> HIDE DEF q
<1> SUFFICES ASSUME NEW n \in Node PROVE SoberNode(r.nodes[n], q.nodes[n], c[n])
  BY DEF Sober, q
<1> DEFINE v == r.nodes[n]
           L == Len(v.attempts)
<1>2. NodeInv(v) /\ v \in WorkflowNode /\ v.attempts \in Seq(AttemptState)
  BY NodeFields DEF RunInv, NodeInv
<1>3. CASE outcomes[n] = "none"
  BY <1>1, <1>3 DEF SoberNode
<1>4. CASE outcomes[n] # "none"
  <2>1. q.nodes[n].attempts = [v.attempts EXCEPT ![L] = outcomes[n]]
    BY <1>1, <1>2, <1>4 DEF Reported, WorkflowNode
  <2>2. outcomes[n] \in AttemptState /\ v.attempts # <<>>
    BY <1>4 DEF LastAttempt, LiveAttempt
  <2>3. L \in 1..L
    BY <1>2, <2>2
  <2>4. /\ Len(q.nodes[n].attempts) = L
        /\ \A k \in 1..L : q.nodes[n].attempts[k] = IF k = L THEN outcomes[n] ELSE v.attempts[k]
    BY <1>2, <2>1, <2>2, <2>3, ExceptSeq
  <2> QED
    BY <1>4, <2>4 DEF SoberNode
<1> QED
  BY <1>3, <1>4

\* Recovery completes an attempt only if its child did, and spares what is awaited.
LEMMA RecoveredSober ==
    ASSUME NEW r, RunInv(r), NEW c \in Children
    PROVE  Sober(r, Recovered(r, c), c) /\ Sober(r, Reconciled(r, c), c)
<1> DEFINE written == [n \in Node |-> RecoveryOutcome(r, c, n)]
           told == [n \in Node |-> ForegroundOutcome(r.nodes[n], LastChild(c, n, r.nodes[n]))]
<1>1. Recovered(r, c) = Settled(r, written) /\ Reconciled(r, c) = Settled(r, told)
  BY DEF Recovered, Reconciled
<1>2. ASSUME NEW n \in Node
      PROVE  /\ LastAttempt(r.nodes[n]) \in LiveAttempt =>
                    LastChild(c, n, r.nodes[n]) = c[n][Len(r.nodes[n].attempts)]
             /\ LastAttempt(r.nodes[n]) = "waiting" => r.nodes[n].status # "running"
  <2>1. NodeInv(r.nodes[n])
    BY DEF RunInv
  <2> QED
    BY <2>1, RunningNode DEF LastAttempt, LastChild, LiveAttempt
<1>3. ASSUME NEW n \in Node
      PROVE  /\ told[n] # "none" =>
                   /\ told[n] \in AttemptState
                   /\ LastAttempt(r.nodes[n]) \in LiveAttempt
                   /\ r.nodes[n].status # "running"
                   /\ told[n] = c[n][Len(r.nodes[n].attempts)].outcome
             /\ written[n] # "none" =>
                   /\ written[n] \in AttemptState
                   /\ LastAttempt(r.nodes[n]) \in LiveAttempt
                   /\ ~ (Scheduling /\ r.nodes[n].status = "running")
                   /\ written[n] = "completed" =>
                         c[n][Len(r.nodes[n].attempts)].outcome = "completed"
  <2> DEFINE v == r.nodes[n]
             mine == LastChild(c, n, v)
  <2>1. /\ told[n] # "none" => told[n] \in AttemptState /\ LastAttempt(v) \in LiveAttempt
        /\ written[n] # "none" => written[n] \in AttemptState /\ LastAttempt(v) \in LiveAttempt
    BY RecoveryOutcomeType
  <2>2. ForegroundOutcome(v, mine) # "none" =>
          ForegroundOutcome(v, mine) = mine.outcome /\ v.status # "running"
    BY DEF ForegroundOutcome, IsWaiting
  <2>3. WaitingOutcome(r, v, mine) # "none" =>
          /\ v.status # "running"
          /\ WaitingOutcome(r, v, mine) = "completed" => mine.outcome = "completed"
    BY DEF WaitingOutcome, IsWaiting, WrittenOutcome
  <2>4. OrphanOutcome(r, v) # "none" => OrphanOutcome(r, v) = "failed" /\ ~ Scheduling
    BY DEF OrphanOutcome
  <2>5. \/ written[n] = OrphanOutcome(r, v)
        \/ written[n] = WaitingOutcome(r, v, mine)
        \/ written[n] = ForegroundOutcome(v, mine)
    BY DEF RecoveryOutcome
  <2>6. told[n] = ForegroundOutcome(v, mine)
    OBVIOUS
  <2>7. LastAttempt(v) \in LiveAttempt => mine = c[n][Len(v.attempts)]
    BY <1>2
  <2> HIDE DEF written, told, v, mine
  <2> QED
    BY <2>1, <2>2, <2>3, <2>4, <2>5, <2>6, <2>7 DEF v
<1> HIDE DEF written, told
<1>4. Sober(r, Settled(r, written), c)
  BY <1>3, SettledSober
<1>5. Sober(r, Settled(r, told), c)
  BY <1>3, SettledSober
<1> QED
  BY <1>1, <1>4, <1>5

\* refreshReadiness changes no attempts.
LEMMA RefreshAttempts ==
    ASSUME NEW q, "nodes" \in DOMAIN q, NEW m \in Node, q.nodes[m] \in WorkflowNode
    PROVE  refreshReadiness(q).nodes[m].attempts = q.nodes[m].attempts
<1> DEFINE mark == IF DependenciesAccepted(q, m) THEN "ready" ELSE "pending"
<1>1. refreshReadiness(q).nodes[m] = IF q.nodes[m].status \in {"pending", "ready"}
                                     THEN [q.nodes[m] EXCEPT !.status = mark] ELSE q.nodes[m]
  BY DEF refreshReadiness
<1> HIDE DEF mark
<1>2. [q.nodes[m] EXCEPT !.status = mark].attempts = q.nodes[m].attempts
  BY DEF WorkflowNode
<1> QED
  BY <1>1, <1>2

\* The decisions on nodes leave their attempts.
LEMMA AttemptsKept ==
    ASSUME NEW r \in WorkflowRun, NEW m \in Node
    PROVE  /\ \A p \in Plans : PlanTakes(r, p) =>
                PlanApplied(r, p).nodes[m].attempts = r.nodes[m].attempts
           /\ \A n \in Node :
                /\ NodeAccepted(r, n).nodes[m].attempts = r.nodes[m].attempts
                /\ NodeRejected(r, n).nodes[m].attempts = r.nodes[m].attempts
                /\ NodeCancelled(r, n).nodes[m].attempts = r.nodes[m].attempts
                /\ \A by \in Node :
                      NodeSuperseded(r, n, by).nodes[m].attempts = r.nodes[m].attempts
                /\ \A more : NodeReopened(r, n, more).nodes[m].attempts = r.nodes[m].attempts
           /\ \A s : StatusChanged(r, s).nodes = r.nodes
<1>1. r.nodes \in [Node -> WorkflowNode] /\ r.nodes[m] \in WorkflowNode
  BY RunFields
<1>2. ASSUME NEW nodes, nodes[m] \in WorkflowNode, nodes[m].attempts = r.nodes[m].attempts
      PROVE  /\ refreshReadiness([r EXCEPT !.nodes = nodes]).nodes[m].attempts
                    = r.nodes[m].attempts
             /\ \A repair :
                   refreshReadiness([r EXCEPT !.nodes = nodes, !.repair = repair]).nodes[m].attempts
                        = r.nodes[m].attempts
  <2>1. ASSUME NEW q, q.nodes = nodes, "nodes" \in DOMAIN q
        PROVE  refreshReadiness(q).nodes[m].attempts = r.nodes[m].attempts
    BY <1>2, <2>1, RefreshAttempts
  <2>2. [r EXCEPT !.nodes = nodes].nodes = nodes /\ "nodes" \in DOMAIN [r EXCEPT !.nodes = nodes]
    BY DEF WorkflowRun
  <2>3. ASSUME NEW repair
        PROVE  LET q == [r EXCEPT !.nodes = nodes, !.repair = repair]
               IN  q.nodes = nodes /\ "nodes" \in DOMAIN q
    BY DEF WorkflowRun
  <2> QED
    BY <2>1, <2>2, <2>3
<1>3. ASSUME NEW p \in Plans, PlanTakes(r, p)
      PROVE  PlanApplied(r, p).nodes[m].attempts = r.nodes[m].attempts
  <2> DEFINE nodes == Replanned(r, p)
  <2>1. nodes[m] \in WorkflowNode /\ nodes[m].attempts = r.nodes[m].attempts
    <3>1. PICK D \in SUBSET Node : p \in [D -> WorkUnit]
      BY WorkflowAssumption
    <3>2. CASE m \in DOMAIN p
      <4>1. p[m] \in WorkUnit
        BY <3>1, <3>2
      <4>2. nodes[m] = [status |-> "pending", attempts |-> <<>>, maxAttempts |-> 0,
                        dependsOn |-> p[m].dependsOn, replaces |-> p[m].replaces,
                        kind |-> p[m].kind, supersededBy |-> NoNode]
        BY <3>2 DEF Replanned
      <4>3. r.nodes[m].attempts = <<>>
        BY <1>3, <3>2 DEF PlanTakes
      <4>4. <<>> \in Seq(AttemptState) /\ 0 \in Nat /\ "pending" \in NodeStatus
        BY DEF NodeStatus
      <4> HIDE DEF nodes
      <4> QED
        BY <4>1, <4>2, <4>3, <4>4 DEF WorkflowNode, WorkUnit
    <3>3. CASE m \notin DOMAIN p
      BY <1>1, <3>3 DEF Replanned
    <3> QED
      BY <3>2, <3>3
  <2> HIDE DEF nodes
  <2> QED
    BY <1>2, <2>1 DEF PlanApplied, nodes
<1>4. ASSUME NEW n \in Node
      PROVE  NodeAccepted(r, n).nodes[m].attempts = r.nodes[m].attempts
  <2> DEFINE t == r.nodes[n].replaces
             retired == {k \in {t} \cap Planned(r) :
                             r.nodes[k].status \notin {"accepted", "superseded"}}
             nodes == [k \in Node |->
                         CASE k = n         -> [r.nodes[k] EXCEPT !.status = "accepted"]
                           [] k # n /\ k \in retired -> SupersededBy(r.nodes[k], n)
                           [] OTHER         -> r.nodes[k]]
  <2>1. NodeAccepted(r, n) = refreshReadiness([r EXCEPT !.nodes = nodes])
    BY DEF NodeAccepted
  <2>2. \/ nodes[m] = [r.nodes[m] EXCEPT !.status = "accepted"]
        \/ nodes[m] = SupersededBy(r.nodes[m], n)
        \/ nodes[m] = r.nodes[m]
    <3> HIDE DEF retired
    <3> QED
      OBVIOUS
  <2> HIDE DEF nodes
  <2>3. nodes[m] \in WorkflowNode /\ nodes[m].attempts = r.nodes[m].attempts
    BY <1>1, <2>2 DEF SupersededBy, WorkflowNode, NodeStatus
  <2> QED
    BY <1>2, <2>1, <2>3
<1>5. ASSUME NEW n \in Node, NEW by \in Node
      PROVE  NodeSuperseded(r, n, by).nodes[m].attempts = r.nodes[m].attempts
  <2> DEFINE nodes == [r.nodes EXCEPT ![n] = SupersededBy(@, by)]
  <2>1. NodeSuperseded(r, n, by) = refreshReadiness([r EXCEPT !.nodes = nodes])
    BY DEF NodeSuperseded, WorkflowRun
  <2>2. nodes[m] \in {r.nodes[m], SupersededBy(r.nodes[m], by)}
    BY <1>1
  <2> HIDE DEF nodes
  <2>3. nodes[m] \in WorkflowNode /\ nodes[m].attempts = r.nodes[m].attempts
    BY <1>1, <2>2 DEF SupersededBy, WorkflowNode, NodeStatus
  <2> QED
    BY <1>2, <2>1, <2>3
<1>6. ASSUME NEW n \in Node
      PROVE  /\ NodeRejected(r, n).nodes[m].attempts = r.nodes[m].attempts
             /\ NodeCancelled(r, n).nodes[m].attempts = r.nodes[m].attempts
             /\ \A more : NodeReopened(r, n, more).nodes[m].attempts = r.nodes[m].attempts
  BY <1>1 DEF NodeRejected, NodeCancelled, NodeReopened, WorkflowRun, WorkflowNode
<1>7. \A s : StatusChanged(r, s).nodes = r.nodes
  BY DEF StatusChanged, WorkflowRun
<1> QED
  BY <1>3, <1>4, <1>5, <1>6, <1>7

\* The calls of the Supervisor that start nothing.
LEMMA DecisionSober ==
    ASSUME IInv, Decision
    PROVE  Sober(run, run', child) /\ child' = child
<1> DEFINE r == Resolved
<1>1. RunInv(run) /\ RunInv(r) /\ r \in WorkflowRun /\ child \in Children
  BY ResolvedInv DEF IInv, TypeOK, Children, RunInv
<1>2. Sober(run, r, child)
  BY <1>1, RecoveredSober DEF Resolved
<1> HIDE DEF r
<1>3. child' = child
  BY DEF Decision, ApplyPlan, ReadRun, CancelWaiting, CancelIdle, Accept, Reject, Supersede,
         Reopen, Pause, Stop, Complete, QualityGateFails, UpdateNode
<1>4. ASSUME Sober(r, run', child)
      PROVE  Sober(run, run', child)
  BY <1>1, <1>2, <1>4, SoberTransitive
<1>5. ASSUME NEW q \in WorkflowRun, Sober(r, q, child), NEW s, run' = StatusChanged(q, s)
      PROVE  Sober(run, run', child)
  BY <1>4, <1>5, AttemptsKept DEF Sober
<1>6. Sober(r, r, child)
  BY SameSober
<1>7. ASSUME NEW p \in Plans, ApplyPlan(p)
      PROVE  Sober(run, run', child)
  BY <1>1, <1>4, <1>7, AttemptsKept, SameSober DEF ApplyPlan, r
<1>8. ASSUME NEW n \in Node, Accept(n) \/ Reject(n) \/ CancelIdle(n)
      PROVE  Sober(run, run', child)
  BY <1>1, <1>4, <1>8, AttemptsKept, SameSober DEF Accept, Reject, CancelIdle, r
<1>9. CASE ReadRun \/ \E n \in Node : UpdateNode(n)
  BY <1>2, <1>9 DEF ReadRun, UpdateNode, r
<1>10. ASSUME NEW n \in Node, CancelWaiting(n)
       PROVE  Sober(run, run', child)
  <2> DEFINE k == Len(r.nodes[n].attempts)
             q == NodeReported(r, n, k, "cancelled")
             outcomes == [m \in Node |-> IF m = n THEN "cancelled" ELSE "none"]
  <2>1. NodeInv(r.nodes[n]) /\ r.nodes[n].status = "waiting" /\ run' = q
    BY <1>1, <1>10 DEF CancelWaiting, RunInv, r
  <2>2. LastAttempt(r.nodes[n]) \in LiveAttempt
    BY <2>1 DEF NodeInv, CoherentNode, LiveAttempt
  <2>3. q = Settled(r, outcomes)
    <3>1. r.nodes = [m \in Node |-> r.nodes[m]]
      BY <1>1, RunFields
    <3>2. [r.nodes EXCEPT ![n] = Reported(r.nodes[n], k, "cancelled")]
            = [m \in Node |-> IF outcomes[m] = "none" THEN r.nodes[m]
                              ELSE Reported(r.nodes[m], Len(r.nodes[m].attempts), outcomes[m])]
      <4>1. [r.nodes EXCEPT ![n] = Reported(r.nodes[n], k, "cancelled")]
              = [m \in Node |-> IF m = n THEN Reported(r.nodes[n], k, "cancelled") ELSE r.nodes[m]]
        BY <3>1
      <4> QED
        BY <4>1
    <3> QED
      BY <1>1, <3>2 DEF NodeReported, Settled, WorkflowRun
  <2>4. "cancelled" \in AttemptState
    BY DEF AttemptState, TerminalAttempt
  <2>5. \A m \in Node : outcomes[m] # "none" =>
          /\ outcomes[m] \in AttemptState
          /\ LastAttempt(r.nodes[m]) \in LiveAttempt
          /\ ~ (Scheduling /\ r.nodes[m].status = "running")
          /\ outcomes[m] = "completed" => child[m][Len(r.nodes[m].attempts)].outcome = "completed"
    BY <2>1, <2>2, <2>4
  <2> HIDE DEF outcomes, q
  <2>6. Sober(r, q, child)
    BY <1>1, <2>3, <2>5, SettledSober
  <2> QED
    BY <1>4, <2>1, <2>6
<1>11. ASSUME NEW n \in Node, NEW by \in Node, Supersede(n, by)
       PROVE  Sober(run, run', child)
  <2> DEFINE q == NodeSuperseded(r, n, by)
  <2>1. q \in WorkflowRun /\ Sober(r, q, child)
    <3>1. NodeSupersedeTakes(r, n, by)
      BY <1>11 DEF Supersede, r
    <3>2. q \in WorkflowRun
      BY <1>1, <3>1, NodeSupersededInv DEF RunInv
    <3>3. Sober(r, q, child)
      BY <1>1, AttemptsKept, SameSober DEF RunInv
    <3> QED
      BY <3>2, <3>3
  <2>2. run' = q \/ run' = StatusChanged(q, "active")
    BY <1>11 DEF Supersede, Revived, r
  <2> HIDE DEF q
  <2> QED
    BY <1>4, <1>5, <2>1, <2>2
<1>12. ASSUME NEW n \in Node, NEW additional \in ReopenBy, Reopen(n, additional)
       PROVE  Sober(run, run', child)
  <2> DEFINE q == NodeReopened(r, n, additional)
  <2>1. additional \in Nat
    BY WorkflowAssumption
  <2>2. q \in WorkflowRun /\ Sober(r, q, child)
    BY <1>1, <1>12, <2>1, NodeReopenedInv, AttemptsKept, SameSober DEF Reopen, RunInv, r
  <2>3. run' = q \/ run' = StatusChanged(q, "active")
    BY <1>12 DEF Reopen, Revived, r
  <2> HIDE DEF q
  <2> QED
    BY <1>4, <1>5, <2>2, <2>3
<1>13. CASE Pause \/ Complete \/ QualityGateFails
  <2>1. run' = r \/ \E s \in RunStatus : run' = StatusChanged(r, s)
    BY <1>13 DEF Pause, Complete, QualityGateFails, AfterRefusal, RunStatus, r
  <2> QED
    BY <1>1, <1>3, <1>4, <1>5, <1>6, <2>1
<1>14. CASE Stop
  <2> DEFINE outcomes == [n \in Node |-> IF r.nodes[n].status = "waiting"
                                         THEN "cancelled" ELSE "none"]
             q == WaitingCancelled(r)
  <2>1. \A n \in Node : outcomes[n] # "none" =>
          /\ outcomes[n] \in AttemptState
          /\ LastAttempt(r.nodes[n]) \in LiveAttempt
          /\ ~ (Scheduling /\ r.nodes[n].status = "running")
          /\ outcomes[n] = "completed" => child[n][Len(r.nodes[n].attempts)].outcome = "completed"
    BY <1>1 DEF RunInv, NodeInv, CoherentNode, LiveAttempt, AttemptState, TerminalAttempt
  <2>2. q = Settled(r, outcomes)
    BY DEF WaitingCancelled
  <2> HIDE DEF outcomes
  <2>3. Sober(r, q, child) /\ q \in WorkflowRun
    BY <1>1, <2>1, <2>2, SettledSober, WaitingCancelledInv DEF RunInv
  <2>4. run' = StatusChanged(q, "stopped")
    BY <1>14 DEF Stop, r
  <2> HIDE DEF q
  <2> QED
    BY <1>3, <1>5, <2>3, <2>4
<1>15. Sober(run, run', child)
  BY <1>7, <1>8, <1>9, <1>10, <1>11, <1>12, <1>13, <1>14 DEF Decision
<1> QED
  BY <1>3, <1>15

\* Between two states no scheduler takes up a flight or begins to be awaited.
FlightsKept(sc, sd) ==
    \A s \in Sched : \A n \in Node : sd[s].flights[n] \in {0, sc[s].flights[n]}

AwaitsKept(sc, sd) ==
    \A s \in Sched : \/ sd[s] = IdleScheduler
                     \/ sd[s].awaited = sc[s].awaited

\* Children go on: none detaches, none takes back its completion.
ChildrenKept(c, d) ==
    \A n \in Node, k \in 1..AttemptCap :
        /\ d[n][k].detached = c[n][k].detached
        /\ c[n][k].outcome = "completed" => d[n][k].outcome = "completed"

Goes(sd, d) == FlightsKept(sched, sd) /\ AwaitsKept(sched, sd) /\ ChildrenKept(child, d)

\* Every step but the answer of a child and a write that throws goes on soberly, to a run that
\* it leaves or from which an idle scheduler is launched while none is awaited.
LEMMA StepShape ==
    ASSUME IInv, [Next]_vars
    PROVE  \/ \E s \in Sched, n \in Node, answer \in Answers : Land(s, n, answer)
           \/ \E s \in Sched, n \in Node : WorkerThrows(s, n)
           \/ Goes(sched', child') /\ Sober(run, run', child')
           \/ /\ child' = child /\ ~ Scheduling
              /\ \E r \in WorkflowRun, s \in Sched, batch \in SUBSET Node :
                    RunInv(r) /\ Sober(run, r, child) /\ IsIdle(s) /\ Launch(r, s, batch)
<1> DEFINE Launches ==
             /\ child' = child /\ ~ Scheduling
             /\ \E r \in WorkflowRun, s \in Sched, batch \in SUBSET Node :
                   RunInv(r) /\ Sober(run, r, child) /\ IsIdle(s) /\ Launch(r, s, batch)
           GoesOn == Goes(sched', child') /\ Sober(run, run', child')
<1>1. RunInv(run) /\ RunInv(Resolved) /\ child \in Children /\ sched \in [Sched -> Scheduler]
      /\ run \in WorkflowRun /\ Resolved \in WorkflowRun
  BY ResolvedInv DEF IInv, TypeOK, Children, RunInv
<1>2. Sober(run, run, child) /\ Sober(run, Resolved, child) /\ Sober(run, Reconciled(run, child), child)
  BY <1>1, RecoveredSober, SameSober DEF Resolved
<1>3. FlightsKept(sched, sched) /\ AwaitsKept(sched, sched) /\ ChildrenKept(child, child)
  BY DEF FlightsKept, AwaitsKept, ChildrenKept
<1>4. ASSUME NEW r, RunInv(r), Sober(run, r, child), child' = child,
             RunReadyFrom(r)
      PROVE  Launches
  <2>1. PICK s \in Sched : IsIdle(s) /\ Launch(r, s, ReadyBatch(r))
    BY <1>4 DEF RunReadyFrom
  <2>2. ReadyBatch(r) \in SUBSET Node /\ r \in WorkflowRun /\ ~ Scheduling
    BY <1>4 DEF ReadyBatch, ReadyNodes, RunInv, RunReadyFrom
  <2> QED
    BY <1>4, <2>1, <2>2
<1>5. ASSUME Sober(run, run', child), child' = child, sched' = sched
      PROVE  GoesOn
  BY <1>3, <1>5 DEF Goes
<1>6. CASE UNCHANGED vars
  BY <1>2, <1>5, <1>6 DEF vars
<1>7. CASE Decision
  <2>1. Sober(run, run', child) /\ child' = child
    BY <1>7, DecisionSober
  <2>2. CASE Stop
    <3>1. FlightsKept(sched, sched') /\ AwaitsKept(sched, sched')
      BY <1>1, <2>2 DEF Stop, FlightsKept, AwaitsKept, Scheduler
    <3> QED
      BY <1>3, <2>1, <3>1 DEF Goes
  <2>3. CASE ~ Stop
    <3>1. sched' = sched
      BY <1>7, <2>3 DEF Decision, ApplyPlan, ReadRun, CancelWaiting, CancelIdle, Accept, Reject,
           Supersede, Reopen, Pause, Complete, QualityGateFails, UpdateNode
    <3> QED
      BY <1>5, <2>1, <3>1
  <2> QED
    BY <2>2, <2>3
<1>8. CASE RunReady
  BY <1>1, <1>2, <1>4, <1>8 DEF RunReady
<1>9. ASSUME NEW n \in Node, RetryNode(n)
      PROVE  Launches
  <2>1. PICK s \in Sched : IsIdle(s) /\ Launch(Resolved, s, {n})
    BY <1>9 DEF RetryNode
  <2>2. {n} \in SUBSET Node /\ child' = child /\ ~ Scheduling
    BY <1>9 DEF RetryNode
  <2> QED
    BY <1>1, <1>2, <2>1, <2>2
<1>10. CASE Resume
  <2> DEFINE active == StatusChanged(Resolved, "active")
             again == Recovered(active, child)
  <2>1. child' = child
    BY <1>10 DEF Resume
  <2>2. RunInv(active) /\ Sober(run, active, child)
    <3>1. RunInv(active)
      BY <1>1, StatusChangedInv DEF RunStatus
    <3>2. Sober(Resolved, active, child)
      BY <1>1, AttemptsKept, SameSober
    <3> HIDE DEF active
    <3> QED
      BY <1>1, <1>2, <3>1, <3>2, SoberTransitive
  <2>3. RunInv(again) /\ Sober(run, again, child)
    <3> HIDE DEF active
    <3>1. RunInv(again) /\ Sober(active, again, child)
      BY <1>1, <2>2, RecoveredInv, RecoveredSober
    <3> HIDE DEF again
    <3> QED
      BY <1>1, <2>2, <3>1, SoberTransitive
  <2>4. RunReadyFrom(again) \/ (run' \in {active, again} /\ sched' = sched)
    BY <1>10 DEF Resume
  <2> HIDE DEF active, again
  <2> QED
    BY <1>4, <1>5, <2>1, <2>2, <2>3, <2>4
<1>11. CASE SessionStart
  <2>1. child' = child
    BY <1>11 DEF SessionStart
  <2>2. RunReadyFrom(Resolved) \/ (run' \in {run, Resolved} /\ sched' = sched)
    BY <1>11 DEF SessionStart
  <2> QED
    BY <1>1, <1>2, <1>4, <1>5, <2>1, <2>2
<1>12. ASSUME NEW s \in Sched, RunReadyReturns(s)
       PROVE  GoesOn
  <2>1. sched' = [sched EXCEPT ![s] = IdleScheduler] /\ child' = child
        /\ run' = Reconciled(run, child)
    BY <1>12 DEF RunReadyReturns
  <2>2. FlightsKept(sched, sched') /\ AwaitsKept(sched, sched')
    BY <1>1, <2>1 DEF FlightsKept, AwaitsKept, IdleScheduler
  <2> QED
    BY <1>2, <1>3, <2>1, <2>2 DEF Goes
<1>13. ASSUME NEW s \in Sched, CallerAborts(s) \/ \E n \in Node : CancelRunning(s, n)
       PROVE  GoesOn
  <2>1. child' = child /\ run' \in {run, Resolved}
    BY <1>13 DEF CallerAborts, CancelRunning
  <2>2. \/ sched' = [sched EXCEPT ![s].aborted = TRUE]
        \/ \E n \in Node : sched' = [sched EXCEPT ![s].nodeAborted = @ \cup {n}]
    BY <1>13 DEF CallerAborts, CancelRunning
  <2>3. ASSUME NEW t \in Sched
        PROVE  sched'[t].flights = sched[t].flights /\ sched'[t].awaited = sched[t].awaited
    <3>1. sched[t] \in Scheduler
      BY <1>1
    <3>2. \/ sched'[t] = sched[t]
          \/ sched'[t] = [sched[t] EXCEPT !.aborted = TRUE]
          \/ \E n \in Node : sched'[t] = [sched[t] EXCEPT !.nodeAborted = @ \cup {n}]
      BY <1>1, <2>2
    <3> QED
      BY <3>1, <3>2 DEF Scheduler
  <2>4. FlightsKept(sched, sched') /\ AwaitsKept(sched, sched')
    BY <2>3 DEF FlightsKept, AwaitsKept
  <2> QED
    BY <1>2, <1>3, <2>1, <2>4 DEF Goes
<1>14. CASE Surroundings
  <2>1. CASE \E n \in Node, k \in 1..AttemptCap, outcome \in ChildOutcomes : ChildEnds(n, k, outcome)
    <3>1. PICK n \in Node, k \in 1..AttemptCap, outcome \in ChildOutcomes : ChildEnds(n, k, outcome)
      BY <2>1
    <3>2. ChildrenKept(child, child')
      BY <1>1, <3>1 DEF ChildEnds, ChildrenKept, Children, Child
    <3>3. Sober(run, run', child') /\ sched' = sched
      BY <3>1, SameSober DEF ChildEnds
    <3> QED
      BY <1>3, <3>2, <3>3 DEF Goes
  <2>2. CASE \E n \in Node, k \in 1..AttemptCap : ChildTells(n, k)
    <3>1. PICK n \in Node, k \in 1..AttemptCap : ChildTells(n, k)
      BY <2>2
    <3>2. ChildrenKept(child, child') /\ child' \in Children
      <4> DEFINE v == [child[n][k] EXCEPT !.told = TRUE]
      <4>1. child[n][k] \in Child /\ v \in Child /\ child' = [child EXCEPT ![n][k] = v]
        BY <1>1, <3>1, ChildChanged DEF ChildTells, Children
      <4>2. v.detached = child[n][k].detached /\ v.outcome = child[n][k].outcome
        BY <4>1 DEF Child
      <4> HIDE DEF v
      <4>3. child' \in Children
        BY <1>1, <4>1, ChildrenChanged
      <4>4. ChildrenKept(child, child')
        BY <1>1, <4>1, <4>2 DEF ChildrenKept, Children
      <4> QED
        BY <4>3, <4>4
    <3>3. run' \in {run, Recovered(run, child')} /\ sched' = sched
      BY <3>1 DEF ChildTells
    <3>4. Sober(run, run', child')
      BY <1>1, <3>2, <3>3, RecoveredSober, SameSober
    <3> QED
      BY <1>3, <3>2, <3>3, <3>4 DEF Goes
  <2>3. CASE \E n \in Node : DeadlinePasses(n)
    <3>1. PICK n \in Node : DeadlinePasses(n)
      BY <2>3
    <3>2. ChildrenKept(child, child')
      BY <1>1, <3>1 DEF DeadlinePasses, ChildrenKept, Children, Child
    <3>3. Sober(run, run', child') /\ sched' = sched
      BY <3>1, SameSober DEF DeadlinePasses
    <3> QED
      BY <1>3, <3>2, <3>3 DEF Goes
  <2>4. CASE Crash
    <3>1. /\ sched' = [s \in Sched |-> IdleScheduler]
          /\ child' = [n \in Node |-> [k \in 1..AttemptCap |->
                                          [child[n][k] EXCEPT !.told = FALSE]]]
          /\ run' = run
      BY <2>4 DEF Crash
    <3>2. ChildrenKept(child, child')
      <4> SUFFICES ASSUME NEW n \in Node, NEW k \in 1..AttemptCap
                   PROVE  /\ child'[n][k].detached = child[n][k].detached
                          /\ child'[n][k].outcome = child[n][k].outcome
        BY DEF ChildrenKept
      <4>1. child[n][k] \in Child
        BY <1>1 DEF Children
      <4>2. child'[n][k] = [child[n][k] EXCEPT !.told = FALSE]
        BY <3>1
      <4> QED
        BY <4>1, <4>2 DEF Child
    <3>3. FlightsKept(sched, sched') /\ AwaitsKept(sched, sched')
      BY <3>1 DEF FlightsKept, AwaitsKept, IdleScheduler
    <3>4. Sober(run, run', child')
      BY <3>1, SameSober
    <3> QED
      BY <3>2, <3>3, <3>4 DEF Goes
  <2> QED
    BY <1>14, <2>1, <2>2, <2>3, <2>4 DEF Surroundings
<1> QED
  BY <1>6, <1>7, <1>8, <1>9, <1>10, <1>11, <1>12, <1>13, <1>14
     DEF Next, Persists, Reads, Elsewhere, Decision, Surroundings

-----------------------------------------------------------------------------
(***************************************************************************)
(* The inductive invariants. A detached child belongs to an attempt that   *)
(* was made. A worker waits for an attempt that was made and has no        *)
(* detached child, and it alone waits for it. Without IO faults one        *)
(* scheduler at most is awaited, and only its workers wait.                *)
(***************************************************************************)
GenuineOf(r, c) ==
    \A n \in Node : \A k \in 1..Len(r.nodes[n].attempts) :
        r.nodes[n].attempts[k] = "completed" /\ c[n][k].detached => c[n][k].outcome = "completed"

ChildrenOf(r, c) ==
    \A n \in Node, k \in 1..AttemptCap : c[n][k].detached => k <= Len(r.nodes[n].attempts)

FlightsOf(r, sc, c) ==
    \A s \in Sched, n \in Node :
        sc[s].flights[n] # 0 =>
            /\ sc[s].flights[n] <= Len(r.nodes[n].attempts)
            /\ ~ c[n][sc[s].flights[n]].detached
            /\ \A t \in Sched : sc[t].flights[n] = sc[s].flights[n] => t = s

MemoryOf(r, sc, c) == GenuineOf(r, c) /\ ChildrenOf(r, c) /\ FlightsOf(r, sc, c)

AloneOf(sc) == \A s, t \in Sched : sc[s].awaited /\ sc[t].awaited => s = t

AwaitedOf(r, sc) ==
    \A s \in Sched, n \in Node :
        sc[s].flights[n] # 0 =>
            /\ sc[s].awaited
            /\ r.nodes[n].status = "running"
            /\ sc[s].flights[n] = Len(r.nodes[n].attempts)

LiveOf(r, sc) == AloneOf(sc) /\ AwaitedOf(r, sc)

\* The attempts of a node are few, and each has its child.
LEMMA AttemptsBounded ==
    ASSUME NEW r, RunInv(r), NEW n \in Node
    PROVE  /\ r.nodes[n].attempts \in Seq(AttemptState)
           /\ Len(r.nodes[n].attempts) \in Nat
           /\ \A k \in Nat \ {0} : k <= Len(r.nodes[n].attempts) => k \in 1..AttemptCap
<1>1. NodeInv(r.nodes[n]) /\ r.nodes[n].attempts \in Seq(AttemptState)
  BY NodeFields DEF RunInv, NodeInv
<1>2. Len(r.nodes[n].attempts) \in Nat /\ Len(r.nodes[n].attempts) <= AttemptCap
  BY <1>1 DEF NodeInv
<1> QED
  BY <1>1, <1>2, WorkflowAssumption

\* Sober steps keep both.
LEMMA SoberMemory ==
    ASSUME NEW r, RunInv(r), NEW q, RunInv(q), NEW c, NEW d \in Children, Sober(r, q, d),
           ChildrenKept(c, d), NEW sc \in [Sched -> Scheduler], NEW sd, FlightsKept(sc, sd),
           MemoryOf(r, sc, c)
    PROVE  MemoryOf(q, sd, d)
<1>1. \A n \in Node : /\ Len(q.nodes[n].attempts) = Len(r.nodes[n].attempts)
                      /\ \A k \in 1..Len(r.nodes[n].attempts) :
                            q.nodes[n].attempts[k] = "completed" =>
                                \/ r.nodes[n].attempts[k] = "completed"
                                \/ d[n][k].outcome = "completed"
  BY DEF Sober, SoberNode
<1>2. \A n \in Node : \A k \in Nat \ {0} :
        k <= Len(r.nodes[n].attempts) =>
            /\ d[n][k].detached = c[n][k].detached
            /\ c[n][k].outcome = "completed" => d[n][k].outcome = "completed"
  BY AttemptsBounded DEF ChildrenKept
<1>3. GenuineOf(q, d)
  <2> SUFFICES ASSUME NEW n \in Node, NEW k \in 1..Len(q.nodes[n].attempts),
                      q.nodes[n].attempts[k] = "completed", d[n][k].detached
               PROVE  d[n][k].outcome = "completed"
    BY DEF GenuineOf
  <2>1. k \in Nat \ {0} /\ k <= Len(r.nodes[n].attempts) /\ k \in 1..Len(r.nodes[n].attempts)
    BY <1>1, AttemptsBounded
  <2>2. r.nodes[n].attempts[k] = "completed" => c[n][k].outcome = "completed"
    BY <1>2, <2>1 DEF MemoryOf, GenuineOf
  <2> QED
    BY <1>1, <1>2, <2>1, <2>2
<1>4. ChildrenOf(q, d)
  BY <1>1 DEF MemoryOf, ChildrenOf, ChildrenKept
<1>5. FlightsOf(q, sd, d)
  <2> SUFFICES ASSUME NEW s \in Sched, NEW n \in Node, sd[s].flights[n] # 0
               PROVE  /\ sd[s].flights[n] <= Len(q.nodes[n].attempts)
                      /\ ~ d[n][sd[s].flights[n]].detached
                      /\ \A t \in Sched : sd[t].flights[n] = sd[s].flights[n] => t = s
    BY DEF FlightsOf
  <2>1. sd[s].flights[n] = sc[s].flights[n] /\ sc[s].flights[n] \in Nat \ {0}
    BY DEF FlightsKept, Scheduler
  <2>2. /\ sc[s].flights[n] <= Len(r.nodes[n].attempts)
        /\ ~ c[n][sc[s].flights[n]].detached
        /\ \A t \in Sched : sc[t].flights[n] = sc[s].flights[n] => t = s
    BY <2>1 DEF MemoryOf, FlightsOf
  <2>3. ASSUME NEW t \in Sched, sd[t].flights[n] = sd[s].flights[n]
        PROVE  t = s
    <3>1. sd[t].flights[n] = sc[t].flights[n]
      BY <2>3 DEF FlightsKept
    <3> QED
      BY <2>1, <2>2, <2>3, <3>1
  <2> QED
    BY <1>1, <1>2, <2>1, <2>2, <2>3
<1> QED
  BY <1>3, <1>4, <1>5 DEF MemoryOf

\* The same for the schedulers; here the schedulers are those the step starts from.
LEMMA SoberLive ==
    ASSUME NEW q, RunInv(run), RunInv(q), NEW c, Sober(run, q, c),
           NEW sd, FlightsKept(sched, sd), AwaitsKept(sched, sd), LiveOf(run, sched)
    PROVE  LiveOf(q, sd)
<1>1. \A s \in Sched : sd[s] = IdleScheduler => ~ sd[s].awaited /\ \A n \in Node : sd[s].flights[n] = 0
  BY DEF IdleScheduler
<1>2. AloneOf(sd)
  BY <1>1 DEF LiveOf, AloneOf, AwaitsKept
<1>3. AwaitedOf(q, sd)
  <2> SUFFICES ASSUME NEW s \in Sched, NEW n \in Node, sd[s].flights[n] # 0
               PROVE  /\ sd[s].awaited
                      /\ q.nodes[n].status = "running"
                      /\ sd[s].flights[n] = Len(q.nodes[n].attempts)
    BY DEF AwaitedOf
  <2>1. sd[s].flights[n] = sched[s].flights[n] /\ sd[s].awaited = sched[s].awaited
    BY <1>1 DEF FlightsKept, AwaitsKept
  <2>2. /\ sched[s].awaited /\ Scheduling
        /\ run.nodes[n].status = "running"
        /\ sched[s].flights[n] = Len(run.nodes[n].attempts)
    BY <2>1 DEF LiveOf, AwaitedOf, Scheduling
  <2>3. q.nodes[n].attempts = run.nodes[n].attempts
    BY <2>2 DEF Sober, SoberNode
  <2>4. q.nodes[n].status = "running"
    <3>1. NodeInv(run.nodes[n]) /\ NodeInv(q.nodes[n])
      BY DEF RunInv
    <3> QED
      BY <2>2, <2>3, <3>1, RunningNode DEF LastAttempt
  <2> QED
    BY <2>1, <2>2, <2>3, <2>4
<1> QED
  BY <1>2, <1>3 DEF LiveOf

\* A scheduler s starts attempts, and its workers wait for them.
TakesOff(r, starting, sc, sd, s) ==
    \A t \in Sched, n \in Node :
        IF t = s /\ n \in starting THEN sd[t].flights[n] = Len(r.nodes[n].attempts) + 1
        ELSE sd[t].flights[n] \in {0, sc[t].flights[n]}

\* The new attempts.
LEMMA AttemptsStarted ==
    ASSUME NEW r, RunInv(r), NEW starting \in SUBSET Node, \A n \in starting : MayStart(r, n)
    PROVE  \A n \in Node :
             LET h == r.nodes[n].attempts
                 q == NodesStarted(r, starting)
             IN  IF n \in starting
                 THEN /\ r.nodes[n].status # "running"
                      /\ q.nodes[n].status = "running"
                      /\ Len(h) + 1 \in 1..AttemptCap
                      /\ Len(q.nodes[n].attempts) = Len(h) + 1
                      /\ q.nodes[n].attempts[Len(h) + 1] = "running"
                      /\ \A k \in 1..Len(h) : q.nodes[n].attempts[k] = h[k]
                 ELSE q.nodes[n] = r.nodes[n]
<1> SUFFICES ASSUME NEW n \in Node
             PROVE  LET h == r.nodes[n].attempts
                        q == NodesStarted(r, starting)
                    IN  IF n \in starting
                        THEN /\ r.nodes[n].status # "running"
                             /\ q.nodes[n].status = "running"
                             /\ Len(h) + 1 \in 1..AttemptCap
                             /\ Len(q.nodes[n].attempts) = Len(h) + 1
                             /\ q.nodes[n].attempts[Len(h) + 1] = "running"
                             /\ \A k \in 1..Len(h) : q.nodes[n].attempts[k] = h[k]
                        ELSE q.nodes[n] = r.nodes[n]
  OBVIOUS
<1> DEFINE v == r.nodes[n]
           w == NodesStarted(r, starting).nodes[n]
<1>1. w = IF n \in starting THEN Started(v) ELSE v
  BY DEF NodesStarted, RunInv, WorkflowRun
<1>2. v \in WorkflowNode /\ v.attempts \in Seq(AttemptState) /\ Len(v.attempts) \in Nat
  BY NodeFields DEF RunInv, NodeInv
<1>3. CASE n \in starting
  <2>1. v.status \in {"ready", "failed", "cancelled"} /\ Len(v.attempts) < AttemptCap
    BY <1>3 DEF MayStart, NodeStartTakes
  <2>2. w.status = "running" /\ w.attempts = Append(v.attempts, "running")
    BY <1>1, <1>2, <1>3 DEF Started, WorkflowNode
  <2>3. /\ Len(w.attempts) = Len(v.attempts) + 1
        /\ w.attempts[Len(v.attempts) + 1] = "running"
        /\ \A k \in 1..Len(v.attempts) : w.attempts[k] = v.attempts[k]
    BY <1>2, <2>2
  <2>4. Len(v.attempts) + 1 \in 1..AttemptCap
    BY <1>2, <2>1, WorkflowAssumption
  <2>5. v.status # "running"
    BY <2>1
  <2> QED
    BY <1>3, <2>2, <2>3, <2>4, <2>5
<1>4. CASE n \notin starting
  BY <1>1, <1>4
<1> QED
  BY <1>3, <1>4

\* Starts keep the children and the flights apart: a new attempt has neither.
LEMMA StartMemory ==
    ASSUME NEW r, RunInv(r), NEW starting \in SUBSET Node, \A n \in starting : MayStart(r, n),
           NEW c \in Children, NEW sc \in [Sched -> Scheduler], NEW sd, NEW s \in Sched,
           TakesOff(r, starting, sc, sd, s), MemoryOf(r, sc, c)
    PROVE  MemoryOf(NodesStarted(r, starting), sd, c)
<1> DEFINE q == NodesStarted(r, starting)
           L(n) == Len(r.nodes[n].attempts)
<1>1. \A n \in Node : IF n \in starting
                      THEN /\ L(n) + 1 \in 1..AttemptCap
                           /\ Len(q.nodes[n].attempts) = L(n) + 1
                           /\ q.nodes[n].attempts[L(n) + 1] = "running"
                           /\ \A k \in 1..L(n) : q.nodes[n].attempts[k] = r.nodes[n].attempts[k]
                      ELSE q.nodes[n] = r.nodes[n]
  BY AttemptsStarted
<1>2. \A n \in Node : L(n) \in Nat
  BY AttemptsBounded
<1> HIDE DEF q
<1>3. GenuineOf(q, c)
  <2> SUFFICES ASSUME NEW n \in Node, NEW k \in 1..Len(q.nodes[n].attempts),
                      q.nodes[n].attempts[k] = "completed", c[n][k].detached
               PROVE  c[n][k].outcome = "completed"
    BY DEF GenuineOf
  <2>1. k \in 1..L(n) /\ r.nodes[n].attempts[k] = "completed"
    <3>1. PICK l \in Nat : l = L(n)
      BY <1>2
    <3>2. CASE n \in starting
      <4>1. k \in 1..l + 1 /\ k # l + 1
        BY <1>1, <3>1, <3>2
      <4>2. k \in 1..l
        BY <4>1
      <4> QED
        BY <1>1, <3>1, <3>2, <4>2
    <3>3. CASE n \notin starting
      BY <1>1, <3>3
    <3> QED
      BY <3>2, <3>3
  <2> QED
    BY <2>1 DEF MemoryOf, GenuineOf
<1>4. ChildrenOf(q, c)
  <2> SUFFICES ASSUME NEW n \in Node, NEW k \in 1..AttemptCap, c[n][k].detached
               PROVE  k <= Len(q.nodes[n].attempts)
    BY DEF ChildrenOf
  <2>1. k <= L(n)
    BY DEF MemoryOf, ChildrenOf
  <2> QED
    BY <1>1, <1>2, <2>1
<1>5. FlightsOf(q, sd, c)
  <2> SUFFICES ASSUME NEW t \in Sched, NEW n \in Node, sd[t].flights[n] # 0
               PROVE  /\ sd[t].flights[n] <= Len(q.nodes[n].attempts)
                      /\ ~ c[n][sd[t].flights[n]].detached
                      /\ \A u \in Sched : sd[u].flights[n] = sd[t].flights[n] => u = t
    BY DEF FlightsOf
  <2>1. \A u \in Sched : sc[u].flights[n] \in Nat /\ sc[u].flights[n] <= L(n)
    BY <1>2 DEF MemoryOf, FlightsOf, Scheduler
  <2>2. \A u \in Sched : \/ sd[u].flights[n] \in {0, sc[u].flights[n]}
                         \/ u = s /\ n \in starting /\ sd[u].flights[n] = L(n) + 1
    BY DEF TakesOff
  <2>3. CASE sd[t].flights[n] = sc[t].flights[n]
    <3>1. /\ ~ c[n][sc[t].flights[n]].detached
          /\ \A u \in Sched : sc[u].flights[n] = sc[t].flights[n] => u = t
      BY <2>3 DEF MemoryOf, FlightsOf
    <3>2. \A u \in Sched : sd[u].flights[n] = sd[t].flights[n] =>
                               sd[u].flights[n] = sc[u].flights[n]
      BY <1>2, <2>1, <2>2, <2>3
    <3> QED
      BY <1>1, <1>2, <2>1, <2>3, <3>1, <3>2
  <2>4. CASE t = s /\ n \in starting /\ sd[t].flights[n] = L(n) + 1
    <3>1. PICK l \in Nat : l = L(n)
      BY <1>2
    <3>2. l + 1 \in 1..AttemptCap /\ Len(q.nodes[n].attempts) = l + 1
      BY <1>1, <2>4, <3>1
    <3>3. ~ c[n][l + 1].detached
      <4>1. c[n][l + 1].detached => l + 1 <= l
        BY <3>1, <3>2 DEF MemoryOf, ChildrenOf
      <4> QED
        BY <4>1
    <3>4. ASSUME NEW u \in Sched, sd[u].flights[n] = l + 1
          PROVE  u = s
      <4>1. sc[u].flights[n] \in Nat /\ sc[u].flights[n] <= l
        BY <2>1, <3>1
      <4>2. sd[u].flights[n] \in {0, sc[u].flights[n]} \/ u = s
        BY <2>2
      <4> QED
        BY <3>4, <4>1, <4>2
    <3> QED
      BY <2>4, <3>1, <3>2, <3>3, <3>4
  <2> QED
    BY <2>2, <2>3, <2>4
<1> QED
  BY <1>3, <1>4, <1>5 DEF MemoryOf, q

\* Starts of the one scheduler that is awaited.
LEMMA StartLive ==
    ASSUME NEW r, RunInv(r), NEW starting \in SUBSET Node, \A n \in starting : MayStart(r, n),
           NEW sc \in [Sched -> Scheduler], NEW sd, NEW s \in Sched,
           TakesOff(r, starting, sc, sd, s), AwaitedOf(r, sc), AloneOf(sd),
           \A t \in Sched : sc[t].awaited => sd[t].awaited,
           starting # {} => sd[s].awaited
    PROVE  LiveOf(NodesStarted(r, starting), sd)
<1> DEFINE q == NodesStarted(r, starting)
           L(n) == Len(r.nodes[n].attempts)
<1>1. \A n \in Node : IF n \in starting
                      THEN /\ r.nodes[n].status # "running"
                           /\ q.nodes[n].status = "running"
                           /\ Len(q.nodes[n].attempts) = L(n) + 1
                      ELSE q.nodes[n] = r.nodes[n]
  BY AttemptsStarted
<1> HIDE DEF q
<1>2. AwaitedOf(q, sd)
  <2> SUFFICES ASSUME NEW t \in Sched, NEW n \in Node, sd[t].flights[n] # 0
               PROVE  /\ sd[t].awaited
                      /\ q.nodes[n].status = "running"
                      /\ sd[t].flights[n] = Len(q.nodes[n].attempts)
    BY DEF AwaitedOf
  <2>1. CASE t = s /\ n \in starting
    BY <1>1, <2>1 DEF TakesOff
  <2>2. CASE ~ (t = s /\ n \in starting)
    <3>1. sd[t].flights[n] = sc[t].flights[n]
      BY <2>2 DEF TakesOff
    <3>2. sc[t].awaited /\ r.nodes[n].status = "running" /\ sc[t].flights[n] = L(n)
      BY <3>1 DEF AwaitedOf
    <3> QED
      BY <1>1, <3>1, <3>2
  <2> QED
    BY <2>1, <2>2
<1> QED
  BY <1>2 DEF LiveOf, q

\* A launch from a run that is in the invariant.
LEMMA LaunchTakesOff ==
    ASSUME NEW r, RunInv(r), NEW s \in Sched, NEW batch \in SUBSET Node, Launch(r, s, batch),
           sched \in [Sched -> Scheduler]
    PROVE  \E starting \in SUBSET Node :
             /\ \A n \in starting : MayStart(r, n)
             /\ run' = NodesStarted(r, starting)
             /\ TakesOff(r, starting, sched, sched', s)
             /\ sched'[s].awaited
             /\ \A t \in Sched \ {s} : sched'[t] = sched[t]
<1>1. PICK starting \in SUBSET batch, requested \in 1..Concurrency :
        /\ \A n \in starting : MayStart(r, n)
        /\ run' = NodesStarted(r, starting)
        /\ sched' = [sched EXCEPT ![s] =
             [awaited |-> TRUE, aborted |-> FALSE, queue |-> batch \ starting,
              flights |-> [n \in Node |-> IF n \in starting
                                          THEN Len(r.nodes[n].attempts) + 1 ELSE 0],
              nodeAborted |-> {}]]
  BY DEF Launch
<1>2. TakesOff(r, starting, sched, sched', s)
  BY <1>1 DEF TakesOff
<1>3. starting \in SUBSET Node /\ sched'[s].awaited /\ \A t \in Sched \ {s} : sched'[t] = sched[t]
  BY <1>1
<1> QED
  BY <1>1, <1>2, <1>3

\* A worker that has its answer takes one more node or none.
Landed(s, n) == [sched EXCEPT ![s].flights[n] = 0]

\* The launch of its worker, as a start.
LEMMA NextTakesOff ==
    ASSUME NEW r, RunInv(r), NEW s \in Sched, NEW landed \in Node, NextLaunch(r, s, landed),
           sched \in [Sched -> Scheduler]
    PROVE  \E starting \in SUBSET Node :
             /\ \A n \in starting : MayStart(r, n)
             /\ run' = NodesStarted(r, starting)
             /\ TakesOff(r, starting, Landed(s, landed), sched', s)
             /\ \A t \in Sched : sched'[t].awaited = sched[t].awaited
<1> DEFINE rest == [sched[s] EXCEPT !.flights[landed] = 0, !.nodeAborted = @ \ {landed}]
           sc == Landed(s, landed)
<1>1. sched[s] \in Scheduler
  OBVIOUS
<1>2. /\ rest \in Scheduler
      /\ rest.awaited = sched[s].awaited
      /\ rest.flights = [sched[s].flights EXCEPT ![landed] = 0]
  BY <1>1 DEF Scheduler
<1>3. /\ sc[s].flights = [sched[s].flights EXCEPT ![landed] = 0]
      /\ \A t \in Sched \ {s} : sc[t] = sched[t]
  BY <1>1 DEF Landed, Scheduler
<1>4. NodesStarted(r, {}) = r
  BY DEF NodesStarted, RunInv, WorkflowRun
<1> HIDE DEF rest, sc
<1>5. ASSUME run' = r, NEW v, sched' = [sched EXCEPT ![s] = v], v.awaited = rest.awaited,
             v.flights = rest.flights
      PROVE  /\ run' = NodesStarted(r, {})
             /\ TakesOff(r, {}, sc, sched', s)
             /\ \A t \in Sched : sched'[t].awaited = sched[t].awaited
  <2>1. sched'[s] = v /\ \A t \in Sched \ {s} : sched'[t] = sched[t]
    BY <1>5
  <2>2. \A t \in Sched : sched'[t].flights = sc[t].flights
    BY <1>2, <1>3, <1>5, <2>1
  <2>3. \A t \in Sched : sched'[t].awaited = sched[t].awaited
    BY <1>2, <1>5, <2>1
  <2> QED
    BY <1>4, <1>5, <2>2, <2>3 DEF TakesOff
<1> DEFINE Goal == \E starting \in SUBSET Node :
                     /\ \A n \in starting : MayStart(r, n)
                     /\ run' = NodesStarted(r, starting)
                     /\ TakesOff(r, starting, sc, sched', s)
                     /\ \A t \in Sched : sched'[t].awaited = sched[t].awaited
<1>6. ASSUME NEW starting \in SUBSET Node, \A n \in starting : MayStart(r, n),
              run' = NodesStarted(r, starting), TakesOff(r, starting, sc, sched', s),
              \A t \in Sched : sched'[t].awaited = sched[t].awaited
       PROVE  Goal
  BY <1>6
<1> HIDE DEF Goal
<1>7. CASE run' = r /\ sched' = [sched EXCEPT ![s] = rest]
  <2>1. /\ run' = NodesStarted(r, {})
        /\ TakesOff(r, {}, sc, sched', s)
        /\ \A t \in Sched : sched'[t].awaited = sched[t].awaited
    BY <1>5, <1>7
  <2>2. Goal
    BY <1>6, <2>1
  <2> QED
    BY <2>2 DEF Goal, sc
<1>8. CASE run' = r /\ sched' = [sched EXCEPT ![s] = [rest EXCEPT !.queue = {}]]
  <2>1. /\ [rest EXCEPT !.queue = {}].awaited = rest.awaited
        /\ [rest EXCEPT !.queue = {}].flights = rest.flights
    BY <1>2 DEF Scheduler
  <2>2. /\ run' = NodesStarted(r, {})
        /\ TakesOff(r, {}, sc, sched', s)
        /\ \A t \in Sched : sched'[t].awaited = sched[t].awaited
    BY <1>5, <1>8, <2>1
  <2>3. Goal
    BY <1>6, <2>2
  <2> QED
    BY <2>3 DEF Goal, sc
<1>9. ASSUME NEW n \in Node, NEW taken, MayStart(r, n), run' = NodesStarted(r, {n}),
             sched' = [sched EXCEPT ![s] =
                 [rest EXCEPT !.queue = @ \ taken, !.flights[n] = Len(r.nodes[n].attempts) + 1]]
      PROVE  /\ TakesOff(r, {n}, sc, sched', s)
             /\ \A t \in Sched : sched'[t].awaited = sched[t].awaited
  <2> DEFINE v == [rest EXCEPT !.queue = @ \ taken, !.flights[n] = Len(r.nodes[n].attempts) + 1]
  <2>1. /\ v.awaited = rest.awaited
        /\ v.flights = [rest.flights EXCEPT ![n] = Len(r.nodes[n].attempts) + 1]
    BY <1>2 DEF Scheduler
  <2> HIDE DEF v
  <2>2. sched'[s] = v /\ \A t \in Sched \ {s} : sched'[t] = sched[t]
    BY <1>9 DEF v
  <2>3. \A t \in Sched : sched'[t].awaited = sched[t].awaited
    BY <1>2, <2>1, <2>2
  <2>4. v.flights = [sc[s].flights EXCEPT ![n] = Len(r.nodes[n].attempts) + 1]
        /\ sc[s].flights \in [Node -> Nat]
    BY <1>2, <1>3, <2>1 DEF Scheduler
  <2>5. \A m \in Node : v.flights[m] = IF m = n THEN Len(r.nodes[n].attempts) + 1
                                       ELSE sc[s].flights[m]
    BY <2>4
  <2> QED
    BY <1>3, <2>2, <2>3, <2>5 DEF TakesOff
<1>10. CASE \E n \in sched[s].queue \cap ReadyNodes(r),
              passed \in SUBSET (sched[s].queue \ (sched[s].queue \cap ReadyNodes(r))) :
                /\ MayStart(r, n)
                /\ run' = NodesStarted(r, {n})
                /\ sched' = [sched EXCEPT ![s] =
                     [rest EXCEPT !.queue = @ \ ({n} \cup passed),
                                  !.flights[n] = Len(r.nodes[n].attempts) + 1]]
  <2>1. PICK n, taken :
                /\ n \in ReadyNodes(r)
                /\ MayStart(r, n)
                /\ run' = NodesStarted(r, {n})
                /\ sched' = [sched EXCEPT ![s] =
                     [rest EXCEPT !.queue = @ \ taken,
                                  !.flights[n] = Len(r.nodes[n].attempts) + 1]]
    BY <1>10
  <2>2. n \in Node
    BY <2>1 DEF ReadyNodes
  <2>3. /\ TakesOff(r, {n}, sc, sched', s)
        /\ \A t \in Sched : sched'[t].awaited = sched[t].awaited
    BY <1>9, <2>1, <2>2
  <2>4. {n} \in SUBSET Node /\ \A m \in {n} : MayStart(r, m)
    BY <2>1, <2>2
  <2> QED
    BY <2>1, <2>3, <2>4 DEF sc
<1> QED
  BY <1>7, <1>8, <1>10 DEF NextLaunch, rest

\* The attempt that a child answers.
LEMMA AfterAnswerNodes ==
    ASSUME NEW r, RunInv(r), NEW n \in Node, NEW k, ReportTakes(r, n, k),
           NEW answer \in Answers, NEW aborted
    PROVE  LET q == AfterAnswer(r, n, k, answer, aborted)
           IN  /\ \A m \in Node \ {n} : q.nodes[m] = r.nodes[m]
               /\ Len(q.nodes[n].attempts) = Len(r.nodes[n].attempts)
               /\ \A j \in 1..Len(r.nodes[n].attempts) :
                     j # k => q.nodes[n].attempts[j] = r.nodes[n].attempts[j]
               /\ q.nodes[n].attempts[k] = "completed" => answer = "completed"
<1> DEFINE outcome == AttemptOutcome(answer, aborted)
           next == NodeReported(r, n, k, outcome)
           q == AfterAnswer(r, n, k, answer, aborted)
           h == r.nodes[n].attempts
<1>1. outcome \in AttemptState /\ (outcome = "completed" => answer = "completed")
  BY WorkflowAssumption DEF AttemptOutcome, AttemptState, LiveAttempt, TerminalAttempt
<1>2. r \in WorkflowRun /\ r.nodes \in [Node -> WorkflowNode] /\ r.nodes[n] \in WorkflowNode
      /\ h \in Seq(AttemptState) /\ k \in 1..Len(h)
  BY RunFields, NodeFields DEF RunInv, ReportTakes
<1> HIDE DEF outcome
<1>3. q.nodes = next.nodes
  BY <1>2 DEF AfterAnswer, StatusChanged, outcome, NodeReported, WorkflowRun
<1>4. next.nodes = [r.nodes EXCEPT ![n] = Reported(r.nodes[n], k, outcome)]
  BY <1>2 DEF NodeReported, WorkflowRun
<1>5. Reported(r.nodes[n], k, outcome).attempts = [h EXCEPT ![k] = outcome]
  BY <1>2 DEF Reported, WorkflowNode
<1>6. /\ q.nodes[n].attempts = [h EXCEPT ![k] = outcome]
      /\ \A m \in Node \ {n} : q.nodes[m] = r.nodes[m]
  BY <1>2, <1>3, <1>4, <1>5
<1> HIDE DEF q, h
<1>7. /\ Len(q.nodes[n].attempts) = Len(h)
      /\ \A j \in 1..Len(h) : q.nodes[n].attempts[j] = IF j = k THEN outcome ELSE h[j]
  BY <1>1, <1>2, <1>6, ExceptSeq
<1> QED
  BY <1>1, <1>2, <1>6, <1>7 DEF q, h

\* The answer settles the flight.
LEMMA LandedMemory ==
    ASSUME IInv, MemoryOf(run, sched, child), NEW s \in Sched, NEW n \in Node,
           NEW answer \in Answers, Land(s, n, answer), NEW aborted
    PROVE  MemoryOf(AfterAnswer(run, n, sched[s].flights[n], answer, aborted), Landed(s, n), child')
<1> DEFINE k == sched[s].flights[n]
           q == AfterAnswer(run, n, k, answer, aborted)
           sc == Landed(s, n)
           h(m) == run.nodes[m].attempts
<1>1. RunInv(run) /\ ReportTakes(run, n, k) /\ child \in Children /\ sched \in [Sched -> Scheduler]
  BY DEF Land, IInv, TypeOK, Children
<1>2. k \in 1..AttemptCap /\ k \in 1..Len(h(n)) /\ k # 0
  <2>1. k \in 1..Len(h(n))
    BY <1>1 DEF ReportTakes
  <2>2. Len(h(n)) \in Nat
    BY <1>1, AttemptsBounded
  <2>3. k \in Nat \ {0} /\ k <= Len(h(n))
    BY <2>1, <2>2
  <2> QED
    BY <1>1, <2>1, <2>3, AttemptsBounded
<1>3. /\ ~ child[n][k].detached
      /\ \A t \in Sched : sched[t].flights[n] = k => t = s
  BY <1>2 DEF MemoryOf, FlightsOf
<1>4. /\ \A m \in Node \ {n} : q.nodes[m] = run.nodes[m]
      /\ Len(q.nodes[n].attempts) = Len(h(n))
      /\ \A j \in 1..Len(h(n)) : j # k => q.nodes[n].attempts[j] = h(n)[j]
      /\ q.nodes[n].attempts[k] = "completed" => answer = "completed"
  BY <1>1, AfterAnswerNodes
<1>5. \A t \in Sched, m \in Node : sc[t].flights[m] = IF t = s /\ m = n THEN 0
                                                      ELSE sched[t].flights[m]
  <2> SUFFICES ASSUME NEW t \in Sched, NEW m \in Node
               PROVE  sc[t].flights[m] = IF t = s /\ m = n THEN 0 ELSE sched[t].flights[m]
    OBVIOUS
  <2>1. sched[s] \in Scheduler
    BY <1>1
  <2>2. sc[t] = IF t = s THEN [sched[s] EXCEPT !.flights[n] = 0] ELSE sched[t]
    BY <1>1 DEF Landed
  <2> QED
    BY <2>1, <2>2 DEF Scheduler
<1>6. /\ \A m \in Node, j \in 1..AttemptCap : (m # n \/ j # k) => child'[m][j] = child[m][j]
      /\ answer = "completed" => child' = child
  <2>1. CASE answer = "detached"
    <3>1. PICK b \in BOOLEAN :
            child' = [child EXCEPT ![n][k] = [NoChild EXCEPT !.detached = TRUE, !.metadata = b]]
      BY <2>1 DEF Land
    <3> QED
      BY <1>1, <2>1, <3>1 DEF Children
  <2>2. CASE answer # "detached"
    BY <2>2 DEF Land
  <2> QED
    BY <2>1, <2>2
<1> HIDE DEF q, sc, k
<1>7. GenuineOf(q, child')
  <2> SUFFICES ASSUME NEW m \in Node, NEW j \in 1..Len(q.nodes[m].attempts),
                      q.nodes[m].attempts[j] = "completed", child'[m][j].detached
               PROVE  child'[m][j].outcome = "completed"
    BY DEF GenuineOf
  <2>1. CASE m = n /\ j = k
    BY <1>3, <1>4, <1>6, <2>1
  <2>2. CASE ~ (m = n /\ j = k)
    <3>1. j \in 1..Len(h(m)) /\ h(m)[j] = "completed"
      BY <1>4, <2>2
    <3>2. j \in Nat \ {0} /\ j <= Len(h(m))
      <4>1. Len(h(m)) \in Nat
        BY <1>1, AttemptsBounded
      <4> QED
        BY <3>1, <4>1
    <3>3. j \in 1..AttemptCap
      BY <1>1, <3>2, AttemptsBounded
    <3>4. child'[m][j] = child[m][j]
      BY <1>6, <2>2, <3>3
    <3> QED
      BY <3>1, <3>4 DEF MemoryOf, GenuineOf
  <2> QED
    BY <2>1, <2>2
<1>8. ChildrenOf(q, child')
  <2> SUFFICES ASSUME NEW m \in Node, NEW j \in 1..AttemptCap, child'[m][j].detached
               PROVE  j <= Len(q.nodes[m].attempts)
    BY DEF ChildrenOf
  <2>1. Len(q.nodes[m].attempts) = Len(h(m))
    BY <1>4
  <2>2. CASE m = n /\ j = k
    <3>1. Len(h(n)) \in Nat
      BY <1>1, AttemptsBounded
    <3> QED
      BY <1>2, <2>1, <2>2, <3>1
  <2>3. CASE ~ (m = n /\ j = k)
    <3>1. child[m][j].detached
      BY <1>6, <2>3
    <3> QED
      BY <2>1, <3>1 DEF MemoryOf, ChildrenOf
  <2> QED
    BY <2>2, <2>3
<1>9. FlightsOf(q, sc, child')
  <2> SUFFICES ASSUME NEW t \in Sched, NEW m \in Node, sc[t].flights[m] # 0
               PROVE  /\ sc[t].flights[m] <= Len(q.nodes[m].attempts)
                      /\ ~ child'[m][sc[t].flights[m]].detached
                      /\ \A u \in Sched : sc[u].flights[m] = sc[t].flights[m] => u = t
    BY DEF FlightsOf
  <2> DEFINE j == sched[t].flights[m]
  <2>1. ~ (t = s /\ m = n) /\ sc[t].flights[m] = j /\ j # 0
    BY <1>5
  <2>2. /\ j <= Len(h(m))
        /\ ~ child[m][j].detached
        /\ \A u \in Sched : sched[u].flights[m] = j => u = t
    BY <2>1 DEF MemoryOf, FlightsOf
  <2>3. j \in 1..AttemptCap
    <3>1. j \in Nat \ {0}
      BY <1>1, <2>1 DEF Scheduler
    <3> HIDE DEF j
    <3> QED
      BY <1>1, <2>2, <3>1, AttemptsBounded
  <2>4. m # n \/ j # k
    BY <1>3, <2>1
  <2>5. ~ child'[m][j].detached
    BY <1>6, <2>2, <2>3, <2>4
  <2>6. \A u \in Sched : sc[u].flights[m] = j => u = t
    BY <1>5, <2>1, <2>2
  <2>7. Len(q.nodes[m].attempts) = Len(h(m))
    BY <1>4
  <2> HIDE DEF j
  <2> QED
    BY <2>1, <2>2, <2>5, <2>6, <2>7
<1> QED
  BY <1>7, <1>8, <1>9 DEF MemoryOf, q, sc, k

\* The worker that lands is of the awaited scheduler, so that all other flights are its own.
LEMMA LandedLive ==
    ASSUME IInv, LiveOf(run, sched), NEW s \in Sched, NEW n \in Node,
           NEW answer \in Answers, Land(s, n, answer), NEW aborted
    PROVE  AwaitedOf(AfterAnswer(run, n, sched[s].flights[n], answer, aborted), Landed(s, n))
<1> DEFINE k == sched[s].flights[n]
           q == AfterAnswer(run, n, k, answer, aborted)
           sc == Landed(s, n)
<1>1. RunInv(run) /\ ReportTakes(run, n, k) /\ sched \in [Sched -> Scheduler] /\ k # 0
  BY DEF Land, IInv, TypeOK
<1>2. \A m \in Node \ {n} : q.nodes[m] = run.nodes[m]
  BY <1>1, AfterAnswerNodes
<1>3. \A t \in Sched, m \in Node :
        /\ sc[t].flights[m] = IF t = s /\ m = n THEN 0 ELSE sched[t].flights[m]
        /\ sc[t].awaited = sched[t].awaited
  <2> SUFFICES ASSUME NEW t \in Sched, NEW m \in Node
               PROVE  /\ sc[t].flights[m] = IF t = s /\ m = n THEN 0 ELSE sched[t].flights[m]
                      /\ sc[t].awaited = sched[t].awaited
    OBVIOUS
  <2>1. sched[s] \in Scheduler
    BY <1>1
  <2>2. sc[t] = IF t = s THEN [sched[s] EXCEPT !.flights[n] = 0] ELSE sched[t]
    BY <1>1 DEF Landed
  <2> QED
    BY <2>1, <2>2 DEF Scheduler
<1> HIDE DEF q, sc
<1> SUFFICES ASSUME NEW t \in Sched, NEW m \in Node, sc[t].flights[m] # 0
             PROVE  /\ sc[t].awaited
                    /\ q.nodes[m].status = "running"
                    /\ sc[t].flights[m] = Len(q.nodes[m].attempts)
  BY DEF AwaitedOf, q, sc
<1>4. sc[t].flights[m] = sched[t].flights[m] /\ ~ (t = s /\ m = n)
  BY <1>3
<1>5. /\ sched[t].awaited
      /\ run.nodes[m].status = "running"
      /\ sched[t].flights[m] = Len(run.nodes[m].attempts)
  BY <1>4 DEF LiveOf, AwaitedOf
<1>6. sched[s].awaited
  BY <1>1 DEF LiveOf, AwaitedOf
<1>7. m # n
  BY <1>4, <1>5, <1>6 DEF LiveOf, AloneOf
<1> QED
  BY <1>2, <1>3, <1>4, <1>5, <1>7

\* The child of every attempt that completed while it was detached completed.
LEMMA MemoryNext ==
    ASSUME IInv, MemoryOf(run, sched, child), [Next]_vars
    PROVE  MemoryOf(run, sched, child)'
<1>1. /\ RunInv(run) /\ RunInv(run') /\ child \in Children /\ child' \in Children
      /\ sched \in [Sched -> Scheduler]
  BY NextInv DEF IInv, TypeOK, Children
<1>2. FlightsKept(sched, sched) /\ ChildrenKept(child, child)
  BY DEF FlightsKept, ChildrenKept
<1>3. ASSUME NEW s \in Sched, NEW n \in Node, NEW answer \in Answers, Land(s, n, answer)
      PROVE  MemoryOf(run', sched', child')
  <2> DEFINE aborted == sched[s].aborted \/ n \in sched[s].nodeAborted
             q == AfterAnswer(run, n, sched[s].flights[n], answer, aborted)
  <2>1. MemoryOf(q, Landed(s, n), child')
    BY <1>3, LandedMemory
  <2>2. RunInv(q) /\ NextLaunch(q, s, n)
    BY <1>1, <1>3, AfterAnswerInv DEF Land
  <2>3. Landed(s, n) \in [Sched -> Scheduler]
    BY <1>1 DEF Landed, Scheduler
  <2> HIDE DEF q
  <2>4. PICK starting \in SUBSET Node :
          /\ \A m \in starting : MayStart(q, m)
          /\ run' = NodesStarted(q, starting)
          /\ TakesOff(q, starting, Landed(s, n), sched', s)
    BY <1>1, <2>2, NextTakesOff
  <2> QED
    BY <1>1, <2>1, <2>2, <2>3, <2>4, StartMemory
<1>4. ASSUME NEW s \in Sched, NEW n \in Node, WorkerThrows(s, n)
      PROVE  MemoryOf(run', sched', child')
  <2>1. run' = run /\ child' = child
        /\ sched' = [sched EXCEPT ![s].flights[n] = 0, ![s].awaited = FALSE]
    BY <1>4 DEF WorkerThrows
  <2>2. FlightsKept(sched, sched')
    <3> SUFFICES ASSUME NEW t \in Sched, NEW m \in Node
                 PROVE  sched'[t].flights[m] \in {0, sched[t].flights[m]}
      BY DEF FlightsKept
    <3>1. sched[t] \in Scheduler
      BY <1>1
    <3>2. \/ sched'[t] = sched[t]
          \/ sched'[t] = [sched[t] EXCEPT !.flights = [@ EXCEPT ![n] = 0], !.awaited = FALSE]
      BY <1>1, <2>1
    <3> QED
      BY <3>1, <3>2 DEF Scheduler
  <2>3. Sober(run, run', child')
    BY <2>1, SameSober
  <2> QED
    BY <1>1, <1>2, <2>1, <2>2, <2>3, SoberMemory
<1>5. CASE Goes(sched', child') /\ Sober(run, run', child')
  BY <1>1, <1>5, SoberMemory DEF Goes
<1>6. ASSUME child' = child, NEW r, NEW s \in Sched, NEW batch \in SUBSET Node,
             RunInv(r), Sober(run, r, child), Launch(r, s, batch)
      PROVE  MemoryOf(run', sched', child')
  <2>1. MemoryOf(r, sched, child)
    BY <1>1, <1>2, <1>6, SoberMemory
  <2>2. PICK starting \in SUBSET Node :
          /\ \A n \in starting : MayStart(r, n)
          /\ run' = NodesStarted(r, starting)
          /\ TakesOff(r, starting, sched, sched', s)
    BY <1>1, <1>6, LaunchTakesOff
  <2> QED
    BY <1>1, <1>6, <2>1, <2>2, StartMemory
<1>7. MemoryOf(run', sched', child')
  BY <1>3, <1>4, <1>5, <1>6, StepShape
<1> QED
  BY <1>7

\* Without IO faults a worker whose answer is due finds its attempt running.
LEMMA LiveNext ==
    ASSUME ~ IOFaults, IInv, LiveOf(run, sched), [Next]_vars
    PROVE  LiveOf(run, sched)'
<1>1. /\ RunInv(run) /\ RunInv(run') /\ sched \in [Sched -> Scheduler]
      /\ child' \in Children
  BY NextInv DEF IInv, TypeOK, Children
<1>2. FlightsKept(sched, sched) /\ AwaitsKept(sched, sched)
  BY DEF FlightsKept, AwaitsKept
<1>3. ASSUME NEW s \in Sched, NEW n \in Node, NEW answer \in Answers, Land(s, n, answer)
      PROVE  LiveOf(run', sched')
  <2> DEFINE aborted == sched[s].aborted \/ n \in sched[s].nodeAborted
             q == AfterAnswer(run, n, sched[s].flights[n], answer, aborted)
  <2>1. AwaitedOf(q, Landed(s, n))
    BY <1>3, LandedLive
  <2>2. RunInv(q) /\ NextLaunch(q, s, n) /\ sched[s].flights[n] # 0
    BY <1>1, <1>3, AfterAnswerInv DEF Land
  <2>3. /\ Landed(s, n) \in [Sched -> Scheduler]
        /\ \A t \in Sched : Landed(s, n)[t].awaited = sched[t].awaited
    BY <1>1 DEF Landed, Scheduler
  <2> HIDE DEF q
  <2>4. PICK starting \in SUBSET Node :
          /\ \A m \in starting : MayStart(q, m)
          /\ run' = NodesStarted(q, starting)
          /\ TakesOff(q, starting, Landed(s, n), sched', s)
          /\ \A t \in Sched : sched'[t].awaited = sched[t].awaited
    BY <1>1, <2>2, NextTakesOff
  <2>5. sched[s].awaited
    BY <2>2 DEF LiveOf, AwaitedOf
  <2>6. AloneOf(sched')
    BY <2>4 DEF LiveOf, AloneOf
  <2> QED
    BY <2>1, <2>2, <2>3, <2>4, <2>5, <2>6, StartLive
<1>4. ASSUME NEW s \in Sched, NEW n \in Node, WorkerThrows(s, n)
      PROVE  FALSE
  <2>1. /\ n \in Flying(s)
        /\ ~ ReportTakes(run, n, sched[s].flights[n])
    BY <1>4 DEF WorkerThrows
  <2>2. /\ run.nodes[n].status = "running"
        /\ sched[s].flights[n] = Len(run.nodes[n].attempts)
    BY <2>1 DEF Flying, LiveOf, AwaitedOf
  <2>3. NodeInv(run.nodes[n])
    BY <1>1 DEF RunInv
  <2> QED
    BY <2>1, <2>2, <2>3, RunningNode DEF ReportTakes, LiveAttempt
<1>5. CASE Goes(sched', child') /\ Sober(run, run', child')
  BY <1>1, <1>5, SoberLive DEF Goes
<1>6. ASSUME ~ Scheduling, NEW r, NEW s \in Sched, NEW batch \in SUBSET Node,
             RunInv(r), Sober(run, r, child), Launch(r, s, batch)
      PROVE  LiveOf(run', sched')
  <2>1. AwaitedOf(r, sched)
    BY <1>6 DEF LiveOf, AwaitedOf, Scheduling
  <2>2. PICK starting \in SUBSET Node :
          /\ \A n \in starting : MayStart(r, n)
          /\ run' = NodesStarted(r, starting)
          /\ TakesOff(r, starting, sched, sched', s)
          /\ sched'[s].awaited
          /\ \A t \in Sched \ {s} : sched'[t] = sched[t]
    BY <1>1, <1>6, LaunchTakesOff
  <2>3. \A t \in Sched : sched'[t].awaited => t = s
    BY <1>6, <2>2 DEF Scheduling
  <2>4. AloneOf(sched')
    BY <2>3 DEF AloneOf
  <2>5. \A t \in Sched : sched[t].awaited => sched'[t].awaited
    BY <1>6 DEF Scheduling
  <2> QED
    BY <1>1, <1>6, <2>1, <2>2, <2>4, <2>5, StartLive
<1>7. LiveOf(run', sched')
  BY <1>3, <1>4, <1>5, <1>6, StepShape
<1> QED
  BY <1>7

(***************************************************************************)
(* A late report never lands on a newer attempt, and recovery never        *)
(* invents a completion: a detached attempt is completed only if its own   *)
(* child completed, whatever schedulers, crashes, retries and failed       *)
(* writes come between (controller.ts:147-307).                            *)
(***************************************************************************)
THEOREM GenuineCompletion == Spec => []DetachedCompletionGenuine
<1>1. Init => MemoryOf(run, sched, child)
  <2> SUFFICES ASSUME Init PROVE MemoryOf(run, sched, child)
    OBVIOUS
  <2>1. \A n \in Node : run.nodes[n].attempts = <<>>
    BY DEF Init, WorkflowStarted
  <2>2. \A n \in Node, k \in 1..AttemptCap : ~ child[n][k].detached
    BY DEF Init, NoChild
  <2>3. \A s \in Sched, n \in Node : sched[s].flights[n] = 0
    BY DEF Init, IdleScheduler
  <2> QED
    BY <2>1, <2>2, <2>3 DEF MemoryOf, GenuineOf, ChildrenOf, FlightsOf
<1>2. IInv /\ MemoryOf(run, sched, child) /\ [Next]_vars => MemoryOf(run, sched, child)'
  BY MemoryNext
<1>3. MemoryOf(run, sched, child) => DetachedCompletionGenuine
  BY DEF MemoryOf, GenuineOf, DetachedCompletionGenuine
<1> QED
  BY <1>1, <1>2, <1>3, InitInv, NextInv, PTL DEF Spec

(***************************************************************************)
(* Without IO faults nothing ends an attempt behind the back of the worker *)
(* that waits for its answer: neither cancel, stop, recovery nor a late    *)
(* completion (scheduler.ts:545, controller.ts:331-347).                   *)
(***************************************************************************)
THEOREM InFlightRuns ==
    ASSUME ~ IOFaults
    PROVE  Spec => []InFlightIsRunning
<1>1. Init => LiveOf(run, sched)
  BY DEF Init, IdleScheduler, LiveOf, AloneOf, AwaitedOf
<1>2. IInv /\ LiveOf(run, sched) /\ [Next]_vars => LiveOf(run, sched)'
  BY LiveNext
<1>3. LiveOf(run, sched) => InFlightIsRunning
  BY DEF LiveOf, AwaitedOf, InFlightIsRunning, Flying
<1> QED
  BY <1>1, <1>2, <1>3, InitInv, NextInv, PTL DEF Spec
================================================================================
