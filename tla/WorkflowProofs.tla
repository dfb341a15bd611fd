----------------------------- MODULE WorkflowProofs -----------------------------
(***************************************************************************)
(* Proofs about Workflow, for any nodes, dependencies, attempts, ceilings  *)
(* and faults. They follow the layers of the model: a reducer operation    *)
(* keeps the invariant of the nodes it touches, an event keeps it for the  *)
(* run, and an action of the controller is a sequence of events.           *)
(***************************************************************************)
EXTENDS WorkflowProperties, SequenceTheorems, TLAPS

(***************************************************************************)
(* The inductive invariant. What a step needs of a node is in NodeInv,     *)
(* what it needs of a run in RunInv.                                       *)
(***************************************************************************)
NodeInv(v) ==
    /\ v \in WorkflowNode
    /\ CoherentNode(v)
    /\ Len(v.attempts) <= Ceiling(v)
    /\ Len(v.attempts) <= AttemptCap

RunInv(r) == r \in WorkflowRun /\ \A n \in Node : NodeInv(r.nodes[n])

IInv == TypeOK /\ RunInv(run)

-----------------------------------------------------------------------------
(***************************************************************************)
(* Nodes.                                                                  *)
(***************************************************************************)

\* The fields of a node have their types.
LEMMA NodeFields ==
    ASSUME NEW v \in WorkflowNode
    PROVE  /\ v.status \in NodeStatus
           /\ v.attempts \in Seq(AttemptState)
           /\ v.maxAttempts \in Nat
  BY DEF WorkflowNode

\* The last attempt of a node is one of its attempts, or "none".
LEMMA LastAttemptType ==
    ASSUME NEW v \in WorkflowNode
    PROVE  /\ v.attempts = <<>> => LastAttempt(v) = "none"
           /\ v.attempts # <<>> => /\ Len(v.attempts) \in 1..Len(v.attempts)
                                   /\ LastAttempt(v) = v.attempts[Len(v.attempts)]
                                   /\ LastAttempt(v) \in AttemptState
  BY NodeFields DEF LastAttempt

\* node.started of a node whose ceiling is not reached.
LEMMA StartedInv ==
    ASSUME NEW v, NodeInv(v), v.status \in {"ready", "failed", "cancelled"},
           ~ workflowNodeAttemptsExhausted(v), Len(v.attempts) < AttemptCap
    PROVE  NodeInv(Started(v))
<1> DEFINE w == Started(v)
           h == Append(v.attempts, "running")
<1>1. v \in WorkflowNode /\ v.attempts \in Seq(AttemptState) /\ v.maxAttempts \in Nat
  BY NodeFields DEF NodeInv
<1>2. /\ h \in Seq(AttemptState)
      /\ Len(h) = Len(v.attempts) + 1
      /\ h[Len(h)] = "running"
      /\ \A k \in 1..Len(v.attempts) : h[k] = v.attempts[k]
  BY <1>1 DEF AttemptState, LiveAttempt
<1>3. w = [v EXCEPT !.status = "running", !.attempts = h]
  BY DEF Started
<1> HIDE DEF w, h
<1>4. /\ w \in WorkflowNode
      /\ w.status = "running"
      /\ w.attempts = h
      /\ w.maxAttempts = v.maxAttempts
  BY <1>1, <1>2, <1>3 DEF WorkflowNode, NodeStatus
<1>5. \A k \in 1..Len(v.attempts) : v.attempts[k] \in TerminalAttempt
  BY <1>1 DEF NodeInv, CoherentNode, LastAttempt, AttemptState, LiveAttempt, TerminalAttempt
<1>6. CoherentNode(w)
  BY <1>1, <1>2, <1>4, <1>5 DEF CoherentNode, LastAttempt, LiveAttempt, TerminalAttempt
<1>7. Len(w.attempts) <= Ceiling(w)
  BY <1>1, <1>2, <1>4, ReducerAssumption
     DEF NodeInv, CoherentNode, Ceiling, workflowNodeAttemptsExhausted
<1>8. NodeInv(w)
  BY <1>1, <1>2, <1>4, <1>6, <1>7, WorkflowAssumption DEF NodeInv
<1> QED
  BY <1>8 DEF w

\* A report on a live attempt, which coherence makes the last one.
LEMMA ReportedInv ==
    ASSUME NEW v, NodeInv(v), NEW k \in 1..Len(v.attempts), v.attempts[k] \in LiveAttempt,
           NEW outcome \in AttemptState \ {"running"}
    PROVE  k = Len(v.attempts) /\ NodeInv(Reported(v, k, outcome))
<1> DEFINE w == Reported(v, k, outcome)
           s == IF outcome = "fatal" THEN "failed" ELSE outcome
           h == [v.attempts EXCEPT ![k] = outcome]
<1>1. v \in WorkflowNode /\ v.attempts \in Seq(AttemptState) /\ v.maxAttempts \in Nat
  BY NodeFields DEF NodeInv
<1>2. s \in NodeStatus
  BY DEF AttemptState, LiveAttempt, TerminalAttempt, NodeStatus
<1>3. /\ h \in Seq(AttemptState)
      /\ Len(h) = Len(v.attempts)
      /\ h[k] = outcome
      /\ \A i \in 1..Len(v.attempts) : i # k => h[i] = v.attempts[i]
  BY <1>1, ExceptSeq
<1>4. w = [v EXCEPT !.status = s, !.attempts = h]
  BY DEF Reported
<1> HIDE DEF w, s, h
<1>5. /\ w \in WorkflowNode
      /\ w.status = s
      /\ w.attempts = h
      /\ w.maxAttempts = v.maxAttempts
  BY <1>1, <1>2, <1>3, <1>4 DEF WorkflowNode
<1>6. k = Len(v.attempts)
  BY <1>1 DEF NodeInv, CoherentNode, LiveAttempt, TerminalAttempt
<1>7. CoherentNode(w)
  <2>1. LastAttempt(w) = outcome
    BY <1>1, <1>3, <1>5, <1>6 DEF LastAttempt
  <2>2. \A i \in 1..Len(w.attempts) : i < Len(w.attempts) => w.attempts[i] \in TerminalAttempt
    BY <1>1, <1>3, <1>5, <1>6 DEF NodeInv, CoherentNode
  <2> QED
    BY <1>3, <1>5, <1>6, <2>1, <2>2
       DEF s, CoherentNode, AttemptState, LiveAttempt, TerminalAttempt
<1>8. NodeInv(w)
  BY <1>1, <1>3, <1>5, <1>6, <1>7 DEF NodeInv, Ceiling
<1> QED
  BY <1>6, <1>8 DEF w

\* A node whose attempts stay: readiness, cancellation without an attempt,
\* acceptance and rejection only flip the status.
LEMMA FlippedInv ==
    ASSUME NEW v, NodeInv(v), NEW s \in NodeStatus,
           \/ v.status \in {"pending", "ready"} /\ s \in {"pending", "ready"}
           \/ v.status \in {"pending", "ready", "failed", "cancelled"} /\ s = "cancelled"
           \/ v.status = "completed" /\ s = "accepted"
           \/ v.status \notin LiveAttempt /\ s = "rejected"
    PROVE  NodeInv([v EXCEPT !.status = s])
<1> DEFINE w == [v EXCEPT !.status = s]
<1>1. /\ v \in WorkflowNode
      /\ w \in WorkflowNode
      /\ w.status = s
      /\ w.attempts = v.attempts
      /\ w.maxAttempts = v.maxAttempts
      /\ LastAttempt(w) = LastAttempt(v)
  BY DEF NodeInv, WorkflowNode, LastAttempt
<1>2. LastAttempt(v) \in LiveAttempt => v.status \in LiveAttempt
  BY DEF NodeInv, CoherentNode
<1>3. CoherentNode(w)
  BY <1>1, <1>2, LastAttemptType DEF NodeInv, CoherentNode, LiveAttempt
<1> QED
  BY <1>1, <1>3 DEF NodeInv, Ceiling

\* A node that is not live may be superseded.
LEMMA SupersededInv ==
    ASSUME NEW v, NodeInv(v), v.status \notin LiveAttempt, NEW by \in Node
    PROVE  NodeInv(SupersededBy(v, by))
<1> DEFINE w == SupersededBy(v, by)
<1>1. /\ w \in WorkflowNode
      /\ w.status = "superseded"
      /\ w.attempts = v.attempts
      /\ w.maxAttempts = v.maxAttempts
      /\ LastAttempt(w) = LastAttempt(v)
  BY DEF NodeInv, WorkflowNode, LastAttempt, SupersededBy, NodeStatus
<1>2. CoherentNode(w)
  BY <1>1 DEF NodeInv, CoherentNode, LiveAttempt
<1> QED
  BY <1>1, <1>2 DEF NodeInv, Ceiling

\* A reopened node gets a ceiling above its history.
LEMMA ReopenedInv ==
    ASSUME NEW v, NodeInv(v), NEW additional \in Nat
    PROVE  NodeInv([v EXCEPT !.maxAttempts = Len(v.attempts) + additional])
<1> DEFINE w == [v EXCEPT !.maxAttempts = Len(v.attempts) + additional]
<1>0. v \in WorkflowNode /\ Len(v.attempts) \in Nat
  BY NodeFields DEF NodeInv
<1>1. /\ w \in WorkflowNode
      /\ w.status = v.status
      /\ w.attempts = v.attempts
      /\ w.maxAttempts = Len(v.attempts) + additional
      /\ LastAttempt(w) = LastAttempt(v)
  BY <1>0 DEF WorkflowNode, LastAttempt
<1>2. CoherentNode(w)
  BY <1>1 DEF NodeInv, CoherentNode
<1> QED
  BY <1>0, <1>1, <1>2, ReducerAssumption DEF NodeInv, Ceiling

\* A newly planned node has no history.
LEMMA PlannedInv ==
    ASSUME NEW unit \in WorkUnit
    PROVE  NodeInv([status |-> "pending", attempts |-> <<>>, maxAttempts |-> 0,
                    dependsOn |-> unit.dependsOn, replaces |-> unit.replaces,
                    kind |-> unit.kind, supersededBy |-> NoNode])
<1> DEFINE w == [status |-> "pending", attempts |-> <<>>, maxAttempts |-> 0,
                 dependsOn |-> unit.dependsOn, replaces |-> unit.replaces,
                 kind |-> unit.kind, supersededBy |-> NoNode]
<1>1. w \in WorkflowNode
  BY DEF WorkflowNode, WorkUnit, NodeStatus
<1>2. CoherentNode(w)
  BY DEF CoherentNode, LastAttempt, LiveAttempt
<1> QED
  BY <1>1, <1>2, ReducerAssumption, WorkflowAssumption DEF NodeInv, Ceiling

-----------------------------------------------------------------------------
(***************************************************************************)
(* Runs.                                                                   *)
(***************************************************************************)

\* The fields of a run have their types.
LEMMA RunFields ==
    ASSUME NEW r \in WorkflowRun
    PROVE  /\ r.status \in RunStatus
           /\ r.nodes \in [Node -> WorkflowNode]
           /\ r.repair \in SUBSET Node
  BY DEF WorkflowRun

\* A run with other nodes, each in its invariant.
LEMMA NodesMade ==
    ASSUME NEW r, RunInv(r), NEW nodes, nodes = [n \in Node |-> nodes[n]],
           \A n \in Node : NodeInv(nodes[n]), NEW repair \in SUBSET Node
    PROVE  /\ RunInv([r EXCEPT !.nodes = nodes])
           /\ RunInv([r EXCEPT !.nodes = nodes, !.repair = repair])
<1>1. nodes \in [Node -> WorkflowNode]
  BY DEF NodeInv
<1> HIDE DEF NodeInv
<1> QED
  BY <1>1, RunFields DEF RunInv, WorkflowRun

\* A run with one other node.
LEMMA NodeMade ==
    ASSUME NEW r, RunInv(r), NEW n \in Node, NEW v, NodeInv(v)
    PROVE  RunInv([r EXCEPT !.nodes[n] = v])
<1>1. v \in WorkflowNode /\ r.nodes \in [Node -> WorkflowNode] /\ r \in WorkflowRun
  BY RunFields DEF NodeInv, RunInv
<1> DEFINE nodes == [r.nodes EXCEPT ![n] = v]
<1>2. nodes = [m \in Node |-> IF m = n THEN v ELSE r.nodes[m]]
  BY <1>1
<1>3. \A m \in Node : NodeInv(nodes[m])
  BY <1>2 DEF RunInv
<1>4. [r EXCEPT !.nodes[n] = v] = [r EXCEPT !.nodes = nodes]
  BY <1>1 DEF WorkflowRun
<1> HIDE DEF nodes
<1> QED
  BY <1>2, <1>3, <1>4, NodesMade, Zenon

\* A run in another state.
LEMMA StatusChangedInv ==
    ASSUME NEW r, RunInv(r), NEW s \in RunStatus
    PROVE  RunInv(StatusChanged(r, s)) /\ StatusChanged(r, s).nodes = r.nodes
  BY RunFields DEF RunInv, StatusChanged, WorkflowRun

\* Readiness is a matter of pending and ready nodes only.
LEMMA RefreshInv ==
    ASSUME NEW r, RunInv(r)
    PROVE  RunInv(refreshReadiness(r))
<1> DEFINE nodes == [n \in Node |->
        IF r.nodes[n].status \in {"pending", "ready"}
        THEN [r.nodes[n] EXCEPT !.status =
                IF DependenciesAccepted(r, n) THEN "ready" ELSE "pending"]
        ELSE r.nodes[n]]
<1>1. \A n \in Node : NodeInv(nodes[n])
  <2> TAKE n \in Node
  <2>1. NodeInv(r.nodes[n])
    BY DEF RunInv
  <2>2. CASE r.nodes[n].status \in {"pending", "ready"}
    <3> DEFINE s == IF DependenciesAccepted(r, n) THEN "ready" ELSE "pending"
    <3>1. s \in NodeStatus /\ s \in {"pending", "ready"}
      BY DEF NodeStatus
    <3> HIDE DEF s
    <3>2. NodeInv([r.nodes[n] EXCEPT !.status = s])
      BY <2>1, <2>2, <3>1, FlippedInv
    <3> QED
      BY <2>2, <3>2 DEF s
  <2> QED
    BY <2>1, <2>2
<1> QED
  BY <1>1, NodesMade DEF refreshReadiness

\* A set of nodes that may start.
LEMMA NodesStartedInv ==
    ASSUME NEW r, RunInv(r), NEW starting \in SUBSET Node,
           \A n \in starting : MayStart(r, n)
    PROVE  RunInv(NodesStarted(r, starting))
<1> DEFINE nodes == [n \in Node |-> IF n \in starting THEN Started(r.nodes[n])
                                                     ELSE r.nodes[n]]
<1>1. \A n \in Node : NodeInv(nodes[n])
  BY StartedInv DEF RunInv, MayStart, NodeStartTakes
<1> QED
  BY <1>1, NodesMade DEF NodesStarted

\* A report the reducer takes.
LEMMA NodeReportedInv ==
    ASSUME NEW r, RunInv(r), NEW n \in Node, NEW k, ReportTakes(r, n, k),
           NEW outcome \in AttemptState \ {"running"}
    PROVE  RunInv(NodeReported(r, n, k, outcome))
<1>1. NodeInv(r.nodes[n])
  BY DEF RunInv
<1>2. NodeInv(Reported(r.nodes[n], k, outcome))
  BY <1>1, ReportedInv DEF ReportTakes
<1>3. NodeReported(r, n, k, outcome) = [r EXCEPT !.nodes[n] = Reported(r.nodes[n], k, outcome)]
  BY DEF NodeReported
<1> QED
  BY <1>2, <1>3, NodeMade

\* Recovery reports on the last attempts of nodes whose last attempt is live.
LEMMA SettledInv ==
    ASSUME NEW r, RunInv(r), NEW outcomes,
           \A n \in Node : outcomes[n] # "none" =>
               /\ outcomes[n] \in AttemptState \ {"running"}
               /\ LastAttempt(r.nodes[n]) \in LiveAttempt
    PROVE  RunInv(Settled(r, outcomes))
<1> DEFINE nodes == [n \in Node |->
        IF outcomes[n] = "none" THEN r.nodes[n]
        ELSE Reported(r.nodes[n], Len(r.nodes[n].attempts), outcomes[n])]
<1>1. \A n \in Node : NodeInv(nodes[n])
  <2> TAKE n \in Node
  <2>1. NodeInv(r.nodes[n]) /\ r.nodes[n] \in WorkflowNode
    BY DEF RunInv, NodeInv
  <2>2. CASE outcomes[n] # "none"
    <3> DEFINE k == Len(r.nodes[n].attempts)
    <3>1. k \in 1..Len(r.nodes[n].attempts) /\ r.nodes[n].attempts[k] \in LiveAttempt
      BY <2>1, <2>2, LastAttemptType DEF LiveAttempt
    <3> QED
      BY <2>1, <2>2, <3>1, ReportedInv
  <2> QED
    BY <2>1, <2>2
<1> QED
  BY <1>1, NodesMade DEF Settled

\* A plan of the menu.
LEMMA PlanAppliedInv ==
    ASSUME NEW r, RunInv(r), NEW p \in Plans
    PROVE  RunInv(PlanApplied(r, p))
<1>1. PICK D \in SUBSET Node : p \in [D -> WorkUnit]
  BY WorkflowAssumption
<1> DEFINE nodes == Replanned(r, p)
           repair == IF r.status = "stopped" \/ r.repair # {}
                     THEN r.repair \cup DOMAIN p ELSE r.repair
<1>2. nodes = [n \in Node |-> nodes[n]]
  BY DEF Replanned
<1>3. \A n \in Node : NodeInv(nodes[n])
  BY <1>1, PlannedInv DEF Replanned, RunInv
<1>4. repair \in SUBSET Node
  BY <1>1, RunFields DEF RunInv
<1>5. PlanApplied(r, p) = refreshReadiness([r EXCEPT !.nodes = nodes, !.repair = repair])
  BY DEF PlanApplied
<1> HIDE DEF nodes, repair
<1>6. RunInv([r EXCEPT !.nodes = nodes, !.repair = repair])
  BY <1>2, <1>3, <1>4, NodesMade, Zenon
<1> QED
  BY <1>5, <1>6, RefreshInv

\* accept, with the retirement of the node it was planned to replace.
LEMMA NodeAcceptedInv ==
    ASSUME NEW r, RunInv(r), NEW n \in Node, NodeAcceptTakes(r, n)
    PROVE  RunInv(NodeAccepted(r, n))
<1> DEFINE t == r.nodes[n].replaces
           retired == {m \in {t} \cap Planned(r) :
                           r.nodes[m].status \notin {"accepted", "superseded"}}
           nodes == [m \in Node |->
             CASE m = n         -> [r.nodes[m] EXCEPT !.status = "accepted"]
               [] m # n /\ m \in retired -> SupersededBy(r.nodes[m], n)
               [] OTHER         -> r.nodes[m]]
<1>1. \A m \in Node : NodeInv(nodes[m])
  <2> TAKE m \in Node
  <2>1. NodeInv(r.nodes[m])
    BY DEF RunInv
  <2>2. CASE m = n
    BY <2>1, <2>2, FlippedInv DEF NodeAcceptTakes, NodeStatus
  <2>3. CASE m # n /\ m \in retired
    <3>1. m = t /\ t # NoNode /\ r.nodes[m].status \notin LiveAttempt
      BY <2>3, ReducerAssumption DEF NodeAcceptTakes
    <3> QED
      BY <2>1, <2>3, <3>1, SupersededInv
  <2> QED
    BY <2>1, <2>2, <2>3
<1>2. NodeAccepted(r, n) = refreshReadiness([r EXCEPT !.nodes = nodes])
  BY DEF NodeAccepted
<1>3. nodes = [m \in Node |-> nodes[m]]
  OBVIOUS
<1> HIDE DEF nodes
<1>4. {} \in SUBSET Node
  OBVIOUS
<1>5. RunInv([r EXCEPT !.nodes = nodes])
  BY <1>1, <1>3, <1>4, NodesMade, Zenon
<1> QED
  BY <1>2, <1>5, RefreshInv

\* The other decisions of the Supervisor.
LEMMA NodeSupersededInv ==
    ASSUME NEW r, RunInv(r), NEW n \in Node, NEW by \in Node, NodeSupersedeTakes(r, n, by)
    PROVE  RunInv(NodeSuperseded(r, n, by))
<1>1. NodeInv(SupersededBy(r.nodes[n], by))
  BY SupersededInv DEF RunInv, NodeSupersedeTakes
<1>2. RunInv([r EXCEPT !.nodes[n] = SupersededBy(r.nodes[n], by)])
  BY <1>1, NodeMade
<1> QED
  BY <1>2, RefreshInv DEF NodeSuperseded

\* reopen of a node.
LEMMA NodeReopenedInv ==
    ASSUME NEW r, RunInv(r), NEW n \in Node, NEW additional \in Nat
    PROVE  RunInv(NodeReopened(r, n, additional))
<1>1. NodeInv(r.nodes[n])
  BY DEF RunInv
<1>2. NodeInv([r.nodes[n] EXCEPT !.maxAttempts = Len(r.nodes[n].attempts) + additional])
  BY <1>1, ReopenedInv
<1> QED
  BY <1>2, NodeMade DEF NodeReopened

\* reject of a node.
LEMMA NodeRejectedInv ==
    ASSUME NEW r, RunInv(r), NEW n \in Node, NodeRejectTakes(r, n)
    PROVE  RunInv(NodeRejected(r, n))
<1>1. NodeInv([r.nodes[n] EXCEPT !.status = "rejected"])
  BY FlippedInv DEF RunInv, NodeRejectTakes, NodeStatus
<1> QED
  BY <1>1, NodeMade DEF NodeRejected

\* cancel of a node that is not under way.
LEMMA NodeCancelledInv ==
    ASSUME NEW r, RunInv(r), NEW n \in Node,
           r.nodes[n].status \in {"pending", "ready", "failed", "cancelled"}
    PROVE  RunInv(NodeCancelled(r, n))
<1>1. NodeInv([r.nodes[n] EXCEPT !.status = "cancelled"])
  BY FlippedInv DEF RunInv, NodeStatus
<1> QED
  BY <1>1, NodeMade DEF NodeCancelled

-----------------------------------------------------------------------------
(***************************************************************************)
(* Recovery, from children of their type.                                  *)
(***************************************************************************)
Children == [Node -> [1..AttemptCap -> Child]]

\* The child a node waits for is a child.
LEMMA LastChildType ==
    ASSUME NEW r, RunInv(r), NEW c \in Children, NEW n \in Node
    PROVE  LastChild(c, n, r.nodes[n]).outcome \in {"none", "completed", "failed", "fatal"}
<1> DEFINE v == r.nodes[n]
<1>1. NodeInv(v) /\ v.attempts \in Seq(AttemptState)
  BY NodeFields DEF RunInv, NodeInv
<1>2. CASE v.attempts = <<>>
  BY <1>2 DEF LastChild, NoChild
<1>3. CASE v.attempts # <<>>
  <2>1. Len(v.attempts) \in 1..AttemptCap
    BY <1>1, <1>3, WorkflowAssumption DEF NodeInv
  <2>2. c[n][Len(v.attempts)] \in Child
    BY <2>1 DEF Children
  <2> QED
    BY <1>3, <2>2, WorkflowAssumption DEF LastChild, Child
<1> QED
  BY <1>2, <1>3

\* Recovery settles live last attempts, and settles them with an outcome.
LEMMA RecoveryOutcomeType ==
    ASSUME NEW r, RunInv(r), NEW c \in Children, NEW n \in Node
    PROVE  /\ RecoveryOutcome(r, c, n) # "none" =>
                 /\ RecoveryOutcome(r, c, n) \in AttemptState \ {"running"}
                 /\ LastAttempt(r.nodes[n]) \in LiveAttempt
           /\ ForegroundOutcome(r.nodes[n], LastChild(c, n, r.nodes[n])) # "none" =>
                 /\ ForegroundOutcome(r.nodes[n], LastChild(c, n, r.nodes[n]))
                        \in AttemptState \ {"running"}
                 /\ LastAttempt(r.nodes[n]) \in LiveAttempt
<1> DEFINE v == r.nodes[n]
           mine == LastChild(c, n, v)
<1>1. mine.outcome \in {"none", "completed", "failed", "fatal"}
  BY LastChildType
<1> HIDE DEF mine, v
<1>2. OrphanOutcome(r, v) # "none" =>
        OrphanOutcome(r, v) = "failed" /\ LastAttempt(v) \in LiveAttempt
  BY DEF OrphanOutcome, LiveAttempt
<1>3. WaitingOutcome(r, v, mine) # "none" =>
        WaitingOutcome(r, v, mine) \in {"completed", "failed"} /\ LastAttempt(v) \in LiveAttempt
  BY DEF WaitingOutcome, WrittenOutcome, IsWaiting, LiveAttempt
<1>4. ForegroundOutcome(v, mine) # "none" =>
        /\ ForegroundOutcome(v, mine) \in {"completed", "failed", "fatal"}
        /\ LastAttempt(v) \in LiveAttempt
  <2>1. ForegroundOutcome(v, mine) # "none" =>
          ForegroundOutcome(v, mine) = mine.outcome /\ LastAttempt(v) = "waiting"
    BY DEF ForegroundOutcome, IsWaiting
  <2> QED
    BY <1>1, <2>1 DEF LiveAttempt
<1>5. /\ ForegroundOutcome(v, mine) # "none" =>
            /\ ForegroundOutcome(v, mine) \in AttemptState \ {"running"}
            /\ LastAttempt(v) \in LiveAttempt
      /\ OrphanOutcome(r, v) # "none" =>
            OrphanOutcome(r, v) \in AttemptState \ {"running"} /\ LastAttempt(v) \in LiveAttempt
      /\ WaitingOutcome(r, v, mine) # "none" =>
            WaitingOutcome(r, v, mine) \in AttemptState \ {"running"}
            /\ LastAttempt(v) \in LiveAttempt
  BY <1>2, <1>3, <1>4 DEF AttemptState, TerminalAttempt
<1>6. RecoveryOutcome(r, c, n) \in
        {OrphanOutcome(r, v), WaitingOutcome(r, v, mine), ForegroundOutcome(v, mine)}
  BY DEF RecoveryOutcome, v, mine
<1> QED
  BY <1>5, <1>6 DEF v, mine

\* Recovery and reconciliation keep the invariant of the run.
LEMMA RecoveredInv ==
    ASSUME NEW r, RunInv(r), NEW c \in Children
    PROVE  RunInv(Recovered(r, c)) /\ RunInv(Reconciled(r, c))
  BY RecoveryOutcomeType, SettledInv DEF Recovered, Reconciled

-----------------------------------------------------------------------------
(***************************************************************************)
(* Schedulers.                                                             *)
(***************************************************************************)

\* Starting the first nodes of a batch.
LEMMA LaunchInv ==
    ASSUME TypeOK, NEW r, RunInv(r), NEW s \in Sched, NEW batch \in SUBSET Node,
           Launch(r, s, batch)
    PROVE  RunInv(run') /\ sched' \in [Sched -> Scheduler]
<1>1. PICK starting \in SUBSET batch, requested \in 1..Concurrency :
        /\ \A n \in starting : MayStart(r, n)
        /\ run' = NodesStarted(r, starting)
        /\ sched' = [sched EXCEPT ![s] =
             [awaited |-> TRUE, aborted |-> FALSE, queue |-> batch \ starting,
              flights |-> [n \in Node |-> IF n \in starting
                                          THEN Len(r.nodes[n].attempts) + 1 ELSE 0],
              nodeAborted |-> {}]]
  BY DEF Launch
<1>2. starting \in SUBSET Node
  BY <1>1
<1>3. RunInv(run')
  BY <1>1, <1>2, NodesStartedInv
<1>4. \A n \in Node : Len(r.nodes[n].attempts) \in Nat
  BY NodeFields DEF RunInv, NodeInv
<1> DEFINE flights == [n \in Node |-> IF n \in starting
                                      THEN Len(r.nodes[n].attempts) + 1 ELSE 0]
<1>5. flights \in [Node -> Nat]
  BY <1>4
<1> HIDE DEF flights
<1>6. [awaited |-> TRUE, aborted |-> FALSE, queue |-> batch \ starting,
       flights |-> flights, nodeAborted |-> {}] \in Scheduler
  BY <1>5 DEF Scheduler
<1> QED
  BY <1>1, <1>3, <1>6 DEF TypeOK, flights

\* run_ready on the ready nodes.
LEMMA RunReadyFromInv ==
    ASSUME TypeOK, NEW r, RunInv(r), RunReadyFrom(r)
    PROVE  RunInv(run') /\ sched' \in [Sched -> Scheduler]
<1>1. PICK s \in Sched : Launch(r, s, ReadyBatch(r))
  BY DEF RunReadyFrom
<1>2. ReadyBatch(r) \in SUBSET Node
  BY DEF ReadyBatch, ReadyNodes
<1> QED
  BY <1>1, <1>2, LaunchInv

\* A worker that goes on or returns.
LEMMA NextLaunchInv ==
    ASSUME TypeOK, NEW r, RunInv(r), NEW s \in Sched, NEW landed \in Node,
           NextLaunch(r, s, landed)
    PROVE  RunInv(run') /\ sched' \in [Sched -> Scheduler]
<1> DEFINE rest == [sched[s] EXCEPT !.flights[landed] = 0, !.nodeAborted = @ \ {landed}]
           goesOn == WorkerGoesOn(r, sched[s].aborted)
           runnable == sched[s].queue \cap ReadyNodes(r)
<1>1. sched[s] \in Scheduler /\ sched \in [Sched -> Scheduler]
  BY DEF TypeOK
<1>2. rest \in Scheduler
  BY <1>1 DEF Scheduler
<1> HIDE DEF rest
<1>3. CASE run' = r /\ sched' = [sched EXCEPT ![s] = rest]
  BY <1>1, <1>2, <1>3
<1>4. CASE run' = r /\ sched' = [sched EXCEPT ![s] = [rest EXCEPT !.queue = {}]]
  <2>1. [rest EXCEPT !.queue = {}] \in Scheduler
    BY <1>2 DEF Scheduler
  <2> QED
    BY <1>1, <1>4, <2>1
<1>5. CASE \E n \in runnable, passed \in SUBSET (sched[s].queue \ runnable) :
                /\ MayStart(r, n)
                /\ run' = NodesStarted(r, {n})
                /\ sched' = [sched EXCEPT ![s] =
                     [rest EXCEPT !.queue = @ \ ({n} \cup passed),
                                  !.flights[n] = Len(r.nodes[n].attempts) + 1]]
  <2>1. PICK n \in runnable, passed \in SUBSET (sched[s].queue \ runnable) :
                /\ MayStart(r, n)
                /\ run' = NodesStarted(r, {n})
                /\ sched' = [sched EXCEPT ![s] =
                     [rest EXCEPT !.queue = @ \ ({n} \cup passed),
                                  !.flights[n] = Len(r.nodes[n].attempts) + 1]]
    BY <1>5
  <2>2. n \in Node /\ Len(r.nodes[n].attempts) + 1 \in Nat
    BY NodeFields DEF ReadyNodes, RunInv, NodeInv
  <2>3. RunInv(run')
    BY <2>1, <2>2, NodesStartedInv
  <2>4. [rest EXCEPT !.queue = @ \ ({n} \cup passed),
                     !.flights[n] = Len(r.nodes[n].attempts) + 1] \in Scheduler
    BY <1>2, <2>2 DEF Scheduler
  <2> QED
    BY <1>1, <2>1, <2>3, <2>4
<1> QED
  BY <1>3, <1>4, <1>5 DEF NextLaunch, rest

\* Every tool call starts from a run that is in its invariant.
LEMMA ResolvedInv ==
    ASSUME IInv
    PROVE  RunInv(Resolved)
  BY RecoveredInv DEF IInv, TypeOK, Resolved, Children

\* A waiting node that a call or a stop cancels.
LEMMA WaitingCancelledInv ==
    ASSUME NEW r, RunInv(r)
    PROVE  /\ RunInv(WaitingCancelled(r))
           /\ \A n \in Node : r.nodes[n].status = "waiting" =>
                RunInv(NodeReported(r, n, Len(r.nodes[n].attempts), "cancelled"))
<1>1. \A n \in Node : /\ NodeInv(r.nodes[n]) /\ r.nodes[n] \in WorkflowNode
                      /\ r.nodes[n].status = "waiting" => LastAttempt(r.nodes[n]) = "waiting"
  BY DEF RunInv, NodeInv, CoherentNode, LiveAttempt
<1>2. "cancelled" \in AttemptState \ {"running"} /\ "waiting" \in LiveAttempt
  BY DEF AttemptState, TerminalAttempt, LiveAttempt
<1>3. RunInv(WaitingCancelled(r))
  BY <1>1, <1>2, SettledInv DEF WaitingCancelled
<1>4. ASSUME NEW n \in Node, r.nodes[n].status = "waiting"
      PROVE  RunInv(NodeReported(r, n, Len(r.nodes[n].attempts), "cancelled"))
  <2>1. r.nodes[n].attempts # <<>>
    BY <1>1, <1>4, LastAttemptType
  <2>2. ReportTakes(r, n, Len(r.nodes[n].attempts))
    BY <1>1, <1>2, <1>4, <2>1, LastAttemptType DEF ReportTakes
  <2> QED
    BY <1>2, <2>2, NodeReportedInv
<1> QED
  BY <1>3, <1>4

\* What a worker records of an answer.
LEMMA AfterAnswerInv ==
    ASSUME NEW r, RunInv(r), NEW n \in Node, NEW k, ReportTakes(r, n, k),
           NEW answer \in Answers, NEW aborted
    PROVE  RunInv(AfterAnswer(r, n, k, answer, aborted))
<1> DEFINE outcome == AttemptOutcome(answer, aborted)
           next == NodeReported(r, n, k, outcome)
<1>1. outcome \in AttemptState \ {"running"}
  BY WorkflowAssumption DEF AttemptOutcome, AttemptState, LiveAttempt, TerminalAttempt
<1> HIDE DEF outcome
<1>2. RunInv(next)
  BY <1>1, NodeReportedInv
<1>3. RunInv(StatusChanged(next, "paused"))
  BY <1>2, StatusChangedInv DEF RunStatus
<1> QED
  BY <1>2, <1>3 DEF AfterAnswer, outcome

-----------------------------------------------------------------------------
(***************************************************************************)
(* The steps.                                                              *)
(***************************************************************************)
StateInv(r, sc, c, u, g) ==
    /\ RunInv(r)
    /\ sc \in [Sched -> Scheduler]
    /\ c \in Children
    /\ u \in BOOLEAN
    /\ g \in Nat

\* The parts of the inductive invariant, in one list.
LEMMA IInvParts ==
    IInv <=> StateInv(run, sched, child, up, gateFailures) /\ binding \in BOOLEAN
  BY DEF IInv, TypeOK, StateInv, Children, RunInv

StateInvNext == StateInv(run', sched', child', up', gateFailures')

\* The answers of children, and what the workers do with them.
LEMMA LandInv ==
    ASSUME IInv, NEW s \in Sched, NEW n \in Node, NEW answer \in Answers, Land(s, n, answer)
    PROVE  StateInvNext
<1> DEFINE k == sched[s].flights[n]
           aborted == sched[s].aborted \/ n \in sched[s].nodeAborted
           after == AfterAnswer(run, n, k, answer, aborted)
<1>1. StateInv(run, sched, child, up, gateFailures)
  BY IInvParts
<1>2. ReportTakes(run, n, k) /\ NextLaunch(after, s, n) /\ UNCHANGED <<up, gateFailures>>
  BY DEF Land
<1>3. RunInv(after)
  BY <1>1, <1>2, AfterAnswerInv DEF StateInv
<1>4. RunInv(run') /\ sched' \in [Sched -> Scheduler]
  BY <1>2, <1>3, NextLaunchInv DEF IInv
<1>5. child' \in Children
  <2>1. CASE answer = "detached"
    <3>1. PICK m \in BOOLEAN :
            child' = [child EXCEPT ![n][k] = [NoChild EXCEPT !.detached = TRUE, !.metadata = m]]
      BY <2>1 DEF Land
    <3>2. [NoChild EXCEPT !.detached = TRUE, !.metadata = m] \in Child
      BY DEF NoChild, Child
    <3> QED
      BY <1>1, <3>1, <3>2 DEF StateInv, Children
  <2> QED
    BY <1>1, <2>1 DEF Land, StateInv
<1> QED
  BY <1>1, <1>2, <1>4, <1>5 DEF StateInv, StateInvNext

\* The other steps of a scheduler.
LEMMA SchedulerStepInv ==
    ASSUME IInv,
           \/ \E s \in Sched : RunReadyReturns(s) \/ CallerAborts(s)
           \/ \E s \in Sched, n \in Node : WorkerThrows(s, n) \/ CancelRunning(s, n)
    PROVE  StateInvNext
<1>1. StateInv(run, sched, child, up, gateFailures) /\ RunInv(Resolved)
  BY IInvParts, ResolvedInv
<1>2. IdleScheduler \in Scheduler
  BY DEF IdleScheduler, Scheduler
<1>3. ASSUME NEW s \in Sched, RunReadyReturns(s)
      PROVE  StateInvNext
  BY <1>1, <1>2, <1>3, RecoveredInv DEF RunReadyReturns, StateInv, StateInvNext
<1>4. ASSUME NEW s \in Sched, CallerAborts(s)
      PROVE  StateInvNext
  <2>1. [sched[s] EXCEPT !.aborted = TRUE] \in Scheduler
    BY <1>1 DEF StateInv, Scheduler
  <2>2. sched' \in [Sched -> Scheduler]
    BY <1>1, <1>4, <2>1 DEF CallerAborts, StateInv
  <2> QED
    BY <1>1, <1>4, <2>2 DEF CallerAborts, StateInv, StateInvNext
<1>5. ASSUME NEW s \in Sched, NEW n \in Node, WorkerThrows(s, n)
      PROVE  StateInvNext
  <2>1. [[sched[s] EXCEPT !.flights[n] = 0] EXCEPT !.awaited = FALSE] \in Scheduler
    BY <1>1 DEF StateInv, Scheduler
  <2>2. sched' = [sched EXCEPT ![s] = [[sched[s] EXCEPT !.flights[n] = 0] EXCEPT !.awaited = FALSE]]
    BY <1>1, <1>5 DEF WorkerThrows, StateInv
  <2>3. sched' \in [Sched -> Scheduler]
    BY <1>1, <2>1, <2>2 DEF StateInv
  <2> QED
    BY <1>1, <1>5, <2>3 DEF WorkerThrows, StateInv, StateInvNext
<1>6. ASSUME NEW s \in Sched, NEW n \in Node, CancelRunning(s, n)
      PROVE  StateInvNext
  <2>1. [sched[s] EXCEPT !.nodeAborted = @ \cup {n}] \in Scheduler
    BY <1>1 DEF StateInv, Scheduler
  <2>2. sched' \in [Sched -> Scheduler]
    BY <1>1, <1>6, <2>1 DEF CancelRunning, StateInv
  <2> QED
    BY <1>1, <1>6, <2>2 DEF CancelRunning, StateInv, StateInvNext
<1> QED
  BY <1>3, <1>4, <1>5, <1>6

\* The tool calls that start schedulers.
LEMMA StartingStepInv ==
    ASSUME IInv, RunReady \/ (\E n \in Node : RetryNode(n)) \/ Resume \/ SessionStart
    PROVE  StateInvNext
<1>1. StateInv(run, sched, child, up, gateFailures) /\ RunInv(Resolved) /\ TypeOK
  BY IInvParts, ResolvedInv DEF IInv
<1>2. CASE RunReady
  BY <1>1, <1>2, RunReadyFromInv DEF RunReady, StateInv, StateInvNext
<1>3. ASSUME NEW n \in Node, RetryNode(n)
      PROVE  StateInvNext
  <2>1. PICK s \in Sched : Launch(Resolved, s, {n})
    BY <1>3 DEF RetryNode
  <2>2. RunInv(run') /\ sched' \in [Sched -> Scheduler]
    BY <1>1, <2>1, LaunchInv
  <2> QED
    BY <1>1, <1>3, <2>2 DEF RetryNode, StateInv, StateInvNext
<1>4. CASE Resume
  <2> DEFINE r == Recovered(StatusChanged(Resolved, "active"), child)
  <2>1. RunInv(StatusChanged(Resolved, "active"))
    BY <1>1, StatusChangedInv DEF RunStatus
  <2>2. RunInv(r)
    BY <1>1, <2>1, RecoveredInv DEF StateInv
  <2>3. RunInv(run') /\ sched' \in [Sched -> Scheduler]
    <3> HIDE DEF r
    <3>1. \/ RunReadyFrom(r)
          \/ run' \in {StatusChanged(Resolved, "active"), r} /\ UNCHANGED sched
      BY <1>4 DEF Resume, r
    <3> QED
      BY <1>1, <2>1, <2>2, <3>1, RunReadyFromInv DEF StateInv
  <2>4. gateFailures' \in Nat /\ UNCHANGED <<child, up>>
    BY <1>1, <1>4 DEF Resume, StateInv
  <2> QED
    BY <1>1, <2>3, <2>4 DEF StateInv, StateInvNext
<1>5. CASE SessionStart
  <2>1. RunInv(run') /\ sched' \in [Sched -> Scheduler]
    <3>1. \/ RunReadyFrom(Resolved)
          \/ run' \in {Resolved, run} /\ UNCHANGED sched
      BY <1>5 DEF SessionStart
    <3> QED
      BY <1>1, <3>1, RunReadyFromInv DEF StateInv
  <2> QED
    BY <1>1, <1>5, <2>1 DEF SessionStart, StateInv, StateInvNext
<1> QED
  BY <1>2, <1>3, <1>4, <1>5

\* The calls of the Supervisor that start nothing.
Decision ==
    \/ \E p \in Plans : ApplyPlan(p)
    \/ ReadRun
    \/ \E n \in Node : CancelWaiting(n) \/ CancelIdle(n) \/ Accept(n) \/ Reject(n)
    \/ \E n, by \in Node : Supersede(n, by)
    \/ \E n \in Node, additional \in ReopenBy : Reopen(n, additional)
    \/ Pause
    \/ Stop
    \/ Complete
    \/ QualityGateFails
    \/ \E n \in Node : UpdateNode(n)

\* The calls of the Supervisor that start nothing.
LEMMA DecisionInv ==
    ASSUME IInv, Decision
    PROVE  StateInvNext
<1> DEFINE r == Resolved
<1>1. StateInv(run, sched, child, up, gateFailures)
  BY IInvParts
<1>2. RunInv(r)
  BY ResolvedInv
<1> HIDE DEF r
<1>3. RunStatus = {"active", "paused", "stopped", "completed"}
  BY DEF RunStatus
<1>4. ASSUME NEW p \in Plans, ApplyPlan(p)
      PROVE  StateInvNext
  BY <1>1, <1>2, <1>4, PlanAppliedInv DEF ApplyPlan, StateInv, StateInvNext, r
<1>5. CASE ReadRun
  BY <1>1, <1>2, <1>5 DEF ReadRun, StateInv, StateInvNext, r
<1>6. ASSUME NEW n \in Node, CancelWaiting(n)
      PROVE  StateInvNext
  BY <1>1, <1>2, <1>6, WaitingCancelledInv DEF CancelWaiting, StateInv, StateInvNext, r
<1>7. ASSUME NEW n \in Node, CancelIdle(n)
      PROVE  StateInvNext
  BY <1>1, <1>2, <1>7, NodeCancelledInv DEF CancelIdle, StateInv, StateInvNext, r
<1>8. ASSUME NEW n \in Node, Accept(n)
      PROVE  StateInvNext
  BY <1>1, <1>2, <1>8, NodeAcceptedInv DEF Accept, StateInv, StateInvNext, r
<1>9. ASSUME NEW n \in Node, Reject(n)
      PROVE  StateInvNext
  BY <1>1, <1>2, <1>9, NodeRejectedInv DEF Reject, StateInv, StateInvNext, r
<1>10. ASSUME NEW n \in Node, NEW by \in Node, Supersede(n, by)
       PROVE  StateInvNext
  <2>1. RunInv(NodeSuperseded(r, n, by))
    BY <1>2, <1>10, NodeSupersededInv DEF Supersede, r
  <2>2. RunInv(Revived(NodeSuperseded(r, n, by), r.status = "stopped"))
    BY <1>3, <2>1, StatusChangedInv DEF Revived
  <2> QED
    BY <1>1, <1>10, <2>2 DEF Supersede, StateInv, StateInvNext, r
<1>11. ASSUME NEW n \in Node, NEW additional \in ReopenBy, Reopen(n, additional)
       PROVE  StateInvNext
  <2>1. RunInv(NodeReopened(r, n, additional))
    BY <1>2, WorkflowAssumption, NodeReopenedInv
  <2>2. RunInv(Revived(NodeReopened(r, n, additional), r.status = "stopped"))
    BY <1>3, <2>1, StatusChangedInv DEF Revived
  <2> QED
    BY <1>1, <1>11, <2>2 DEF Reopen, StateInv, StateInvNext, r
<1>12. CASE Pause
  BY <1>1, <1>2, <1>3, <1>12, StatusChangedInv DEF Pause, StateInv, StateInvNext, r
<1>13. CASE Stop
  <2>1. RunInv(StatusChanged(WaitingCancelled(r), "stopped"))
    BY <1>2, <1>3, WaitingCancelledInv, StatusChangedInv
  <2>2. \A s \in Sched : [sched[s] EXCEPT !.aborted = TRUE] \in Scheduler
    BY <1>1 DEF StateInv, Scheduler
  <2>3. sched' \in [Sched -> Scheduler]
    BY <1>1, <1>13, <2>2 DEF Stop, StateInv
  <2> QED
    BY <1>1, <1>13, <2>1, <2>3 DEF Stop, StateInv, StateInvNext, r
<1>14. CASE Complete
  BY <1>1, <1>2, <1>3, <1>14, StatusChangedInv DEF Complete, StateInv, StateInvNext, r
<1>15. CASE QualityGateFails
  <2>1. RunInv(AfterRefusal(r, gateFailures + 1))
    BY <1>2, <1>3, StatusChangedInv DEF AfterRefusal
  <2> QED
    BY <1>1, <1>15, <2>1 DEF QualityGateFails, StateInv, StateInvNext, r
<1>16. ASSUME NEW n \in Node, UpdateNode(n)
       PROVE  StateInvNext
  BY <1>1, <1>2, <1>16 DEF UpdateNode, StateInv, StateInvNext, r
<1> QED
  BY <1>4, <1>5, <1>6, <1>7, <1>8, <1>9, <1>10, <1>11, <1>12, <1>13, <1>14, <1>15, <1>16
     DEF Decision

\* Children, time and the process.
Surroundings ==
    \/ \E n \in Node, k \in 1..AttemptCap, outcome \in ChildOutcomes : ChildEnds(n, k, outcome)
    \/ \E n \in Node, k \in 1..AttemptCap : ChildTells(n, k)
    \/ \E n \in Node : DeadlinePasses(n)
    \/ Crash

\* What happens to a child leaves it a child.
LEMMA ChildChanged ==
    ASSUME NEW v \in Child
    PROVE  /\ \A outcome \in ChildOutcomes : [v EXCEPT !.outcome = outcome] \in Child
           /\ \A b \in BOOLEAN : [v EXCEPT !.told = b] \in Child
           /\ [v EXCEPT !.due = TRUE] \in Child
  BY DEF Child

\* One child of one attempt changes.
LEMMA ChildrenChanged ==
    ASSUME NEW c \in Children, NEW n \in Node, NEW k \in 1..AttemptCap, NEW v \in Child
    PROVE  [c EXCEPT ![n][k] = v] \in Children
  BY DEF Children

\* Children, time and crashes.
LEMMA SurroundingsInv ==
    ASSUME IInv, Surroundings
    PROVE  StateInvNext
<1>1. StateInv(run, sched, child, up, gateFailures) /\ child \in Children
  BY IInvParts DEF StateInv
<1>2. \A n \in Node, k \in 1..AttemptCap : child[n][k] \in Child
  BY <1>1 DEF Children
<1>3. ASSUME NEW n \in Node, NEW k \in 1..AttemptCap, NEW outcome \in ChildOutcomes,
             ChildEnds(n, k, outcome)
      PROVE  StateInvNext
  <2> DEFINE v == [child[n][k] EXCEPT !.outcome = outcome]
  <2>1. child' = [child EXCEPT ![n][k] = v]
    BY <1>3 DEF ChildEnds
  <2>2. v \in Child
    BY <1>2, ChildChanged
  <2> HIDE DEF v
  <2>3. child' \in Children
    BY <1>1, <2>1, <2>2, ChildrenChanged
  <2> QED
    BY <1>1, <1>3, <2>3 DEF ChildEnds, StateInv, StateInvNext
<1>4. ASSUME NEW n \in Node, NEW k \in 1..AttemptCap, ChildTells(n, k)
      PROVE  StateInvNext
  <2> DEFINE v == [child[n][k] EXCEPT !.told = TRUE]
  <2>1. child' = [child EXCEPT ![n][k] = v]
    BY <1>4 DEF ChildTells
  <2>2. v \in Child
    BY <1>2, ChildChanged
  <2> HIDE DEF v
  <2>3. child' \in Children
    BY <1>1, <2>1, <2>2, ChildrenChanged
  <2>4. RunInv(run')
    BY <1>1, <1>4, <2>3, RecoveredInv DEF ChildTells, StateInv
  <2> QED
    BY <1>1, <1>4, <2>3, <2>4 DEF ChildTells, StateInv, StateInvNext
<1>5. ASSUME NEW n \in Node, DeadlinePasses(n)
      PROVE  StateInvNext
  <2> DEFINE k == Len(run.nodes[n].attempts)
             v == [child[n][k] EXCEPT !.due = TRUE]
  <2>1. child' = [child EXCEPT ![n][k] = v]
    BY <1>5 DEF DeadlinePasses
  <2>2. NodeInv(run.nodes[n]) /\ run.nodes[n].status = "waiting"
    BY <1>1, <1>5 DEF StateInv, RunInv, DeadlinePasses
  <2>3. k \in 1..AttemptCap
    <3>1. run.nodes[n] \in WorkflowNode /\ run.nodes[n].attempts # <<>>
      BY <2>2, LastAttemptType DEF NodeInv, CoherentNode, LiveAttempt
    <3> QED
      BY <2>2, <3>1, LastAttemptType, WorkflowAssumption DEF NodeInv
  <2>4. v \in Child
    BY <1>2, <2>3, ChildChanged
  <2> HIDE DEF k, v
  <2>5. child' \in Children
    BY <1>1, <2>1, <2>3, <2>4, ChildrenChanged
  <2> QED
    BY <1>1, <1>5, <2>5 DEF DeadlinePasses, StateInv, StateInvNext
<1>6. CASE Crash
  <2>1. IdleScheduler \in Scheduler
    BY DEF IdleScheduler, Scheduler
  <2>2. \A n \in Node, k \in 1..AttemptCap : [child[n][k] EXCEPT !.told = FALSE] \in Child
    BY <1>2, ChildChanged
  <2>3. child' \in Children
    BY <1>6, <2>2 DEF Crash, Children
  <2> QED
    BY <1>1, <1>6, <2>1, <2>3 DEF Crash, StateInv, StateInvNext
<1> QED
  BY <1>3, <1>4, <1>5, <1>6 DEF Surroundings

\* The inductive invariant holds at first.
LEMMA InitInv == Init => IInv
<1> SUFFICES ASSUME Init PROVE IInv
  OBVIOUS
<1>1. PICK kind \in Kind : run = WorkflowStarted(kind)
  BY WorkflowAssumption DEF Init
<1>2. \A n \in Node : NodeInv(run.nodes[n])
  <2> TAKE n \in Node
  <2>1. run.nodes[n] = [status |-> "absent", attempts |-> <<>>, maxAttempts |-> 0,
                        dependsOn |-> {}, replaces |-> NoNode, kind |-> kind,
                        supersededBy |-> NoNode]
    BY <1>1 DEF WorkflowStarted
  <2>2. run.nodes[n] \in WorkflowNode
    BY <2>1 DEF WorkflowNode, NodeStatus
  <2>3. CoherentNode(run.nodes[n])
    BY <2>1 DEF CoherentNode, LastAttempt, LiveAttempt
  <2> QED
    BY <2>1, <2>2, <2>3, ReducerAssumption, WorkflowAssumption DEF NodeInv, Ceiling
<1>3. run \in WorkflowRun
  <2> DEFINE nodes == [n \in Node |->
                  [status |-> "absent", attempts |-> <<>>, maxAttempts |-> 0,
                   dependsOn |-> {}, replaces |-> NoNode, kind |-> kind,
                   supersededBy |-> NoNode]]
  <2>1. run = [status |-> "active", nodes |-> nodes, repair |-> {}]
    BY <1>1 DEF WorkflowStarted
  <2>2. nodes \in [Node -> WorkflowNode]
    BY <1>2, <2>1 DEF NodeInv
  <2> HIDE DEF nodes
  <2> QED
    BY <2>1, <2>2 DEF WorkflowRun, RunStatus
<1>4. sched \in [Sched -> Scheduler] /\ child \in Children
  BY DEF Init, IdleScheduler, Scheduler, NoChild, Child, Children
<1> QED
  BY <1>2, <1>3, <1>4 DEF Init, IInv, TypeOK, RunInv, Children

\* Every step keeps the inductive invariant.
LEMMA NextInv == IInv /\ [Next]_vars => IInv'
<1> SUFFICES ASSUME IInv, [Next]_vars PROVE IInv'
  OBVIOUS
<1>1. StateInvNext /\ binding' \in BOOLEAN => IInv'
  BY IInvParts DEF StateInvNext, StateInv, IInv, TypeOK, RunInv, Children
<1>2. CASE UNCHANGED vars
  BY <1>1, <1>2, IInvParts DEF vars, StateInvNext
<1>3. CASE Next
  <2>1. \/ \E s \in Sched, n \in Node, answer \in Answers : Land(s, n, answer)
        \/ \E s \in Sched : RunReadyReturns(s) \/ CallerAborts(s)
        \/ \E s \in Sched, n \in Node : WorkerThrows(s, n) \/ CancelRunning(s, n)
        \/ RunReady \/ (\E n \in Node : RetryNode(n)) \/ Resume \/ SessionStart
        \/ Decision
        \/ Surroundings
    BY <1>3 DEF Next, Persists, Reads, Elsewhere, Decision, Surroundings
  <2>2. StateInvNext
    BY <2>1, LandInv, SchedulerStepInv, StartingStepInv, DecisionInv, SurroundingsInv
  <2>3. binding' \in BOOLEAN
    BY <1>3, IInvParts DEF Next, Persisted, PersistedIfRecovered
  <2> QED
    BY <1>1, <2>2, <2>3
<1> QED
  BY <1>2, <1>3

(***************************************************************************)
(* In every reachable state the variables have their types.                *)
(***************************************************************************)
THEOREM TypeCorrect == Spec => []TypeOK
<1>1. IInv => TypeOK
  BY DEF IInv
<1> QED
  BY <1>1, InitInv, NextInv, PTL DEF Spec

(***************************************************************************)
(* The state of a node and its attempt history agree in every reachable    *)
(* state, for any graph, number of schedulers, plans, answers, and with or *)
(* without IO faults: what recovery reads of a node is never misleading.   *)
(***************************************************************************)
THEOREM CoherenceHolds == Spec => []AttemptsCoherent
<1>1. IInv => AttemptsCoherent
  BY DEF IInv, RunInv, NodeInv, AttemptsCoherent
<1> QED
  BY <1>1, InitInv, NextInv, PTL DEF Spec

(***************************************************************************)
(* No node is ever attempted more often than its ceiling allows, whichever *)
(* calls, retries, crashes and late answers happen.                        *)
(***************************************************************************)
THEOREM CeilingHolds == Spec => []AttemptCeilingHeld
<1>1. IInv => AttemptCeilingHeld
  BY DEF IInv, RunInv, NodeInv, AttemptCeilingHeld
<1> QED
  BY <1>1, InitInv, NextInv, PTL DEF Spec
=================================================================================
