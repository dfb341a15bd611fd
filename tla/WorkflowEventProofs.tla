-------------------------- MODULE WorkflowEventProofs --------------------------
(***************************************************************************)
(* What follows from the log: a step of Workflow appends a few events that *)
(* the reducer takes, and what starts an attempt comes last. So a property *)
(* of the run need only be shown of each event. This gives the graph       *)
(* invariants (readiness, supersession, completion), the immutability of   *)
(* the attempt history, the pause that stops new scheduling, and the       *)
(* refinement of AttemptLedger.                                            *)
(***************************************************************************)
EXTENDS WorkflowProofs

(***************************************************************************)
(* The invariants of WorkflowProperties, of any run.                       *)
(***************************************************************************)
ReadinessOf(r) ==
    \A n \in Node :
        /\ r.nodes[n].status = "ready"   => DependenciesAccepted(r, n)
        /\ r.nodes[n].status = "pending" => ~ DependenciesAccepted(r, n)

LinksOf(r) ==
    \A n \in Superseded(r) :
        LET by == r.nodes[n].supersededBy
        IN  /\ by \in Node
            /\ r.nodes[by].status \in {"accepted", "superseded"}
            /\ r.nodes[by].attempts # <<>>

LooplessOf(r) ==
    \A S \in SUBSET Superseded(r) :
        S # {} => \E n \in S : r.nodes[n].supersededBy \notin S

CompletionOf(r) ==
    r.status = "completed" =>
        \A n \in Node : \/ isAdjudicatedStatus(r.nodes[n].status)
                        \/ r.nodes[n].attempts = <<>>

Sound(r) ==
    /\ RunInv(r)
    /\ ReadinessOf(r)
    /\ LinksOf(r)
    /\ LooplessOf(r)
    /\ CompletionOf(r)

\* The nodes that have run and whose dependents may use a result.
Satisfied(r) == {n \in Node : r.nodes[n].attempts # <<>> /\ dependencyIsAccepted(r, n)}

-----------------------------------------------------------------------------
(***************************************************************************)
(* Nodes whose verdict stays.                                              *)
(***************************************************************************)
SameStanding(v, w) ==
    /\ w.dependsOn = v.dependsOn
    /\ w.supersededBy = v.supersededBy
    /\ w.status = "accepted" <=> v.status = "accepted"
    /\ w.status = "superseded" <=> v.status = "superseded"
    /\ v.attempts # <<>> => w.attempts # <<>>

SameReadiness(v, w) == w.status \in {"pending", "ready"} => w.status = v.status

\* Who counts as accepted is a matter of the standing of the nodes.
LEMMA StandingDependencies ==
    ASSUME NEW r, NEW q, \A n \in Node : SameStanding(r.nodes[n], q.nodes[n])
    PROVE  /\ \A d \in Node : dependencyIsAccepted(q, d) <=> dependencyIsAccepted(r, d)
           /\ \A n \in Node : r.nodes[n].dependsOn \subseteq Node =>
                (DependenciesAccepted(q, n) <=> DependenciesAccepted(r, n))
<1>1. \A S : ClosedUnderSupersession(q, S) <=> ClosedUnderSupersession(r, S)
  BY DEF ClosedUnderSupersession, SameStanding
<1>2. \A d : dependencyIsAccepted(q, d) <=> dependencyIsAccepted(r, d)
  BY <1>1 DEF dependencyIsAccepted
<1> QED
  BY <1>2 DEF DependenciesAccepted, SameStanding

\* So is what supersession links, and whether it loops.
LEMMA StandingLinks ==
    ASSUME NEW r, NEW q, \A n \in Node : SameStanding(r.nodes[n], q.nodes[n])
    PROVE  /\ LinksOf(r) => LinksOf(q)
           /\ LooplessOf(r) => LooplessOf(q)
<1>1. Superseded(q) = Superseded(r)
  BY DEF Superseded, SameStanding
<1>2. LinksOf(r) => LinksOf(q)
  BY <1>1 DEF LinksOf, Superseded, SameStanding
<1>3. LooplessOf(r) => LooplessOf(q)
  BY <1>1 DEF LooplessOf, Superseded, SameStanding
<1> QED
  BY <1>2, <1>3

\* Readiness stays current where nothing becomes pending or ready.
LEMMA StandingReadiness ==
    ASSUME NEW r, r \in WorkflowRun, NEW q, ReadinessOf(r),
           \A n \in Node : /\ SameStanding(r.nodes[n], q.nodes[n])
                           /\ SameReadiness(r.nodes[n], q.nodes[n])
    PROVE  ReadinessOf(q)
<1>1. \A n \in Node : r.nodes[n].dependsOn \subseteq Node
  BY RunFields DEF WorkflowNode
<1>2. \A n \in Node : DependenciesAccepted(q, n) <=> DependenciesAccepted(r, n)
  BY <1>1, StandingDependencies
<1> QED
  BY <1>2 DEF ReadinessOf, SameReadiness

(***************************************************************************)
(* The nodes that satisfy their dependents only become more, if each node  *)
(* that has run keeps its acceptance, or hands it to an accepted node.     *)
(***************************************************************************)
Advances(r, q, n) ==
    LET v == r.nodes[n]
        w == q.nodes[n]
    IN  /\ w.attempts # <<>>
        /\ v.status = "accepted" =>
             \/ w.status = "accepted"
             \/ /\ w.status = "superseded"
                /\ w.supersededBy \in Node
                /\ q.nodes[w.supersededBy].status = "accepted"
        /\ v.status = "superseded" =>
             w.status = "superseded" /\ w.supersededBy = v.supersededBy

\* If every node that has run keeps its verdict or is superseded, who was satisfied stays so.
LEMMA SatisfiedGrows ==
    ASSUME NEW r, NEW q, LinksOf(r),
           \A n \in Node : r.nodes[n].attempts # <<>> => Advances(r, q, n)
    PROVE  Satisfied(r) \subseteq Satisfied(q)
<1> SUFFICES ASSUME NEW d \in Node, r.nodes[d].attempts # <<>>, dependencyIsAccepted(r, d)
             PROVE  q.nodes[d].attempts # <<>> /\ dependencyIsAccepted(q, d)
  BY DEF Satisfied
<1>1. q.nodes[d].attempts # <<>>
  BY DEF Advances
<1>2. ASSUME NEW S \in SUBSET Node, ClosedUnderSupersession(q, S)
      PROVE  d \in S
  <2> DEFINE T == S \cup {n \in Node : r.nodes[n].attempts = <<>>}
  <2>1. ASSUME NEW n \in Node, n \notin T
        PROVE  r.nodes[n].status # "accepted"
    <3>1. Advances(r, q, n) /\ n \notin S
      BY <2>1
    <3> QED
      BY <1>2, <3>1 DEF Advances, ClosedUnderSupersession
  <2>2. ASSUME NEW n \in Node, n \notin T, r.nodes[n].status = "superseded",
               r.nodes[n].supersededBy \in T
        PROVE  FALSE
    <3>1. Advances(r, q, n) /\ n \notin S
      BY <2>2
    <3>2. r.nodes[n].supersededBy \in S
      BY <2>2 DEF LinksOf, Superseded
    <3> QED
      BY <1>2, <2>2, <3>1, <3>2 DEF Advances, ClosedUnderSupersession
  <2>3. ClosedUnderSupersession(r, T)
    BY <2>1, <2>2 DEF ClosedUnderSupersession
  <2>4. T \in SUBSET Node
    OBVIOUS
  <2>5. d \in T
    BY <2>3, <2>4, Zenon DEF dependencyIsAccepted
  <2> QED
    BY <2>5
<1> QED
  BY <1>1, <1>2 DEF dependencyIsAccepted

\* Verdicts that stay take no satisfied node away.
LEMMA StandingSatisfied ==
    ASSUME NEW r, NEW q, LinksOf(r), \A n \in Node : SameStanding(r.nodes[n], q.nodes[n])
    PROVE  Satisfied(r) \subseteq Satisfied(q)
<1>1. \A n \in Node : r.nodes[n].attempts # <<>> => Advances(r, q, n)
  BY DEF SameStanding, Advances
<1> QED
  BY <1>1, SatisfiedGrows

-----------------------------------------------------------------------------
(***************************************************************************)
(* What an event does to the attempts of a node: it keeps them, or the     *)
(* open one, which is the last, moves on.                                  *)
(***************************************************************************)
Settles(v, w) ==
    \/ w.attempts = v.attempts
    \/ /\ Ledger!EndsOpen(v.attempts)
       /\ \E to \in AttemptState : w.attempts = Ledger!Moved(v.attempts, to)

\* A node keeps its attempts, its verdict, and its place among the nodes that wait.
Unmoved(v, w) ==
    /\ w.attempts = v.attempts
    /\ SameStanding(v, w)
    /\ SameReadiness(v, w)

\* A report on the last attempt of a node.
LEMMA ReportedStanding ==
    ASSUME NEW v, NodeInv(v), NEW k \in 1..Len(v.attempts), v.attempts[k] \in LiveAttempt,
           NEW outcome \in AttemptState \ {"running"}
    PROVE  /\ SameStanding(v, Reported(v, k, outcome))
           /\ SameReadiness(v, Reported(v, k, outcome))
           /\ Settles(v, Reported(v, k, outcome))
<1> DEFINE w == Reported(v, k, outcome)
           s == IF outcome = "fatal" THEN "failed" ELSE outcome
           h == [v.attempts EXCEPT ![k] = outcome]
<1>1. v \in WorkflowNode /\ v.attempts \in Seq(AttemptState) /\ k = Len(v.attempts)
  BY NodeFields, ReportedInv DEF NodeInv
<1>2. /\ w.status = s
      /\ w.attempts = h
      /\ w.dependsOn = v.dependsOn
      /\ w.supersededBy = v.supersededBy
  BY <1>1 DEF Reported, WorkflowNode
<1>3. h # <<>> /\ v.attempts # <<>>
  BY <1>1, ExceptSeq
<1>4. v.status \notin {"accepted", "superseded", "pending", "ready"}
      /\ s \notin {"accepted", "superseded", "pending", "ready"}
  BY <1>1, <1>3 DEF NodeInv, CoherentNode, LastAttempt, LiveAttempt, AttemptState, TerminalAttempt
<1>5. Settles(v, w)
  BY <1>1, <1>2, <1>3 DEF Settles, Ledger!EndsOpen, Ledger!Moved
<1> QED
  BY <1>2, <1>3, <1>4, <1>5 DEF SameStanding, SameReadiness

\* The start of an attempt.
LEMMA StartedStanding ==
    ASSUME NEW v, NodeInv(v), v.status \in {"ready", "failed", "cancelled"}
    PROVE  /\ SameStanding(v, Started(v))
           /\ SameReadiness(v, Started(v))
           /\ ~ Ledger!EndsOpen(v.attempts)
           /\ Started(v).attempts = Append(v.attempts, "running")
           /\ Started(v).status = "running"
<1>1. v \in WorkflowNode /\ v.attempts \in Seq(AttemptState)
  BY NodeFields DEF NodeInv
<1>2. /\ Started(v).status = "running"
      /\ Started(v).attempts = Append(v.attempts, "running")
      /\ Started(v).dependsOn = v.dependsOn
      /\ Started(v).supersededBy = v.supersededBy
  BY <1>1 DEF Started, WorkflowNode
<1>3. Append(v.attempts, "running") # <<>>
  BY <1>1, AppendProperties DEF AttemptState, LiveAttempt
<1>4. ~ Ledger!EndsOpen(v.attempts)
  BY <1>1 DEF NodeInv, CoherentNode, LastAttempt, LiveAttempt, Ledger!EndsOpen
<1> QED
  BY <1>2, <1>3, <1>4 DEF SameStanding, SameReadiness

\* Other states that are no verdict of acceptance.
LEMMA FlippedStanding ==
    ASSUME NEW v, v \in WorkflowNode,
           v.status \notin {"accepted", "superseded"}, NEW s \in {"cancelled", "rejected"}
    PROVE  Unmoved(v, [v EXCEPT !.status = s])
  BY DEF Unmoved, SameStanding, SameReadiness, WorkflowNode

\* A new ceiling changes no verdict.
LEMMA ReopenedStanding ==
    ASSUME NEW v, v \in WorkflowNode, NEW ceiling
    PROVE  /\ Unmoved(v, [v EXCEPT !.maxAttempts = ceiling])
           /\ [v EXCEPT !.maxAttempts = ceiling].status = v.status
  BY DEF Unmoved, SameStanding, SameReadiness, WorkflowNode

-----------------------------------------------------------------------------
(***************************************************************************)
(* Runs.                                                                   *)
(***************************************************************************)
Kept(r, q) ==
    \A n \in Node : /\ SameStanding(r.nodes[n], q.nodes[n])
                    /\ SameReadiness(r.nodes[n], q.nodes[n])

\* An event keeps the invariants of the run and every satisfied node.
Follows(r, q) ==
    /\ Sound(q)
    /\ \A n \in Node : Settles(r.nodes[n], q.nodes[n])
    /\ Satisfied(r) \subseteq Satisfied(q)

\* An event that gives no verdict.
LEMMA KeptFollows ==
    ASSUME NEW r, Sound(r), NEW q, RunInv(q), CompletionOf(q), Kept(r, q)
    PROVE  Sound(q) /\ Satisfied(r) \subseteq Satisfied(q)
  BY StandingLinks, StandingReadiness, StandingSatisfied DEF Sound, RunInv, Kept

\* refreshReadiness makes readiness current, and touches nothing else.
LEMMA RefreshReadiness ==
    ASSUME NEW r, RunInv(r)
    PROVE  /\ ReadinessOf(refreshReadiness(r))
           /\ \A n \in Node : /\ SameStanding(r.nodes[n], refreshReadiness(r).nodes[n])
                              /\ refreshReadiness(r).nodes[n].attempts = r.nodes[n].attempts
           /\ LinksOf(r) => LinksOf(refreshReadiness(r))
           /\ LooplessOf(r) => LooplessOf(refreshReadiness(r))
           /\ CompletionOf(r) => CompletionOf(refreshReadiness(r))
           /\ LinksOf(r) => Satisfied(r) \subseteq Satisfied(refreshReadiness(r))
<1> DEFINE q == refreshReadiness(r)
           mark(n) == IF DependenciesAccepted(r, n) THEN "ready" ELSE "pending"
<1>1. /\ q.status = r.status
      /\ \A n \in Node : q.nodes[n] = IF r.nodes[n].status \in {"pending", "ready"}
                                      THEN [r.nodes[n] EXCEPT !.status = mark(n)]
                                      ELSE r.nodes[n]
  BY DEF refreshReadiness, RunInv, WorkflowRun
<1>2. \A n \in Node : r.nodes[n] \in WorkflowNode /\ r.nodes[n].dependsOn \subseteq Node
  BY RunFields DEF RunInv, WorkflowNode
<1>3. \A n \in Node :
        /\ q.nodes[n].attempts = r.nodes[n].attempts
        /\ q.nodes[n].dependsOn = r.nodes[n].dependsOn
        /\ q.nodes[n].supersededBy = r.nodes[n].supersededBy
        /\ q.nodes[n].status = IF r.nodes[n].status \in {"pending", "ready"}
                               THEN mark(n) ELSE r.nodes[n].status
  BY <1>1, <1>2 DEF WorkflowNode
<1> HIDE DEF q
<1>4. \A n \in Node : SameStanding(r.nodes[n], q.nodes[n])
  BY <1>3 DEF SameStanding
<1>5. ReadinessOf(q)
  <2>1. \A n \in Node : DependenciesAccepted(q, n) <=> DependenciesAccepted(r, n)
    BY <1>2, <1>4, StandingDependencies
  <2> QED
    BY <1>3, <2>1 DEF ReadinessOf
<1>6. CompletionOf(r) => CompletionOf(q)
  BY <1>1, <1>3 DEF CompletionOf, isAdjudicatedStatus
<1>7. /\ LinksOf(r) => LinksOf(q)
      /\ LooplessOf(r) => LooplessOf(q)
      /\ LinksOf(r) => Satisfied(r) \subseteq Satisfied(q)
  BY <1>4, StandingLinks, StandingSatisfied
<1> QED
  BY <1>3, <1>4, <1>5, <1>6, <1>7 DEF q
-----------------------------------------------------------------------------
(***************************************************************************)
(* Events.                                                                 *)
(***************************************************************************)

\* In a completed run no attempt is live.
LEMMA CompletedIdle ==
    ASSUME NEW r, Sound(r), r.status = "completed", NEW n \in Node
    PROVE  /\ LastAttempt(r.nodes[n]) \notin LiveAttempt
           /\ \A k \in 1..Len(r.nodes[n].attempts) : r.nodes[n].attempts[k] \notin LiveAttempt
<1> DEFINE v == r.nodes[n]
<1>1. NodeInv(v) /\ v \in WorkflowNode /\ v.attempts \in Seq(AttemptState)
  BY NodeFields DEF Sound, RunInv, NodeInv
<1>2. isAdjudicatedStatus(v.status) \/ v.attempts = <<>>
  BY DEF Sound, CompletionOf
<1> HIDE DEF v
<1>3. LastAttempt(v) \notin LiveAttempt
  BY <1>1, <1>2 DEF isAdjudicatedStatus, LastAttempt, NodeInv, CoherentNode, LiveAttempt
<1>4. \A k \in 1..Len(v.attempts) : v.attempts[k] \notin LiveAttempt
  BY <1>1, <1>3 DEF LastAttempt, NodeInv, CoherentNode, LiveAttempt, TerminalAttempt
<1> QED
  BY <1>3, <1>4 DEF v

\* Reports on the last attempts of a set of nodes.
LEMMA SettledFollows ==
    ASSUME NEW r, Sound(r), NEW outcomes,
           \A n \in Node : outcomes[n] # "none" =>
               /\ outcomes[n] \in AttemptState \ {"running"}
               /\ LastAttempt(r.nodes[n]) \in LiveAttempt
    PROVE  Follows(r, Settled(r, outcomes))
<1> DEFINE q == Settled(r, outcomes)
           last(n) == Len(r.nodes[n].attempts)
<1>1. RunInv(r) /\ RunInv(q)
  BY SettledInv DEF Sound
<1>2. /\ q.status = r.status
      /\ \A n \in Node : q.nodes[n] = IF outcomes[n] = "none" THEN r.nodes[n]
                                      ELSE Reported(r.nodes[n], last(n), outcomes[n])
  BY <1>1 DEF Settled, RunInv, WorkflowRun
<1>3. ASSUME NEW n \in Node, outcomes[n] # "none"
      PROVE  /\ SameStanding(r.nodes[n], q.nodes[n])
             /\ SameReadiness(r.nodes[n], q.nodes[n])
             /\ Settles(r.nodes[n], q.nodes[n])
  <2>1. NodeInv(r.nodes[n]) /\ r.nodes[n] \in WorkflowNode
    BY <1>1 DEF RunInv, NodeInv
  <2>2. last(n) \in 1..Len(r.nodes[n].attempts) /\ r.nodes[n].attempts[last(n)] \in LiveAttempt
    BY <1>3, <2>1, LastAttemptType DEF LiveAttempt
  <2> QED
    BY <1>2, <1>3, <2>1, <2>2, ReportedStanding
<1>4. \A n \in Node : outcomes[n] = "none" => q.nodes[n] = r.nodes[n]
  BY <1>2
<1>5. CompletionOf(q)
  <2>1. q.status = "completed" => \A n \in Node : outcomes[n] = "none"
    BY <1>2, CompletedIdle
  <2> QED
    BY <1>2, <1>4, <2>1 DEF Sound, CompletionOf
<1> HIDE DEF q
<1>6. Kept(r, q) /\ \A n \in Node : Settles(r.nodes[n], q.nodes[n])
  BY <1>3, <1>4 DEF Kept, SameStanding, SameReadiness, Settles
<1>7. Sound(q) /\ Satisfied(r) \subseteq Satisfied(q)
  BY <1>1, <1>5, <1>6, KeptFollows
<1> QED
  BY <1>6, <1>7 DEF Follows, q

\* A report on one attempt.
LEMMA NodeReportedFollows ==
    ASSUME NEW r, Sound(r), NEW n \in Node, NEW k, ReportTakes(r, n, k),
           NEW outcome \in AttemptState \ {"running"}
    PROVE  Follows(r, NodeReported(r, n, k, outcome))
<1> DEFINE q == NodeReported(r, n, k, outcome)
<1>1. RunInv(r) /\ RunInv(q)
  BY NodeReportedInv DEF Sound
<1>2. /\ q.status = r.status
      /\ q.nodes[n] = Reported(r.nodes[n], k, outcome)
      /\ \A m \in Node \ {n} : q.nodes[m] = r.nodes[m]
  BY <1>1 DEF NodeReported, RunInv, WorkflowRun
<1>3. /\ SameStanding(r.nodes[n], q.nodes[n])
      /\ SameReadiness(r.nodes[n], q.nodes[n])
      /\ Settles(r.nodes[n], q.nodes[n])
  BY <1>1, <1>2, ReportedStanding DEF RunInv, ReportTakes
<1>4. CompletionOf(q)
  BY <1>2, CompletedIdle DEF ReportTakes, CompletionOf
<1> HIDE DEF q
<1>5. Kept(r, q) /\ \A m \in Node : Settles(r.nodes[m], q.nodes[m])
  BY <1>2, <1>3 DEF Kept, SameStanding, SameReadiness, Settles
<1>6. Sound(q) /\ Satisfied(r) \subseteq Satisfied(q)
  BY <1>1, <1>4, <1>5, KeptFollows
<1> QED
  BY <1>5, <1>6 DEF Follows, q

\* One node changes, and not its attempts, its verdict or its readiness.
LEMMA NodeUnmovedFollows ==
    ASSUME NEW r, Sound(r), NEW n \in Node, NEW v, Unmoved(r.nodes[n], v),
           RunInv([r EXCEPT !.nodes[n] = v]),
           r.status = "completed" => isAdjudicatedStatus(v.status)
    PROVE  Follows(r, [r EXCEPT !.nodes[n] = v])
<1> DEFINE q == [r EXCEPT !.nodes[n] = v]
<1>1. RunInv(r) /\ RunInv(q)
  BY DEF Sound
<1>2. /\ q.status = r.status
      /\ q.nodes[n] = v
      /\ \A m \in Node \ {n} : q.nodes[m] = r.nodes[m]
  BY <1>1 DEF RunInv, WorkflowRun
<1> HIDE DEF q
<1>3. CompletionOf(q)
  BY <1>2 DEF Sound, CompletionOf
<1>4. Kept(r, q) /\ \A m \in Node : Settles(r.nodes[m], q.nodes[m])
  BY <1>2 DEF Unmoved, Kept, SameStanding, SameReadiness, Settles
<1>5. Sound(q) /\ Satisfied(r) \subseteq Satisfied(q)
  BY <1>1, <1>3, <1>4, KeptFollows
<1> QED
  BY <1>4, <1>5 DEF Follows, q

\* cancel of an idle node, reject and reopen.
LEMMA NodeCancelledFollows ==
    ASSUME NEW r, Sound(r), NEW n \in Node, IsLive(r),
           r.nodes[n].status \in {"pending", "ready", "failed", "cancelled"}
    PROVE  Follows(r, NodeCancelled(r, n))
<1>1. RunInv(NodeCancelled(r, n)) /\ r.nodes[n] \in WorkflowNode
  BY NodeCancelledInv DEF Sound, RunInv, NodeInv
<1>2. NodeCancelled(r, n) = [r EXCEPT !.nodes[n] = [r.nodes[n] EXCEPT !.status = "cancelled"]]
  BY DEF NodeCancelled
<1>3. Unmoved(r.nodes[n], [r.nodes[n] EXCEPT !.status = "cancelled"])
  BY <1>1, FlippedStanding
<1> QED
  BY <1>1, <1>2, <1>3, NodeUnmovedFollows DEF IsLive

\* A rejection.
LEMMA NodeRejectedFollows ==
    ASSUME NEW r, Sound(r), NEW n \in Node, NodeRejectTakes(r, n)
    PROVE  Follows(r, NodeRejected(r, n))
<1>1. RunInv(NodeRejected(r, n)) /\ r.nodes[n] \in WorkflowNode
  BY NodeRejectedInv DEF Sound, RunInv, NodeInv
<1> DEFINE v == [r.nodes[n] EXCEPT !.status = "rejected"]
<1>2. NodeRejected(r, n) = [r EXCEPT !.nodes[n] = v]
  BY DEF NodeRejected
<1>3. Unmoved(r.nodes[n], v)
  BY <1>1, FlippedStanding DEF NodeRejectTakes, isAdjudicatedStatus
<1>4. isAdjudicatedStatus(v.status)
  BY <1>1 DEF WorkflowNode, isAdjudicatedStatus
<1> HIDE DEF v
<1> QED
  BY <1>1, <1>2, <1>3, <1>4, NodeUnmovedFollows

\* A reopen.
LEMMA NodeReopenedFollows ==
    ASSUME NEW r, Sound(r), NEW n \in Node, NodeReopenTakes(r, n), NEW additional \in Nat
    PROVE  Follows(r, NodeReopened(r, n, additional))
<1>1. RunInv(NodeReopened(r, n, additional)) /\ r.nodes[n] \in WorkflowNode
  BY NodeReopenedInv DEF Sound, RunInv, NodeInv
<1> DEFINE v == [r.nodes[n] EXCEPT !.maxAttempts = Len(r.nodes[n].attempts) + additional]
<1>2. NodeReopened(r, n, additional) = [r EXCEPT !.nodes[n] = v]
  BY DEF NodeReopened
<1>3. Unmoved(r.nodes[n], v)
  BY <1>1, ReopenedStanding
<1> HIDE DEF v
<1> QED
  BY <1>1, <1>2, <1>3, NodeUnmovedFollows DEF NodeReopenTakes

\* Another state of the run. Only complete asks something of the nodes.
LEMMA StatusChangedFollows ==
    ASSUME NEW r, Sound(r), NEW s \in RunStatus, s = "completed" => CompletionReady(r)
    PROVE  Follows(r, StatusChanged(r, s))
<1> DEFINE q == StatusChanged(r, s)
<1>1. RunInv(r) /\ RunInv(q) /\ q.nodes = r.nodes
  BY StatusChangedInv DEF Sound
<1>2. q.status = s
  BY <1>1 DEF StatusChanged, RunInv, WorkflowRun
<1> HIDE DEF q
<1>3. CompletionOf(q)
  <2> SUFFICES ASSUME s = "completed", NEW n \in Node
               PROVE  isAdjudicatedStatus(r.nodes[n].status) \/ r.nodes[n].attempts = <<>>
    BY <1>1, <1>2 DEF CompletionOf
  <2>1. CASE r.nodes[n].status = "absent"
    BY <1>1, <2>1 DEF RunInv, NodeInv, CoherentNode
  <2>2. CASE r.nodes[n].status # "absent"
    BY <2>2 DEF CompletionReady, Planned
  <2> QED
    BY <2>1, <2>2
<1>4. Kept(r, q) /\ \A n \in Node : Settles(r.nodes[n], q.nodes[n])
  BY <1>1 DEF Kept, SameStanding, SameReadiness, Settles
<1>5. Sound(q) /\ Satisfied(r) \subseteq Satisfied(q)
  BY <1>1, <1>3, <1>4, KeptFollows
<1> QED
  BY <1>4, <1>5 DEF Follows, q
\* A verdict, and the refresh of readiness that follows it.
LEMMA RefreshFollows ==
    ASSUME NEW r, Sound(r), NEW q, RunInv(q), LinksOf(q), LooplessOf(q), CompletionOf(q),
           \A n \in Node : q.nodes[n].attempts = r.nodes[n].attempts,
           Satisfied(r) \subseteq Satisfied(q)
    PROVE  Follows(r, refreshReadiness(q))
<1>1. Sound(refreshReadiness(q))
  BY RefreshInv, RefreshReadiness DEF Sound
<1>2. \A n \in Node : Settles(r.nodes[n], refreshReadiness(q).nodes[n])
  BY RefreshReadiness DEF Settles
<1>3. Satisfied(r) \subseteq Satisfied(refreshReadiness(q))
  BY RefreshReadiness
<1> QED
  BY <1>1, <1>2, <1>3 DEF Follows

\* A plan puts nodes that never ran in their places, and nobody points at those.
LEMMA PlanAppliedFollows ==
    ASSUME NEW r, Sound(r), NEW p \in Plans, PlanTakes(r, p)
    PROVE  Follows(r, PlanApplied(r, p))
<1>1. PICK D \in SUBSET Node : p \in [D -> WorkUnit]
  BY WorkflowAssumption
<1> DEFINE nodes == Replanned(r, p)
           repair == IF r.status = "stopped" \/ r.repair # {}
                     THEN r.repair \cup DOMAIN p ELSE r.repair
           q == [r EXCEPT !.nodes = nodes, !.repair = repair]
<1>2. PlanApplied(r, p) = refreshReadiness(q)
  BY DEF PlanApplied
<1>3. \A n \in Node : NodeInv(nodes[n])
  BY <1>1, PlannedInv DEF Replanned, Sound, RunInv
<1>4. nodes = [n \in Node |-> nodes[n]]
  BY DEF Replanned
<1>5. repair \in SUBSET Node
  BY <1>1, RunFields DEF Sound, RunInv
<1>6. q.status = r.status /\ q.nodes = nodes
  BY DEF Sound, RunInv, WorkflowRun
<1>7. \A n \in Node :
        IF n \in DOMAIN p
        THEN /\ nodes[n].status = "pending"
             /\ nodes[n].attempts = <<>>
             /\ r.nodes[n].attempts = <<>>
        ELSE nodes[n] = r.nodes[n]
  BY DEF Replanned, PlanTakes
<1>8. RunInv(q)
  <2> HIDE DEF nodes, repair
  <2> QED
    BY <1>3, <1>4, <1>5, NodesMade, Zenon DEF Sound
<1> HIDE DEF nodes, repair, q
<1>9. \A n \in Superseded(q) :
        n \notin DOMAIN p /\ n \in Superseded(r) /\ q.nodes[n] = r.nodes[n]
  BY <1>6, <1>7 DEF Superseded
<1>10. LinksOf(q)
  BY <1>6, <1>7, <1>9 DEF LinksOf, Sound
<1>11. LooplessOf(q)
  BY <1>9 DEF LooplessOf, Sound
<1>12. CompletionOf(q)
  BY <1>6, <1>7 DEF CompletionOf, Sound
<1>13. Satisfied(r) \subseteq Satisfied(q)
  <2>1. \A n \in Node : r.nodes[n].attempts # <<>> => Advances(r, q, n)
    BY <1>6, <1>7 DEF Advances
  <2> QED
    BY <2>1, SatisfiedGrows DEF Sound
<1> QED
  BY <1>2, <1>6, <1>7, <1>8, <1>10, <1>11, <1>12, <1>13, RefreshFollows

\* A node is superseded by an accepted one.
LEMMA SupersededFollows ==
    ASSUME NEW r, Sound(r), NEW n \in Node, NEW by \in Node, n # by,
           r.nodes[n].status # "superseded", NEW q, RunInv(q),
           q.status = r.status,
           q.nodes[n] = SupersededBy(r.nodes[n], by),
           q.nodes[by].status = "accepted",
           r.nodes[by].status \in {"completed", "accepted"},
           q.nodes[by].attempts = r.nodes[by].attempts,
           \A m \in Node \ {n, by} : q.nodes[m] = r.nodes[m]
    PROVE  Follows(r, refreshReadiness(q))
<1>1. /\ q.nodes[n].status = "superseded"
      /\ q.nodes[n].supersededBy = by
      /\ q.nodes[n].attempts = r.nodes[n].attempts
  BY DEF Sound, RunInv, NodeInv, WorkflowNode, SupersededBy
<1>2. q.nodes[by].attempts # <<>>
  BY DEF RunInv, NodeInv, CoherentNode, LastAttempt
<1>3. Superseded(q) = Superseded(r) \cup {n} /\ by \notin Superseded(q)
  BY <1>1 DEF Superseded
<1>4. \A m \in Superseded(r) :
        q.nodes[m] = r.nodes[m] /\ m # n /\ m # by /\ r.nodes[m].supersededBy \in Node
  BY DEF Superseded, Sound, LinksOf
<1>5. LinksOf(q)
  <2>1. ASSUME NEW m \in Superseded(r)
        PROVE  /\ q.nodes[r.nodes[m].supersededBy].status \in {"accepted", "superseded"}
               /\ q.nodes[r.nodes[m].supersededBy].attempts # <<>>
    <3> DEFINE to == r.nodes[m].supersededBy
    <3>1. to \in Node /\ r.nodes[to].status \in {"accepted", "superseded"}
          /\ r.nodes[to].attempts # <<>>
      BY DEF Sound, LinksOf
    <3> HIDE DEF to
    <3>2. q.nodes[to].status \in {"accepted", "superseded"} /\ q.nodes[to].attempts # <<>>
      BY <1>1, <1>2, <3>1
    <3> QED
      BY <3>2 DEF to
  <2> QED
    BY <1>1, <1>2, <1>3, <1>4, <2>1 DEF LinksOf
<1>6. LooplessOf(q)
  <2> SUFFICES ASSUME NEW S \in SUBSET Superseded(q), S # {}
               PROVE  \E m \in S : q.nodes[m].supersededBy \notin S
    BY DEF LooplessOf
  <2>1. CASE n \in S
    BY <1>1, <1>3, <2>1
  <2>2. CASE n \notin S
    <3>1. S \in SUBSET Superseded(r)
      BY <1>3, <2>2
    <3>2. PICK m \in S : r.nodes[m].supersededBy \notin S
      BY <3>1 DEF Sound, LooplessOf
    <3> QED
      BY <1>4, <3>1, <3>2
  <2> QED
    BY <2>1, <2>2
<1>7. CompletionOf(q)
  BY <1>1 DEF Sound, CompletionOf, isAdjudicatedStatus
<1>8. \A m \in Node : q.nodes[m].attempts = r.nodes[m].attempts
  BY <1>1
<1>9. Satisfied(r) \subseteq Satisfied(q)
  <2>1. \A m \in Node : r.nodes[m].attempts # <<>> => Advances(r, q, m)
    BY <1>1, <1>4, <1>8 DEF Advances, Superseded
  <2> QED
    BY <2>1, SatisfiedGrows DEF Sound
<1> QED
  BY <1>5, <1>6, <1>7, <1>8, <1>9, RefreshFollows
\* supersede.
LEMMA NodeSupersededFollows ==
    ASSUME NEW r, Sound(r), NEW n \in Node, NEW by \in Node, NodeSupersedeTakes(r, n, by)
    PROVE  Follows(r, NodeSuperseded(r, n, by))
<1> DEFINE v == SupersededBy(r.nodes[n], by)
           q == [r EXCEPT !.nodes[n] = v]
<1>1. NodeSuperseded(r, n, by) = refreshReadiness(q)
  BY DEF NodeSuperseded
<1>2. NodeInv(v)
  BY SupersededInv DEF Sound, RunInv, NodeSupersedeTakes
<1> HIDE DEF v
<1>3. RunInv(q)
  BY <1>2, NodeMade DEF Sound
<1>4. q.status = r.status /\ q.nodes[n] = v /\ \A m \in Node \ {n} : q.nodes[m] = r.nodes[m]
  BY DEF Sound, RunInv, WorkflowRun
<1> HIDE DEF q
<1>5. /\ n # by
      /\ r.nodes[n].status # "superseded"
      /\ r.nodes[by].status = "accepted"
  BY DEF NodeSupersedeTakes
<1> QED
  BY <1>1, <1>3, <1>4, <1>5, SupersededFollows DEF v

\* accept, with or without a node to retire.
LEMMA NodeAcceptedFollows ==
    ASSUME NEW r, Sound(r), NEW n \in Node, NodeAcceptTakes(r, n)
    PROVE  Follows(r, NodeAccepted(r, n))
<1> DEFINE t == r.nodes[n].replaces
           retired == {m \in {t} \cap Planned(r) :
                           r.nodes[m].status \notin {"accepted", "superseded"}}
           nodes == [m \in Node |->
             CASE m = n         -> [r.nodes[m] EXCEPT !.status = "accepted"]
               [] m # n /\ m \in retired -> SupersededBy(r.nodes[m], n)
               [] OTHER         -> r.nodes[m]]
           q == [r EXCEPT !.nodes = nodes]
<1>1. NodeAccepted(r, n) = refreshReadiness(q)
  BY DEF NodeAccepted
<1>2. \A m \in Node : NodeInv(nodes[m])
  <2> TAKE m \in Node
  <2>1. NodeInv(r.nodes[m])
    BY DEF Sound, RunInv
  <2>2. CASE m = n
    BY <2>1, <2>2, FlippedInv DEF NodeAcceptTakes, NodeStatus
  <2>3. CASE m # n /\ m \in retired
    <3>1. r.nodes[m].status \notin LiveAttempt
      BY <2>3, ReducerAssumption DEF NodeAcceptTakes
    <3> QED
      BY <2>1, <2>3, <3>1, SupersededInv
  <2> QED
    BY <2>1, <2>2, <2>3
<1>3. nodes = [m \in Node |-> nodes[m]]
  OBVIOUS
<1>4. q.status = r.status /\ q.nodes = nodes
  BY DEF Sound, RunInv, WorkflowRun
<1>5. RunInv(q)
  <2> HIDE DEF nodes
  <2>1. {} \in SUBSET Node
    OBVIOUS
  <2> QED
    BY <1>2, <1>3, <2>1, NodesMade, Zenon DEF Sound
<1>6. /\ r.nodes[n].status = "completed"
      /\ q.nodes[n].status = "accepted"
      /\ q.nodes[n].attempts = r.nodes[n].attempts
      /\ q.nodes[n].supersededBy = r.nodes[n].supersededBy
  BY <1>4 DEF NodeAcceptTakes, Sound, RunInv, NodeInv, WorkflowNode
<1>7. \A m \in Node \ {n} : q.nodes[m] = IF m \in retired THEN SupersededBy(r.nodes[m], n)
                                                          ELSE r.nodes[m]
  BY <1>4
<1>8. CASE t \in retired /\ t # n
  <2>1. t \in Node /\ r.nodes[t].status # "superseded"
    BY <1>8 DEF Planned
  <2>2. q.nodes[t] = SupersededBy(r.nodes[t], n)
        /\ \A m \in Node \ {n, t} : q.nodes[m] = r.nodes[m]
    BY <1>7, <1>8, <2>1
  <2> HIDE DEF q, nodes, t, retired
  <2> QED
    BY <1>1, <1>4, <1>5, <1>6, <1>8, <2>1, <2>2, SupersededFollows
<1>9. CASE ~ (t \in retired /\ t # n)
  <2>1. \A m \in Node \ {n} : q.nodes[m] = r.nodes[m]
    BY <1>7, <1>9
  <2> HIDE DEF q, nodes, t, retired
  <2>2. Superseded(q) = Superseded(r) /\ \A m \in Superseded(r) : q.nodes[m] = r.nodes[m]
    BY <1>6, <2>1 DEF Superseded
  <2>3. \A m \in Node : q.nodes[m].attempts = r.nodes[m].attempts
    BY <1>6, <2>1
  <2>4. LinksOf(q)
    <3>1. \A m \in Node : r.nodes[m].status \in {"accepted", "superseded"} =>
                             q.nodes[m].status \in {"accepted", "superseded"}
      BY <1>6, <2>1
    <3> QED
      BY <2>2, <2>3, <3>1 DEF Sound, LinksOf
  <2>5. LooplessOf(q)
    BY <2>2 DEF Sound, LooplessOf
  <2>6. CompletionOf(q)
    BY <1>4, <1>6, <2>1 DEF Sound, CompletionOf, isAdjudicatedStatus
  <2>7. Satisfied(r) \subseteq Satisfied(q)
    <3>1. \A m \in Node : r.nodes[m].attempts # <<>> => Advances(r, q, m)
      BY <1>6, <2>1, <2>3 DEF Advances
    <3> QED
      BY <3>1, SatisfiedGrows DEF Sound
  <2> QED
    BY <1>1, <1>5, <2>3, <2>4, <2>5, <2>6, <2>7, RefreshFollows
<1> QED
  BY <1>8, <1>9
-----------------------------------------------------------------------------
(***************************************************************************)
(* Steps as events.                                                        *)
(***************************************************************************)
Outcomes == [Node -> (AttemptState \ {"running"}) \cup {"none"}]

\* The events that start no attempt.
Event(r, q) ==
    \/ q = r
    \/ \E outcomes \in Outcomes :
          /\ \A n \in Node : outcomes[n] # "none" => LastAttempt(r.nodes[n]) \in LiveAttempt
          /\ q = Settled(r, outcomes)
    \/ \E n \in Node, k \in Nat, outcome \in AttemptState \ {"running"} :
          ReportTakes(r, n, k) /\ q = NodeReported(r, n, k, outcome)
    \/ \E p \in Plans : PlanTakes(r, p) /\ q = PlanApplied(r, p)
    \/ \E n \in Node :
          \/ NodeAcceptTakes(r, n) /\ q = NodeAccepted(r, n)
          \/ NodeRejectTakes(r, n) /\ q = NodeRejected(r, n)
          \/ /\ IsLive(r)
             /\ r.nodes[n].status \in {"pending", "ready", "failed", "cancelled"}
             /\ q = NodeCancelled(r, n)
    \/ \E n, by \in Node : NodeSupersedeTakes(r, n, by) /\ q = NodeSuperseded(r, n, by)
    \/ \E n \in Node, additional \in Nat :
          NodeReopenTakes(r, n) /\ q = NodeReopened(r, n, additional)
    \/ \E s \in RunStatus : (s = "completed" => CompletionReady(r)) /\ q = StatusChanged(r, s)

\* The event that starts attempts, of an active run only.
Starts(r, q) ==
    \/ q = r
    \/ /\ r.status = "active"
       /\ \E starting \in SUBSET Node :
             (\A n \in starting : MayStart(r, n)) /\ q = NodesStarted(r, starting)

\* Each event keeps the invariants of the run.
LEMMA EventFollows ==
    ASSUME NEW r, Sound(r), NEW q, Event(r, q)
    PROVE  Follows(r, q)
<1>1. CASE q = r
  BY <1>1 DEF Follows, Settles
<1>2. ASSUME NEW outcomes \in Outcomes,
             \A n \in Node : outcomes[n] # "none" => LastAttempt(r.nodes[n]) \in LiveAttempt,
             q = Settled(r, outcomes)
      PROVE  Follows(r, q)
  <2>1. \A n \in Node : outcomes[n] # "none" => outcomes[n] \in AttemptState \ {"running"}
    BY DEF Outcomes
  <2> QED
    BY <1>2, <2>1, SettledFollows
<1>3. ASSUME NEW n \in Node, NEW k \in Nat, NEW outcome \in AttemptState \ {"running"},
             ReportTakes(r, n, k), q = NodeReported(r, n, k, outcome)
      PROVE  Follows(r, q)
  BY <1>3, NodeReportedFollows
<1>4. ASSUME NEW p \in Plans, PlanTakes(r, p), q = PlanApplied(r, p)
      PROVE  Follows(r, q)
  BY <1>4, PlanAppliedFollows
<1>5. ASSUME NEW n \in Node,
             \/ NodeAcceptTakes(r, n) /\ q = NodeAccepted(r, n)
             \/ NodeRejectTakes(r, n) /\ q = NodeRejected(r, n)
             \/ /\ IsLive(r)
                /\ r.nodes[n].status \in {"pending", "ready", "failed", "cancelled"}
                /\ q = NodeCancelled(r, n)
      PROVE  Follows(r, q)
  BY <1>5, NodeAcceptedFollows, NodeRejectedFollows, NodeCancelledFollows
<1>6. ASSUME NEW n \in Node, NEW by \in Node, NodeSupersedeTakes(r, n, by),
             q = NodeSuperseded(r, n, by)
      PROVE  Follows(r, q)
  BY <1>6, NodeSupersededFollows
<1>7. ASSUME NEW n \in Node, NEW additional \in Nat, NodeReopenTakes(r, n),
             q = NodeReopened(r, n, additional)
      PROVE  Follows(r, q)
  BY <1>7, NodeReopenedFollows
<1>8. ASSUME NEW s \in RunStatus, s = "completed" => CompletionReady(r), q = StatusChanged(r, s)
      PROVE  Follows(r, q)
  BY <1>8, StatusChangedFollows
<1> QED
  BY <1>1, <1>2, <1>3, <1>4, <1>5, <1>6, <1>7, <1>8 DEF Event

\* Attempts start on nodes that make none, and leave the verdicts.
LEMMA StartsFollow ==
    ASSUME NEW r, Sound(r), NEW q, Starts(r, q)
    PROVE  /\ Sound(q)
           /\ Satisfied(r) \subseteq Satisfied(q)
           /\ q.status = r.status
           /\ \A n \in Node :
                \/ q.nodes[n].attempts = r.nodes[n].attempts
                \/ /\ r.status = "active"
                   /\ ~ Ledger!EndsOpen(r.nodes[n].attempts)
                   /\ q.nodes[n].attempts = Append(r.nodes[n].attempts, "running")
<1>1. CASE q = r
  BY <1>1
<1>2. ASSUME NEW starting \in SUBSET Node, r.status = "active",
             \A n \in starting : MayStart(r, n), q = NodesStarted(r, starting)
      PROVE  /\ Sound(q)
             /\ Satisfied(r) \subseteq Satisfied(q)
             /\ q.status = r.status
             /\ \A n \in Node :
                  \/ q.nodes[n].attempts = r.nodes[n].attempts
                  \/ /\ ~ Ledger!EndsOpen(r.nodes[n].attempts)
                     /\ q.nodes[n].attempts = Append(r.nodes[n].attempts, "running")
  <2>1. RunInv(r) /\ RunInv(q)
    BY <1>2, NodesStartedInv DEF Sound
  <2>2. /\ q.status = r.status
        /\ \A n \in Node : q.nodes[n] = IF n \in starting THEN Started(r.nodes[n])
                                                          ELSE r.nodes[n]
    BY <1>2, <2>1 DEF NodesStarted, RunInv, WorkflowRun
  <2>3. \A n \in starting : NodeInv(r.nodes[n])
                            /\ r.nodes[n].status \in {"ready", "failed", "cancelled"}
    BY <1>2, <2>1 DEF MayStart, NodeStartTakes, RunInv
  <2>4. \A n \in starting :
          /\ SameStanding(r.nodes[n], q.nodes[n])
          /\ SameReadiness(r.nodes[n], q.nodes[n])
          /\ ~ Ledger!EndsOpen(r.nodes[n].attempts)
          /\ q.nodes[n].attempts = Append(r.nodes[n].attempts, "running")
    BY <2>2, <2>3, StartedStanding
  <2>5. Kept(r, q)
    BY <2>2, <2>4 DEF Kept, SameStanding, SameReadiness
  <2>6. CompletionOf(q)
    BY <1>2, <2>2 DEF CompletionOf
  <2> QED
    BY <2>1, <2>2, <2>4, <2>5, <2>6, KeptFollows
<1> QED
  BY <1>1, <1>2 DEF Starts

(***************************************************************************)
(* Every step appends at most three events that start nothing, and then    *)
(* may start attempts.                                                     *)
(***************************************************************************)
Appends(r, q) ==
    \E r1, r2, r3 \in WorkflowRun : Event(r, r1) /\ Event(r1, r2) /\ Event(r2, r3) /\ Starts(r3, q)

\* Fewer events than three.
LEMMA Appended ==
    ASSUME NEW r \in WorkflowRun, NEW r1 \in WorkflowRun, Event(r, r1), NEW q
    PROVE  /\ Starts(r1, q) => Appends(r, q)
           /\ \A r2 \in WorkflowRun : Event(r1, r2) /\ Starts(r2, q) => Appends(r, q)
           /\ \A r2, r3 \in WorkflowRun :
                Event(r1, r2) /\ Event(r2, r3) /\ Starts(r3, q) => Appends(r, q)
<1>1. \A any : Event(any, any)
  BY DEF Event
<1> HIDE DEF Event
<1> QED
  BY <1>1 DEF Appends
\* Recovery is a set of reports, as is the reconciliation of a run_ready that returns.
LEMMA RecoveredEvent ==
    ASSUME NEW r, RunInv(r), NEW c \in Children
    PROVE  /\ Event(r, Recovered(r, c)) /\ Recovered(r, c) \in WorkflowRun
           /\ Event(r, Reconciled(r, c)) /\ Reconciled(r, c) \in WorkflowRun
<1> DEFINE written == [n \in Node |-> RecoveryOutcome(r, c, n)]
           told == [n \in Node |-> ForegroundOutcome(r.nodes[n], LastChild(c, n, r.nodes[n]))]
<1>1. /\ written \in Outcomes
      /\ \A n \in Node : written[n] # "none" => LastAttempt(r.nodes[n]) \in LiveAttempt
  BY RecoveryOutcomeType DEF Outcomes
<1>2. /\ told \in Outcomes
      /\ \A n \in Node : told[n] # "none" => LastAttempt(r.nodes[n]) \in LiveAttempt
  BY RecoveryOutcomeType DEF Outcomes
<1>3. Recovered(r, c) = Settled(r, written) /\ Reconciled(r, c) = Settled(r, told)
  BY DEF Recovered, Reconciled
<1> HIDE DEF written, told
<1>4. Event(r, Recovered(r, c)) /\ Event(r, Reconciled(r, c))
  BY <1>1, <1>2, <1>3 DEF Event
<1> QED
  BY <1>4, RecoveredInv DEF RunInv

\* The scheduler starts attempts of an active run, by run_ready or a worker that goes on.
LEMMA LaunchStarts ==
    ASSUME NEW r, r.status = "active", NEW s \in Sched, NEW batch \in SUBSET Node,
           Launch(r, s, batch)
    PROVE  Starts(r, run')
<1>1. PICK starting \in SUBSET batch :
        (\A n \in starting : MayStart(r, n)) /\ run' = NodesStarted(r, starting)
  BY DEF Launch
<1>2. starting \in SUBSET Node
  BY <1>1
<1> QED
  BY <1>1, <1>2 DEF Starts

\* run_ready on the ready nodes.
LEMMA RunReadyStarts ==
    ASSUME NEW r, RunReadyFrom(r)
    PROVE  Starts(r, run')
<1>1. PICK s \in Sched : Launch(r, s, ReadyBatch(r)) /\ r.status = "active"
  BY DEF RunReadyFrom
<1>2. ReadyBatch(r) \in SUBSET Node
  BY DEF ReadyBatch, ReadyNodes
<1> QED
  BY <1>1, <1>2, LaunchStarts

\* A worker that goes on or returns.
LEMMA NextLaunchStarts ==
    ASSUME NEW r, NEW s \in Sched, NEW landed \in Node, NextLaunch(r, s, landed)
    PROVE  Starts(r, run')
<1>1. \/ run' = r
      \/ /\ r.status = "active"
         /\ \E n \in Node : MayStart(r, n) /\ run' = NodesStarted(r, {n})
  BY DEF NextLaunch, WorkerGoesOn, ReadyNodes
<1>2. CASE \E n \in Node : MayStart(r, n) /\ run' = NodesStarted(r, {n})
  <2>1. PICK n \in Node : MayStart(r, n) /\ run' = NodesStarted(r, {n})
    BY <1>2
  <2>2. {n} \in SUBSET Node /\ \A m \in {n} : MayStart(r, m)
    BY <2>1
  <2> QED
    BY <1>1, <2>1, <2>2 DEF Starts
<1> QED
  BY <1>1, <1>2 DEF Starts

\* The answers of children, and what the workers do with them.
LEMMA LandAppends ==
    ASSUME IInv, NEW s \in Sched, NEW n \in Node, NEW answer \in Answers, Land(s, n, answer)
    PROVE  Appends(run, run')
<1> DEFINE k == sched[s].flights[n]
           aborted == sched[s].aborted \/ n \in sched[s].nodeAborted
           outcome == AttemptOutcome(answer, aborted)
           next == NodeReported(run, n, k, outcome)
           after == AfterAnswer(run, n, k, answer, aborted)
<1>1. RunInv(run) /\ sched[s] \in Scheduler
  BY DEF IInv, TypeOK
<1>2. ReportTakes(run, n, k) /\ NextLaunch(after, s, n)
  BY DEF Land
<1>3. outcome \in AttemptState \ {"running"} /\ k \in Nat
  BY <1>1, WorkflowAssumption
     DEF AttemptOutcome, AttemptState, LiveAttempt, TerminalAttempt, Scheduler
<1>4. after \in {next, StatusChanged(next, "paused")}
  BY DEF AfterAnswer
<1> HIDE DEF k, outcome, after
<1>5. RunInv(next) /\ RunInv(after)
  BY <1>1, <1>2, <1>3, <1>4, NodeReportedInv, StatusChangedInv DEF RunStatus
<1>6. Event(run, next) /\ Event(next, after)
  BY <1>2, <1>3, <1>4 DEF Event, RunStatus
<1>7. Starts(after, run')
  BY <1>2, NextLaunchStarts
<1> QED
  BY <1>1, <1>5, <1>6, <1>7, Appended DEF RunInv

\* The tool calls that start schedulers.
LEMMA StartingStepAppends ==
    ASSUME IInv, RunReady \/ (\E n \in Node : RetryNode(n)) \/ Resume \/ SessionStart
    PROVE  Appends(run, run')
<1> DEFINE r == Resolved
<1>1. /\ run \in WorkflowRun /\ r \in WorkflowRun /\ RunInv(run) /\ RunInv(r)
      /\ Event(run, r) /\ Event(run, run)
  BY ResolvedInv, RecoveredEvent DEF IInv, RunInv, Resolved, TypeOK, Children, Event
<1> HIDE DEF r
<1>2. CASE RunReady
  BY <1>1, <1>2, RunReadyStarts, Appended DEF RunReady, r
<1>3. ASSUME NEW n \in Node, RetryNode(n)
      PROVE  Appends(run, run')
  <2>1. PICK s \in Sched : Launch(r, s, {n}) /\ r.status = "active"
    BY <1>3 DEF RetryNode, r
  <2>2. Starts(r, run')
    BY <2>1, LaunchStarts
  <2> QED
    BY <1>1, <2>2, Appended
<1>4. CASE Resume
  <2> DEFINE active == StatusChanged(r, "active")
             again == Recovered(active, child)
  <2>1. RunInv(active) /\ Event(r, active)
    BY <1>1, StatusChangedInv DEF RunStatus, Event
  <2>2. child \in Children
    BY DEF IInv, TypeOK, Children
  <2>3. active \in WorkflowRun /\ again \in WorkflowRun /\ Event(active, again)
    BY <2>1, <2>2, RecoveredEvent DEF RunInv
  <2>4. RunReadyFrom(again) \/ run' \in {active, again}
    BY <1>4 DEF Resume, r
  <2> HIDE DEF active, again
  <2>5. CASE RunReadyFrom(again)
    BY <1>1, <2>1, <2>3, <2>5, RunReadyStarts, Appended
  <2>6. CASE run' = active
    BY <1>1, <2>1, <2>3, <2>6, Appended DEF Starts
  <2>7. CASE run' = again
    BY <1>1, <2>1, <2>3, <2>7, Appended DEF Starts
  <2> QED
    BY <2>4, <2>5, <2>6, <2>7
<1>5. CASE SessionStart
  <2>1. RunReadyFrom(r) \/ run' \in {r, run}
    BY <1>5 DEF SessionStart, r
  <2> QED
    BY <1>1, <2>1, RunReadyStarts, Appended DEF Starts
<1> QED
  BY <1>2, <1>3, <1>4, <1>5
\* The calls of the Supervisor that start nothing.
LEMMA DecisionAppends ==
    ASSUME IInv, Decision
    PROVE  Appends(run, run')
<1> DEFINE r == Resolved
<1>1. /\ run \in WorkflowRun /\ r \in WorkflowRun /\ RunInv(r) /\ Event(run, r)
  BY ResolvedInv, RecoveredEvent DEF IInv, RunInv, Resolved, TypeOK, Children
<1> HIDE DEF r
<1>2. \A q : Starts(q, q)
  BY DEF Starts
<1>3. ASSUME NEW q, RunInv(q), Event(r, q), run' = q
      PROVE  Appends(run, run')
  BY <1>1, <1>2, <1>3, Appended DEF RunInv
<1>4. ASSUME NEW q, RunInv(q), Event(r, q), NEW s \in RunStatus, s # "completed",
             run' = StatusChanged(q, s)
      PROVE  Appends(run, run')
  <2>1. Event(q, run') /\ RunInv(run')
    BY <1>4, StatusChangedInv DEF Event
  <2> QED
    BY <1>1, <1>2, <1>4, <2>1, Appended DEF RunInv
<1>5. RunStatus = {"active", "paused", "stopped", "completed"}
  BY DEF RunStatus
<1>6. ASSUME NEW p \in Plans, ApplyPlan(p)
      PROVE  Appends(run, run')
  BY <1>1, <1>3, <1>6, PlanAppliedInv DEF ApplyPlan, Event, r
<1>7. CASE ReadRun \/ \E n \in Node : UpdateNode(n)
  BY <1>1, <1>3, <1>7 DEF ReadRun, UpdateNode, Event, r
<1>8. ASSUME NEW n \in Node, CancelWaiting(n)
      PROVE  Appends(run, run')
  <2> DEFINE k == Len(r.nodes[n].attempts)
             q == NodeReported(r, n, k, "cancelled")
  <2>1. NodeInv(r.nodes[n]) /\ r.nodes[n].status = "waiting" /\ run' = q
    BY <1>1, <1>8 DEF CancelWaiting, RunInv, r
  <2>2. k \in Nat /\ ReportTakes(r, n, k)
    <3>1. r.nodes[n] \in WorkflowNode /\ LastAttempt(r.nodes[n]) = "waiting"
      BY <2>1 DEF NodeInv, CoherentNode, LiveAttempt
    <3> QED
      BY <3>1, LastAttemptType DEF ReportTakes, LiveAttempt
  <2>3. "cancelled" \in AttemptState \ {"running"}
    BY DEF AttemptState, TerminalAttempt
  <2>4. RunInv(q) /\ Event(r, q)
    BY <1>1, <2>2, <2>3, NodeReportedInv DEF Event
  <2> QED
    BY <1>3, <2>1, <2>4
<1>9. ASSUME NEW n \in Node, CancelIdle(n)
      PROVE  Appends(run, run')
  BY <1>1, <1>3, <1>9, NodeCancelledInv DEF CancelIdle, Event, r
<1>10. ASSUME NEW n \in Node, Accept(n)
       PROVE  Appends(run, run')
  BY <1>1, <1>3, <1>10, NodeAcceptedInv DEF Accept, Event, r
<1>11. ASSUME NEW n \in Node, Reject(n)
       PROVE  Appends(run, run')
  BY <1>1, <1>3, <1>11, NodeRejectedInv DEF Reject, Event, r
<1>12. ASSUME NEW n \in Node, NEW by \in Node, Supersede(n, by)
       PROVE  Appends(run, run')
  <2> DEFINE q == NodeSuperseded(r, n, by)
  <2>1. RunInv(q) /\ Event(r, q)
    BY <1>1, <1>12, NodeSupersededInv DEF Supersede, Event, r
  <2>2. run' = q \/ run' = StatusChanged(q, "active")
    BY <1>12 DEF Supersede, Revived, r
  <2> HIDE DEF q
  <2> QED
    BY <1>3, <1>4, <1>5, <2>1, <2>2
<1>13. ASSUME NEW n \in Node, NEW additional \in ReopenBy, Reopen(n, additional)
       PROVE  Appends(run, run')
  <2> DEFINE q == NodeReopened(r, n, additional)
  <2>1. additional \in Nat
    BY WorkflowAssumption
  <2>2. RunInv(q) /\ Event(r, q)
    BY <1>1, <1>13, <2>1, NodeReopenedInv DEF Reopen, Event, r
  <2>3. run' = q \/ run' = StatusChanged(q, "active")
    BY <1>13 DEF Reopen, Revived, r
  <2> HIDE DEF q
  <2> QED
    BY <1>3, <1>4, <1>5, <2>2, <2>3
<1>14. CASE Pause
  <2>1. Event(r, r) /\ run' = StatusChanged(r, "paused")
    BY <1>14 DEF Pause, Event, r
  <2> QED
    BY <1>1, <1>4, <1>5, <2>1
<1>15. CASE Stop
  <2> DEFINE q == WaitingCancelled(r)
             outcomes == [n \in Node |-> IF r.nodes[n].status = "waiting"
                                         THEN "cancelled" ELSE "none"]
  <2>1. \A n \in Node : r.nodes[n].status = "waiting" => LastAttempt(r.nodes[n]) \in LiveAttempt
    BY <1>1 DEF RunInv, NodeInv, CoherentNode, LiveAttempt
  <2>2. outcomes \in Outcomes
    BY DEF Outcomes, AttemptState, TerminalAttempt
  <2>3. Event(r, q)
    BY <2>1, <2>2 DEF Event, WaitingCancelled
  <2>4. RunInv(q) /\ run' = StatusChanged(q, "stopped")
    BY <1>1, <1>15, WaitingCancelledInv DEF Stop, r
  <2> HIDE DEF q
  <2> QED
    BY <1>4, <1>5, <2>3, <2>4
<1>16. CASE Complete
  BY <1>1, <1>3, <1>5, <1>16, StatusChangedInv DEF Complete, Event, r
<1>17. CASE QualityGateFails
  <2>1. Event(r, r) /\ run' \in {r, StatusChanged(r, "stopped")}
    BY <1>17 DEF QualityGateFails, AfterRefusal, Event, r
  <2> QED
    BY <1>1, <1>3, <1>4, <1>5, <2>1
<1> QED
  BY <1>6, <1>7, <1>8, <1>9, <1>10, <1>11, <1>12, <1>13, <1>14, <1>15, <1>16, <1>17 DEF Decision

\* The rest: a run_ready that returns, what only signals, and the surroundings.
LEMMA OtherStepAppends ==
    ASSUME IInv,
           \/ \E s \in Sched : RunReadyReturns(s) \/ CallerAborts(s)
           \/ \E s \in Sched, n \in Node : WorkerThrows(s, n) \/ CancelRunning(s, n)
           \/ Surroundings
    PROVE  Appends(run, run')
<1>1. RunInv(run) /\ run \in WorkflowRun /\ child \in Children /\ child' \in Children
  <2>1. StateInvNext
    BY SchedulerStepInv, SurroundingsInv
  <2> QED
    BY <2>1 DEF IInv, TypeOK, Children, RunInv, StateInvNext, StateInv
<1>2. run' \in {run, Reconciled(run, child), Recovered(run, child), Recovered(run, child')}
  BY DEF RunReadyReturns, CallerAborts, WorkerThrows, CancelRunning, Surroundings,
         ChildEnds, ChildTells, DeadlinePasses, Crash, Resolved
<1>3. \A q : Starts(q, q) /\ Event(q, q)
  BY DEF Starts, Event
<1>4. run' \in WorkflowRun /\ Event(run, run')
  BY <1>1, <1>2, <1>3, RecoveredEvent
<1> QED
  BY <1>1, <1>3, <1>4, Appended

\* Every step is a sequence of events.
LEMMA StepAppends ==
    ASSUME IInv, [Next]_vars
    PROVE  Appends(run, run')
<1>1. CASE UNCHANGED vars
  <2>1. Event(run, run) /\ Starts(run, run') /\ run \in WorkflowRun
    BY <1>1 DEF Event, Starts, vars, IInv, TypeOK
  <2> QED
    BY <2>1, Appended
<1>2. CASE Next
  <2>1. \/ \E s \in Sched, n \in Node, answer \in Answers : Land(s, n, answer)
        \/ \E s \in Sched : RunReadyReturns(s) \/ CallerAborts(s)
        \/ \E s \in Sched, n \in Node : WorkerThrows(s, n) \/ CancelRunning(s, n)
        \/ RunReady \/ (\E n \in Node : RetryNode(n)) \/ Resume \/ SessionStart
        \/ Decision
        \/ Surroundings
    BY <1>2 DEF Next, Persists, Reads, Elsewhere, Decision, Surroundings
  <2> QED
    BY <2>1, LandAppends, StartingStepAppends, DecisionAppends, OtherStepAppends
<1> QED
  BY <1>1, <1>2
-----------------------------------------------------------------------------
(***************************************************************************)
(* What events in sequence do to the attempts of a node.                   *)
(***************************************************************************)

\* The open attempt, once moved, is still the last.
LEMMA MovedHistory ==
    ASSUME NEW h \in Seq(AttemptState), Ledger!EndsOpen(h), NEW to \in AttemptState
    PROVE  /\ Ledger!Moved(h, to) \in Seq(AttemptState)
           /\ Len(Ledger!Moved(h, to)) = Len(h)
           /\ Ledger!Moved(h, to)[Len(h)] = to
           /\ \A k \in 1..Len(h) : k # Len(h) => Ledger!Moved(h, to)[k] = h[k]
           /\ Ledger!EndsOpen(Ledger!Moved(h, to)) <=> to \in LiveAttempt
           /\ \A other \in AttemptState :
                Ledger!Moved(Ledger!Moved(h, to), other) = Ledger!Moved(h, other)
<1> DEFINE g == Ledger!Moved(h, to)
<1>1. Len(h) \in 1..Len(h) /\ g = [h EXCEPT ![Len(h)] = to]
  BY DEF Ledger!EndsOpen, Ledger!Moved
<1>2. /\ g \in Seq(AttemptState)
      /\ Len(g) = Len(h)
      /\ g[Len(h)] = to
      /\ \A k \in 1..Len(h) : k # Len(h) => g[k] = h[k]
  BY <1>1, ExceptSeq
<1> HIDE DEF g
<1>3. Ledger!EndsOpen(g) <=> to \in LiveAttempt
  <2>1. g # <<>>
    BY <1>1, <1>2
  <2>2. g[Len(g)] = to
    BY <1>2
  <2> QED
    BY <2>1, <2>2 DEF Ledger!EndsOpen
<1>4. ASSUME NEW other \in AttemptState
      PROVE  Ledger!Moved(g, other) = Ledger!Moved(h, other)
  BY <1>1, <1>2 DEF Ledger!Moved
<1> QED
  BY <1>2, <1>3, <1>4 DEF g

\* Events in sequence settle what one of them may.
LEMMA SettlesTransitive ==
    ASSUME NEW u, u.attempts \in Seq(AttemptState), NEW v, Settles(u, v), NEW w, Settles(v, w)
    PROVE  Settles(u, w)
<1>1. CASE v.attempts = u.attempts \/ w.attempts = v.attempts
  BY <1>1 DEF Settles
<1>2. ASSUME NEW to \in AttemptState, NEW other \in AttemptState, Ledger!EndsOpen(u.attempts),
             v.attempts = Ledger!Moved(u.attempts, to),
             w.attempts = Ledger!Moved(v.attempts, other)
      PROVE  Settles(u, w)
  <2>1. w.attempts = Ledger!Moved(u.attempts, other)
    BY <1>2, MovedHistory
  <2> QED
    BY <1>2, <2>1 DEF Settles
<1> QED
  BY <1>1, <1>2 DEF Settles

\* A node that settles, and then may start, extends its history as the ledger says.
LEMMA SettlesAndStartsExtend ==
    ASSUME NEW u, u.attempts \in Seq(AttemptState), NEW v, Settles(u, v), NEW w,
           \/ w.attempts = v.attempts
           \/ /\ ~ Ledger!EndsOpen(v.attempts)
              /\ w.attempts = Append(v.attempts, "running")
    PROVE  Ledger!Extends(u.attempts, w.attempts)
<1>1. AttemptState = LiveAttempt \cup TerminalAttempt /\ "running" \in LiveAttempt
  BY DEF AttemptState, LiveAttempt
<1>2. CASE v.attempts = u.attempts
  BY <1>1, <1>2 DEF Ledger!Extends
<1>3. ASSUME NEW to \in AttemptState, Ledger!EndsOpen(u.attempts),
             v.attempts = Ledger!Moved(u.attempts, to)
      PROVE  Ledger!Extends(u.attempts, w.attempts)
  <2>1. CASE w.attempts = v.attempts
    BY <1>1, <1>3, <2>1 DEF Ledger!Extends
  <2>2. CASE ~ Ledger!EndsOpen(v.attempts) /\ w.attempts = Append(v.attempts, "running")
    <3>1. to \in TerminalAttempt
      BY <1>1, <1>3, <2>2, MovedHistory
    <3> QED
      BY <1>1, <1>3, <2>2, <3>1 DEF Ledger!Extends
  <2> QED
    BY <2>1, <2>2
<1> QED
  BY <1>2, <1>3 DEF Settles

\* What extends a history neither shortens it nor changes an attempt that has ended.
LEMMA ExtendsKeeps ==
    ASSUME NEW h \in Seq(AttemptState), NEW g, Ledger!Extends(h, g)
    PROVE  /\ Len(h) <= Len(g)
           /\ \A k \in 1..Len(h) : h[k] \in TerminalAttempt => g[k] = h[k]
<1>1. LiveAttempt \subseteq AttemptState /\ TerminalAttempt \subseteq AttemptState
      /\ LiveAttempt \cap TerminalAttempt = {}
  BY DEF AttemptState, LiveAttempt, TerminalAttempt
<1>2. CASE g = h
  BY <1>2
<1>3. ASSUME NEW to \in AttemptState, Ledger!EndsOpen(h), g = Ledger!Moved(h, to)
      PROVE  /\ Len(h) <= Len(g)
             /\ \A k \in 1..Len(h) : h[k] \in TerminalAttempt => g[k] = h[k]
  BY <1>1, <1>3, MovedHistory DEF Ledger!EndsOpen
<1>4. ASSUME NEW to \in LiveAttempt, g = Append(h, to)
      PROVE  /\ Len(h) <= Len(g)
             /\ \A k \in 1..Len(h) : h[k] \in TerminalAttempt => g[k] = h[k]
  BY <1>1, <1>4, AppendProperties
<1>5. ASSUME NEW end \in TerminalAttempt, NEW to \in LiveAttempt, Ledger!EndsOpen(h),
             g = Append(Ledger!Moved(h, end), to)
      PROVE  /\ Len(h) <= Len(g)
             /\ \A k \in 1..Len(h) : h[k] \in TerminalAttempt => g[k] = h[k]
  <2> DEFINE m == Ledger!Moved(h, end)
  <2>1. /\ m \in Seq(AttemptState) /\ Len(m) = Len(h)
        /\ \A k \in 1..Len(h) : k # Len(h) => m[k] = h[k]
    BY <1>1, <1>5, MovedHistory
  <2> HIDE DEF m
  <2>2. Len(g) = Len(h) + 1 /\ \A k \in 1..Len(h) : g[k] = m[k]
    BY <1>1, <1>5, <2>1, AppendProperties DEF m
  <2> QED
    BY <1>1, <1>5, <2>1, <2>2 DEF Ledger!EndsOpen
<1> QED
  BY <1>1, <1>2, <1>3, <1>4, <1>5 DEF Ledger!Extends
-----------------------------------------------------------------------------
(***************************************************************************)
(* Steps.                                                                  *)
(***************************************************************************)
SoundInv == IInv /\ Sound(run)

\* A run of the invariant keeps it, whatever a step appends.
LEMMA AppendsFollow ==
    ASSUME NEW r, Sound(r), NEW q, Appends(r, q)
    PROVE  /\ Sound(q)
           /\ Satisfied(r) \subseteq Satisfied(q)
           /\ \A n \in Node : Ledger!Extends(r.nodes[n].attempts, q.nodes[n].attempts)
           /\ \A n \in Node : Len(r.nodes[n].attempts) < Len(q.nodes[n].attempts)
                                => q.status = "active"
<1>1. PICK r1, r2, r3 \in WorkflowRun :
         Event(r, r1) /\ Event(r1, r2) /\ Event(r2, r3) /\ Starts(r3, q)
  BY DEF Appends
<1>2. Follows(r, r1)
  BY <1>1, EventFollows
<1>3. Follows(r1, r2)
  BY <1>1, <1>2, EventFollows DEF Follows
<1>4. Follows(r2, r3)
  BY <1>1, <1>3, EventFollows DEF Follows
<1>5. /\ Sound(q)
      /\ Satisfied(r3) \subseteq Satisfied(q)
      /\ q.status = r3.status
      /\ \A n \in Node :
           \/ q.nodes[n].attempts = r3.nodes[n].attempts
           \/ /\ r3.status = "active"
              /\ ~ Ledger!EndsOpen(r3.nodes[n].attempts)
              /\ q.nodes[n].attempts = Append(r3.nodes[n].attempts, "running")
  BY <1>1, <1>4, StartsFollow DEF Follows
<1>6. \A n \in Node : r.nodes[n].attempts \in Seq(AttemptState)
  BY NodeFields DEF Sound, RunInv, NodeInv
<1>7. ASSUME NEW n \in Node
      PROVE  Settles(r.nodes[n], r3.nodes[n])
  <2>1. Settles(r.nodes[n], r1.nodes[n]) /\ Settles(r1.nodes[n], r2.nodes[n])
        /\ Settles(r2.nodes[n], r3.nodes[n])
    BY <1>2, <1>3, <1>4 DEF Follows
  <2>2. Settles(r.nodes[n], r2.nodes[n])
    BY <1>6, <2>1, SettlesTransitive
  <2> QED
    BY <1>6, <2>1, <2>2, SettlesTransitive
<1>8. ASSUME NEW n \in Node
      PROVE  Ledger!Extends(r.nodes[n].attempts, q.nodes[n].attempts)
  BY <1>5, <1>6, <1>7, SettlesAndStartsExtend
<1>9. ASSUME NEW n \in Node, Len(r.nodes[n].attempts) < Len(q.nodes[n].attempts)
      PROVE  q.status = "active"
  <2>1. Len(r3.nodes[n].attempts) = Len(r.nodes[n].attempts)
    BY <1>6, <1>7, MovedHistory DEF Settles
  <2>2. Len(r.nodes[n].attempts) \in Nat
    BY <1>6
  <2>3. q.nodes[n].attempts # r3.nodes[n].attempts
    BY <1>9, <2>1, <2>2
  <2> QED
    BY <1>5, <2>3
<1> QED
  BY <1>2, <1>3, <1>4, <1>5, <1>8, <1>9 DEF Follows

\* The run that begins has no node to be ready, superseded or adjudicated.
LEMMA SoundInit == Init => SoundInv
<1> SUFFICES ASSUME Init PROVE SoundInv
  OBVIOUS
<1>1. IInv
  BY InitInv
<1>2. PICK kind \in Kind : run = WorkflowStarted(kind)
  BY WorkflowAssumption DEF Init
<1>3. run.status = "active" /\ \A n \in Node : run.nodes[n].status = "absent"
  BY <1>2 DEF WorkflowStarted
<1>4. Superseded(run) = {}
  BY <1>3 DEF Superseded
<1>5. ReadinessOf(run) /\ CompletionOf(run) /\ LinksOf(run) /\ LooplessOf(run)
  BY <1>3, <1>4 DEF ReadinessOf, CompletionOf, LinksOf, LooplessOf
<1> QED
  BY <1>1, <1>5 DEF SoundInv, Sound, IInv

\* The invariants of the run are inductive together.
LEMMA SoundNext == SoundInv /\ [Next]_vars => SoundInv'
<1> SUFFICES ASSUME SoundInv, [Next]_vars PROVE SoundInv'
  OBVIOUS
<1>1. IInv'
  BY NextInv DEF SoundInv
<1>2. Sound(run')
  BY StepAppends, AppendsFollow DEF SoundInv
<1>3. Sound(run)'
  BY <1>2 DEF Sound, RunInv, NodeInv, ReadinessOf, LinksOf, LooplessOf, CompletionOf, Superseded
<1> QED
  BY <1>1, <1>3 DEF SoundInv

(***************************************************************************)
(* "ready" is current in every reachable state, for any graph of nodes and *)
(* any menu of plans: no node waits whose dependencies are accepted, and   *)
(* none may start before they are.                                         *)
(***************************************************************************)
THEOREM ReadinessHolds == Spec => []ReadinessCurrent
<1>1. SoundInv => ReadinessCurrent
  BY DEF SoundInv, Sound, ReadinessOf, ReadinessCurrent
<1> QED
  BY <1>1, SoundInit, SoundNext, PTL DEF Spec

(***************************************************************************)
(* Supersession never loops and never leads to a node that was not         *)
(* accepted, whatever is replaced, superseded and planned anew.            *)
(***************************************************************************)
THEOREM SupersessionHolds == Spec => []SupersessionResolves
<1>1. SoundInv => SupersessionResolves
  BY DEF SoundInv, Sound, LinksOf, LooplessOf, SupersessionResolves
<1> QED
  BY <1>1, SoundInit, SoundNext, PTL DEF Spec

(***************************************************************************)
(* A completed run has adjudicated whatever ran, and stays so.             *)
(***************************************************************************)
THEOREM CompletionHolds == Spec => []CompletedRunSettled
<1>1. SoundInv => CompletedRunSettled
  BY DEF SoundInv, Sound, CompletionOf, CompletedRunSettled
<1> QED
  BY <1>1, SoundInit, SoundNext, PTL DEF Spec

(***************************************************************************)
(* The attempt history is immutable, for any length of it.                 *)
(***************************************************************************)
THEOREM HistoryImmutable == Spec => AttemptHistoryImmutable
<1>1. SoundInv /\ [Next]_vars => \A n \in Node : KeepsHistory(run.nodes[n], run'.nodes[n])
  <2> SUFFICES ASSUME SoundInv, [Next]_vars, NEW n \in Node
               PROVE  KeepsHistory(run.nodes[n], run'.nodes[n])
    OBVIOUS
  <2>1. Ledger!Extends(run.nodes[n].attempts, run'.nodes[n].attempts)
    BY StepAppends, AppendsFollow DEF SoundInv
  <2>2. run.nodes[n].attempts \in Seq(AttemptState)
    BY NodeFields DEF SoundInv, Sound, RunInv, NodeInv
  <2> QED
    BY <2>1, <2>2, ExtendsKeeps DEF KeepsHistory
<1> QED
  BY <1>1, SoundInit, SoundNext, PTL DEF Spec, AttemptHistoryImmutable

(***************************************************************************)
(* No attempt starts in a run that is paused, stopped or completed,        *)
(* however many schedulers are under way.                                  *)
(***************************************************************************)
THEOREM PauseHolds == Spec => StartsOnlyWhenActive
<1>1. SoundInv /\ [Next]_vars => \A n \in Node : Begins(n) => run'.status = "active"
  BY StepAppends, AppendsFollow DEF SoundInv, Begins
<1> QED
  BY <1>1, SoundInit, SoundNext, PTL DEF Spec, StartsOnlyWhenActive

-----------------------------------------------------------------------------
(***************************************************************************)
(* The refinement.                                                         *)
(***************************************************************************)
\* Nothing satisfies but by an accepted node, whose last attempt is completed.
LEMMA SatisfiedByCompletion ==
    ASSUME NEW r, RunInv(r), Satisfied(r) # {}
    PROVE  \E n \in Satisfied(r) : Ledger!EndsCompleted(r.nodes[n].attempts)
<1>1. PICK d \in Node : dependencyIsAccepted(r, d)
  BY DEF Satisfied
<1>2. PICK n \in Node : r.nodes[n].status = "accepted"
  <2> SUFFICES ASSUME \A n \in Node : r.nodes[n].status # "accepted"
               PROVE  FALSE
    OBVIOUS
  <2>1. ClosedUnderSupersession(r, {})
    BY DEF ClosedUnderSupersession
  <2> QED
    BY <1>1, <2>1 DEF dependencyIsAccepted
<1>3. r.nodes[n].attempts # <<>> /\ Ledger!EndsCompleted(r.nodes[n].attempts)
  <2>1. LastAttempt(r.nodes[n]) = "completed"
    BY <1>2 DEF RunInv, NodeInv, CoherentNode
  <2> QED
    BY <2>1 DEF LastAttempt, Ledger!EndsCompleted
<1>4. dependencyIsAccepted(r, n)
  BY <1>2 DEF dependencyIsAccepted, ClosedUnderSupersession
<1> QED
  BY <1>3, <1>4 DEF Satisfied

\* A step of the engine is a step of the ledger, or none.
LEMMA StepRefines ==
    ASSUME SoundInv, [Next]_vars
    PROVE  Ledger!Next
<1>1. Appends(run, run')
  BY StepAppends DEF SoundInv
<1>2. /\ Sound(run')
      /\ Satisfied(run) \subseteq Satisfied(run')
      /\ \A n \in Node : Ledger!Extends(run.nodes[n].attempts, run'.nodes[n].attempts)
  BY <1>1, AppendsFollow DEF SoundInv
<1>3. Satisfied(run') # Satisfied(run) =>
        \E n \in Satisfied(run') : Ledger!EndsCompleted(run'.nodes[n].attempts)
  BY <1>2, SatisfiedByCompletion DEF Sound
<1>4. \A n \in Satisfied(run') : n \in Node
  BY DEF Satisfied
<1> QED
  BY <1>2, <1>3, <1>4 DEF Ledger!Next, Satisfied

(***************************************************************************)
(* The engine implements the ledger: what it promises to an auditor holds  *)
(* for any graph, plans, schedulers, answers, crashes and faults.          *)
(***************************************************************************)
THEOREM LedgerImplemented == Spec => ImplementsLedger
<1>1. Init => Ledger!Init
  <2> SUFFICES ASSUME Init PROVE Ledger!Init
    OBVIOUS
  <2>1. PICK kind \in Kind : run = WorkflowStarted(kind)
    BY WorkflowAssumption DEF Init
  <2>2. \A n \in Node : run.nodes[n].attempts = <<>>
    BY <2>1 DEF WorkflowStarted
  <2> QED
    BY <2>2 DEF Ledger!Init
<1>2. SoundInv /\ [Next]_vars => Ledger!Next
  BY StepRefines
<1> QED
  BY <1>1, <1>2, SoundInit, SoundNext, PTL DEF Spec, ImplementsLedger, Ledger!Spec
=================================================================================
