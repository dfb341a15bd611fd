--------------------------- MODULE WorkflowReducer ---------------------------
(***************************************************************************)
(* The pure reducer of a Supervisor workflow: what each event of the log   *)
(* does to the WorkflowRun it is folded into (src/workflows/reducer.ts),   *)
(* and the graph questions the reducer asks (effective-nodes.ts,           *)
(* retry-policy.ts).                                                       *)
(*                                                                         *)
(* Every event has two operators: one that says when the reducer takes it  *)
(* (the negation of its throws) and one that gives the run it returns.     *)
(* A run is a value, so the same operators serve the controller, the       *)
(* scheduler, recovery, and a fold over the log.                           *)
(*                                                                         *)
(* A definition marked "Bug:" is not of the code. It is a slip the code    *)
(* might have had, put in the place of the definition below it to see that *)
(* a property notices (PROJECT.json, "mutants").                           *)
(***************************************************************************)
EXTENDS Naturals, Sequences, FiniteSets

CONSTANTS
    Node,            \* work-unit ids a plan may use
    Kind,            \* node kinds the checks compare
    NoNode,          \* an absent `replaces` or `supersededBy`
    MaxNodeAttempts, \* run.maxNodeAttempts, the default attempt ceiling
    MaxNodes         \* run.maxNodes, the work-unit budget of the run

ASSUME ReducerAssumption ==
    /\ NoNode \notin Node
    /\ MaxNodeAttempts \in Nat \ {0}
    /\ MaxNodes \in Nat

(***************************************************************************)
(* Data. "fatal" is a failed attempt whose failure is not retryable.       *)
(* maxAttempts = 0 is a node without a ceiling of its own.                 *)
(***************************************************************************)
LiveAttempt == {"running", "waiting"}
TerminalAttempt == {"completed", "failed", "fatal", "cancelled"}
AttemptState == LiveAttempt \cup TerminalAttempt

NodeStatus == {"absent", "pending", "ready", "running", "waiting", "completed",
               "failed", "cancelled", "accepted", "rejected", "superseded"}
RunStatus == {"active", "paused", "stopped", "completed"}

WorkUnit == [dependsOn : SUBSET Node, replaces : Node \cup {NoNode}, kind : Kind]

WorkflowNode ==
    [status : NodeStatus, attempts : Seq(AttemptState), maxAttempts : Nat,
     dependsOn : SUBSET Node, replaces : Node \cup {NoNode}, kind : Kind,
     supersededBy : Node \cup {NoNode}]

WorkflowRun ==
    [status : RunStatus, nodes : [Node -> WorkflowNode], repair : SUBSET Node]

Planned(r) == {n \in Node : r.nodes[n].status # "absent"}

LastAttempt(v) == IF v.attempts = <<>> THEN "none" ELSE v.attempts[Len(v.attempts)]

\* The run of workflow.started: active, without nodes.
WorkflowStarted(kind) ==
    [status |-> "active",
     nodes  |-> [n \in Node |->
                  [status |-> "absent", attempts |-> <<>>, maxAttempts |-> 0,
                   dependsOn |-> {}, replaces |-> NoNode, kind |-> kind,
                   supersededBy |-> NoNode]],
     repair |-> {}]

(***************************************************************************)
(* Graph questions.                                                        *)
(***************************************************************************)

\* Following supersededBy from d ends at an accepted node. The loop with its
\* visited set is written as the least set that holds the accepted nodes and
\* every superseded node pointing into it: a chain that loops is in no such set.
ClosedUnderSupersession(r, S) ==
    \A n \in Node :
        \/ n \in S
        \/ /\ r.nodes[n].status # "accepted"
           /\ ~ (r.nodes[n].status = "superseded" /\ r.nodes[n].supersededBy \in S)

dependencyIsAccepted(r, d) ==
    \A S \in SUBSET Node : ClosedUnderSupersession(r, S) => d \in S

DependenciesAccepted(r, n) ==
    \A d \in r.nodes[n].dependsOn : dependencyIsAccepted(r, d)

\* No non-empty set of nodes where each depends on another of the set.
Acyclic(dependsOn) ==
    \A S \in SUBSET Node : S # {} => \E n \in S : dependsOn[n] \cap S = {}

\* Bug: one attempt too many.
AttemptsExhaustedLate(v) ==
    /\ v.status \in {"failed", "cancelled"}
    /\ Len(v.attempts) > IF v.maxAttempts = 0 THEN MaxNodeAttempts ELSE v.maxAttempts

workflowNodeAttemptsExhausted(v) ==
    /\ v.status \in {"failed", "cancelled"}
    /\ Len(v.attempts) >= IF v.maxAttempts = 0 THEN MaxNodeAttempts ELSE v.maxAttempts

isAdjudicatedStatus(s) == s \in {"accepted", "superseded", "rejected"}

refreshReadiness(r) ==
    [r EXCEPT !.nodes = [n \in Node |->
        IF r.nodes[n].status \in {"pending", "ready"}
        THEN [r.nodes[n] EXCEPT !.status =
                IF DependenciesAccepted(r, n) THEN "ready" ELSE "pending"]
        ELSE r.nodes[n]]]

(***************************************************************************)
(* workflow.plan_applied. A plan maps the ids it names to work units.      *)
(***************************************************************************)
ReplacesAllowed(r, p, n) ==
    LET t == p[n].replaces IN
    t # NoNode =>
        /\ t # n
        /\ r.nodes[t].status \in {"failed", "cancelled", "rejected", "pending", "ready"}
        /\ r.nodes[t].kind = p[n].kind

PlanTakes(r, p) ==
    /\ Cardinality(Planned(r) \cup DOMAIN p) <= MaxNodes
    /\ \A n \in DOMAIN p :
        /\ ReplacesAllowed(r, p, n)
        /\ r.nodes[n].attempts = <<>>
        /\ p[n].dependsOn \subseteq Planned(r) \cup DOMAIN p
    /\ Acyclic([n \in Node |-> IF n \in DOMAIN p THEN p[n].dependsOn
                                                 ELSE r.nodes[n].dependsOn])

Replanned(r, p) ==
    [n \in Node |->
        IF n \in DOMAIN p
        THEN [status |-> "pending", attempts |-> <<>>, maxAttempts |-> 0,
              dependsOn |-> p[n].dependsOn, replaces |-> p[n].replaces,
              kind |-> p[n].kind, supersededBy |-> NoNode]
        ELSE r.nodes[n]]

PlanApplied(r, p) ==
    refreshReadiness(
        [r EXCEPT !.nodes = Replanned(r, p),
                  !.repair = IF r.status = "stopped" \/ r.repair # {}
                             THEN @ \cup DOMAIN p ELSE @])

(***************************************************************************)
(* Attempt events. k is the attempt an event names.                        *)
(***************************************************************************)
NodeStartTakes(r, n) ==
    /\ ~ workflowNodeAttemptsExhausted(r.nodes[n])
    /\ r.nodes[n].status \in {"ready", "failed", "cancelled"}

Started(v) == [v EXCEPT !.status = "running", !.attempts = Append(@, "running")]

\* node.started for every node of a set.
NodesStarted(r, starting) ==
    [r EXCEPT !.nodes = [n \in Node |-> IF n \in starting THEN Started(r.nodes[n])
                                                         ELSE r.nodes[n]]]

\* Bug: an attempt that has ended takes another report.
ReportTakesAny(r, n, k) == k \in 1..Len(r.nodes[n].attempts)

ReportTakes(r, n, k) ==
    /\ k \in 1..Len(r.nodes[n].attempts)
    /\ r.nodes[n].attempts[k] \in LiveAttempt

\* node.waiting, node.completed, node.failed and node.cancelled of a live attempt.
Reported(v, k, outcome) ==
    [v EXCEPT !.status = IF outcome = "fatal" THEN "failed" ELSE outcome,
              !.attempts = [@ EXCEPT ![k] = outcome]]

NodeReported(r, n, k, outcome) == [r EXCEPT !.nodes[n] = Reported(@, k, outcome)]

\* node.cancelled that names no attempt of the node: only the status flips.
NodeCancelled(r, n) == [r EXCEPT !.nodes[n] = [@ EXCEPT !.status = "cancelled"]]

(***************************************************************************)
(* Supervisor decisions.                                                   *)
(***************************************************************************)
NodeAcceptTakes(r, n) ==
    LET t == r.nodes[n].replaces IN
    /\ r.nodes[n].status = "completed"
    /\ t # NoNode => r.nodes[t].status \notin LiveAttempt

\* Bug: the link to the replacement is not kept.
SupersededUnlinked(v, by) == [v EXCEPT !.status = "superseded"]

SupersededBy(v, by) == [v EXCEPT !.status = "superseded", !.supersededBy = by]

\* An accepted replacement retires the node it was planned to replace.
NodeAccepted(r, n) ==
    LET t == r.nodes[n].replaces
        retired == {m \in {t} \cap Planned(r) :
                        r.nodes[m].status \notin {"accepted", "superseded"}}
    IN  refreshReadiness(
          [r EXCEPT !.nodes = [m \in Node |->
             CASE m = n         -> [r.nodes[m] EXCEPT !.status = "accepted"]
               [] m # n /\ m \in retired -> SupersededBy(r.nodes[m], n)
               [] OTHER         -> r.nodes[m]]])

\* Bug: the replacement need not be accepted yet.
SupersedeTakesCompleted(r, n, by) ==
    /\ r.status # "completed"
    /\ n # by
    /\ r.nodes[n].status \notin LiveAttempt \cup {"superseded", "absent"}
    /\ r.nodes[by].status \in {"completed", "accepted"}
    /\ r.nodes[n].kind = r.nodes[by].kind

NodeSupersedeTakes(r, n, by) ==
    /\ r.status # "completed"
    /\ n # by
    /\ r.nodes[n].status \notin LiveAttempt \cup {"superseded", "absent"}
    /\ r.nodes[by].status = "accepted"
    /\ r.nodes[n].kind = r.nodes[by].kind

\* Bug: readiness is not refreshed.
NodeSupersededStale(r, n, by) == [r EXCEPT !.nodes[n] = SupersededBy(@, by)]

NodeSuperseded(r, n, by) ==
    refreshReadiness([r EXCEPT !.nodes[n] = SupersededBy(@, by)])

NodeReopenTakes(r, n) ==
    /\ r.status # "completed"
    /\ r.nodes[n].status \in {"failed", "cancelled"}

\* Bug: a reopened node starts its history afresh.
NodeReopenedAfresh(r, n, additional) ==
    [r EXCEPT !.nodes[n] = [@ EXCEPT !.maxAttempts = additional, !.attempts = <<>>]]

NodeReopened(r, n, additional) ==
    [r EXCEPT !.nodes[n] = [@ EXCEPT !.maxAttempts = Len(r.nodes[n].attempts) + additional]]

NodeRejectTakes(r, n) ==
    ~ (r.nodes[n].status \in LiveAttempt \/ isAdjudicatedStatus(r.nodes[n].status))

NodeRejected(r, n) == [r EXCEPT !.nodes[n] = [@ EXCEPT !.status = "rejected"]]

StatusChanged(r, s) ==
    [r EXCEPT !.status = s, !.repair = IF s = "completed" THEN {} ELSE @]
==============================================================================
