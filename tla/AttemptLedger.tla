----------------------------- MODULE AttemptLedger -----------------------------
(***************************************************************************)
(* What a workflow run promises to whoever audits it, whatever schedulers, *)
(* children, crashes and Supervisors do: for each node a history of        *)
(* attempts that only grows, in which at most the last attempt is open and *)
(* an attempt that has ended never changes; and a set of nodes whose       *)
(* result satisfies their dependents, which only grows, and only by a      *)
(* completed attempt.                                                      *)
(***************************************************************************)
EXTENDS Naturals, Sequences

CONSTANTS
    Node,
    Open,   \* states of an attempt that goes on
    Closed  \* states of an attempt that has ended, disjoint from Open

VARIABLES
    history,   \* the attempts of each node
    satisfied  \* the nodes that have run and whose dependents may use a result

Init ==
    /\ history = [n \in Node |-> <<>>]
    /\ satisfied = {}

EndsOpen(h) == h # <<>> /\ h[Len(h)] \in Open
EndsCompleted(h) == h # <<>> /\ h[Len(h)] = "completed"

\* The open attempt of a history moves on: it may end.
Moved(h, to) == [h EXCEPT ![Len(h)] = to]

\* One step may end an attempt and start the next: a retry first settles what
\* a crash left open.
Extends(old, new) ==
    \/ new = old
    \/ EndsOpen(old) /\ \E to \in Open \cup Closed : new = Moved(old, to)
    \/ ~ EndsOpen(old) /\ \E to \in Open : new = Append(old, to)
    \/ EndsOpen(old) /\ \E end \in Closed, to \in Open : new = Append(Moved(old, end), to)

Next ==
    /\ DOMAIN history' = Node
    /\ \A n \in Node : Extends(history[n], history'[n])
    /\ satisfied \subseteq satisfied'
    /\ satisfied' # satisfied => \E n \in satisfied' : EndsCompleted(history'[n])

Spec == Init /\ [][Next]_<<history, satisfied>>
===============================================================================
