------------------------------ MODULE MCWorkflow ------------------------------
(***************************************************************************)
(* Plans for TLC. The Supervisor may apply any plan of the menu at any     *)
(* time, again too.                                                        *)
(***************************************************************************)
EXTENDS WorkflowProperties, TLC

CONSTANTS a, b, c, research, s1, s2

Unit(dependsOn, replaces, kind) ==
    [dependsOn |-> dependsOn, replaces |-> replaces, kind |-> kind]

\* b waits for a; c is planned to replace a.
ChainAndReplacement ==
    { (a :> Unit({}, NoNode, research)) @@ (b :> Unit({a}, NoNode, research)),
      c :> Unit({}, a, research) }

\* Two nodes that wait for nothing.
Pair == { (a :> Unit({}, NoNode, research)) @@ (b :> Unit({}, NoNode, research)) }

\* The nodes of Pair, and schedulers, are interchangeable.
Interchangeable == Permutations({a, b}) \cup Permutations({s1, s2})

\* A single node.
One == { a :> Unit({}, NoNode, research) }
===============================================================================
