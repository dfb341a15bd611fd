----------------------------- MODULE MCComponents -----------------------------
(***************************************************************************)
(* One run for five components that share no state: each behaviour moves   *)
(* one of them and leaves the others where they began.                     *)
(***************************************************************************)
EXTENDS SessionRevival, Steering, Delegation, ForegroundGroup, Watchdog, TLC

CONSTANTS
    r1, r2, r3, q1, q2

VARIABLE
    focus       \* the component that moves

vars == <<focus, revivalVars, steeringVars, delegationVars, groupVars, watchdogVars>>

Revivals == {r1, r2, r3}
Steers == {q1, q2}

\* The requests of two steer calls are alike.
Alike == Permutations(Steers)

\* The contenders for a lease that nobody holds are those left when its holder has gone.
Contended == RevivalInit /\ lease.is = "owned"

Uncontended == RevivalInit /\ lease = Free
Unsteered == SteeringInit /\ source.whole /\ agent.steers
Undelegated == DelegationInit /\ bridge.context
Unwatched == WatchdogInit /\ dog.enabled

Init ==
    \/ focus = "revival" /\ Contended /\ Unsteered /\ Undelegated /\ GroupInit /\ Unwatched
    \/ focus = "steering" /\ Uncontended /\ SteeringInit /\ Undelegated /\ GroupInit /\ Unwatched
    \/ focus = "delegation" /\ Uncontended /\ Unsteered /\ DelegationInit /\ GroupInit /\ Unwatched
    \/ focus = "group" /\ Uncontended /\ Unsteered /\ Undelegated /\ GroupInit /\ Unwatched
    \/ focus = "watchdog" /\ Uncontended /\ Unsteered /\ Undelegated /\ GroupInit /\ WatchdogInit

Moves(component) == focus = component /\ UNCHANGED focus

Next ==
    \/ Moves("revival") /\ RevivalNext
       /\ UNCHANGED <<steeringVars, delegationVars, groupVars, watchdogVars>>
    \/ Moves("steering") /\ SteeringNext
       /\ UNCHANGED <<revivalVars, delegationVars, groupVars, watchdogVars>>
    \/ Moves("delegation") /\ DelegationNext
       /\ UNCHANGED <<revivalVars, steeringVars, groupVars, watchdogVars>>
    \/ Moves("group") /\ GroupNext
       /\ UNCHANGED <<revivalVars, steeringVars, delegationVars, watchdogVars>>
    \/ Moves("watchdog") /\ WatchdogNext
       /\ UNCHANGED <<revivalVars, steeringVars, delegationVars, groupVars>>

Spec == Init /\ [][Next]_vars
===============================================================================
