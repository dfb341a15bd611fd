---------------------------- MODULE ForegroundGroup ----------------------------
(***************************************************************************)
(* A group of parallel children in the foreground (src/runs/foreground/    *)
(* executor-path-parallel-run.ts): one tool call of the parent starts      *)
(* them, each through runSync (execution.ts), and waits until every one    *)
(* has given a result or a receipt. A child that asks its supervisor       *)
(* (src/intercom/native-supervisor-channel.ts) is detached: the call goes  *)
(* on without it, and its end is told later (executor-control.ts).         *)
(*                                                                         *)
(* One group in a session that stays open. Interrupts, timeouts and turn   *)
(* budgets are ends of a child that need no step of their own; every child *)
(* is bridged to its supervisor. The request an attempt left behind is     *)
(* forgotten when its successor asks.                                      *)
(***************************************************************************)
EXTENDS Naturals, FiniteSets

CONSTANTS
    Tasks,      \* tasks of the group, with the indices 0..Tasks-1
    Workers     \* workers of mapConcurrent, the concurrency limit

ASSUME GroupAssumption == Tasks \in Nat \ {0} /\ Workers \in 1..Tasks

Index == 0..(Tasks - 1)

VARIABLES
    call,       \* the tool call: its state, whether its turn was aborted, workers that live
    control,    \* the entry of foregroundControls: in the map, its children and owners
    child,      \* of each task: the pipeline of runSync, and what its worker got
    ask,        \* of each task: whether its child waits for the supervisor, and its request
    killed,     \* tasks whose child was signalled by the abort of the turn
    remembered  \* foregroundRuns: the children the run shows, "none" for a hole

groupVars == <<call, control, child, ask, killed, remembered>>

\* A request file is new, or was seen and shown, or seen and not shown.
NoAsk == [waits |-> FALSE, request |-> "none"]
NewAsk == [waits |-> TRUE, request |-> "new"]

GroupInit ==
    /\ call = [state |-> "running", aborted |-> FALSE, workers |-> Workers]
    /\ control = [there |-> TRUE, active |-> 0..(Workers - 1), owners |-> 2]
    /\ child = [i \in Index |->
                  [pc |-> IF i < Workers THEN "up" ELSE "queued", handed |-> FALSE, gave |-> "nothing"]]
    /\ ask = [i \in Index |-> NoAsk]
    /\ killed = {}
    /\ remembered = [i \in Index |-> "none"]

Up(i) == child[i].pc = "up"

(***************************************************************************)
(* The control of the run is taken out of the map when nobody schedules    *)
(* children any more and none is active (removeForegroundControlIfIdle).   *)
(***************************************************************************)
RemovedIfIdle(c) == [c EXCEPT !.there = @ /\ (c.owners > 0 \/ c.active # {})]

\* Bug: a child gives up its control with its receipt.
ReleasedBy(i, what) == control.active \ {i}

\* A receipt leaves it to the child's end.
StillActive(i, what) == IF what = "receipt" THEN control.active ELSE control.active \ {i}

OwnersLeft(n) == [control EXCEPT !.owners = @ - n]

(***************************************************************************)
(* rememberForegroundRun, once every child has given something: the child  *)
(* of a receipt may have ended in the meantime.                            *)
(***************************************************************************)
\* Bug: the results are remembered as the call got them.
RememberedAsGiven(gave) == [i \in Index |-> IF gave[i] = "receipt" THEN "detached" ELSE "ended"]

RememberedAll(gave) ==
    [i \in Index |-> IF gave[i] = "receipt" /\ remembered[i] # "ended" THEN "detached" ELSE "ended"]

(***************************************************************************)
(* A worker that got a result or a receipt takes the next task, unless the *)
(* usage budget is spent: it skips what is left. A worker that got an      *)
(* error ends, and the call fails at once, while the others go on.         *)
(***************************************************************************)
Queued == {i \in Index : child[i].pc = "queued"}

TakesNext(what, skips) == what # "error" /\ Queued # {} /\ ~ skips

NextTask == CHOOSE i \in Queued : \A j \in Queued : i <= j

ChildrenAfter(i, what, skips) ==
    [j \in Index |->
        IF j = i THEN [child[j] EXCEPT !.gave = what, !.handed = what = "receipt",
                                       !.pc = IF what = "receipt" THEN @ ELSE "over"]
        ELSE IF j \in Queued /\ skips THEN [child[j] EXCEPT !.pc = "over", !.gave = "result"]
        ELSE IF TakesNext(what, skips) /\ j = NextTask THEN [child[j] EXCEPT !.pc = "up"]
        ELSE child[j]]

\* With the last worker, mapConcurrent lets go of the control; the call does when it ends.
Answered(i, what) ==
    \E skips \in BOOLEAN :
        LET goesOn == TakesNext(what, skips)
            active == StillActive(i, what) \cup (IF goesOn THEN {NextTask} ELSE {})
            workers == IF goesOn THEN call.workers ELSE call.workers - 1
            fails == what = "error" /\ call.state = "running"
            gave == [j \in Index |-> ChildrenAfter(i, what, skips)[j].gave]
            complete == call.state = "running" /\ \A j \in Index : gave[j] \notin {"nothing", "error"}
            owners == (IF workers = 0 THEN 1 ELSE 0) + (IF fails THEN 1 ELSE 0)
        IN
        /\ skips => Queued # {} /\ what # "error"
        /\ child' = ChildrenAfter(i, what, skips)
        /\ killed' = IF goesOn /\ call.aborted THEN killed \cup {NextTask} ELSE killed
        /\ control' = RemovedIfIdle([OwnersLeft(owners) EXCEPT !.active = active])
        /\ call' = [call EXCEPT !.workers = workers,
                                !.state = IF fails THEN "over" ELSE IF complete THEN "answering" ELSE @]
        /\ remembered' = IF complete THEN RememberedAll(gave) ELSE remembered

CallReturns ==
    /\ call.state = "answering"
    /\ call' = [call EXCEPT !.state = "over"]
    /\ control' = RemovedIfIdle(OwnersLeft(1))
    /\ UNCHANGED <<child, ask, killed, remembered>>

(***************************************************************************)
(* The abort of the parent's turn reaches the children that are attached   *)
(* (runSync: forwardOriginAbort; runSingleAttempt: kill).                  *)
(***************************************************************************)
\* Bug: it is forwarded to every child.
ForwardedToAll == {i \in Index : Up(i)}

Forwarded == {i \in Index : Up(i) /\ ~ child[i].handed}

TurnAborts ==
    /\ call.state \in {"running", "answering"}
    /\ ~ call.aborted
    /\ call' = [call EXCEPT !.aborted = TRUE]
    /\ killed' = killed \cup Forwarded
    /\ UNCHANGED <<control, child, ask, remembered>>

(***************************************************************************)
(* The child. A failure of its model is tried again with the next one,     *)
(* unless the supervisor has it (runSyncCompletion). A child that has gone *)
(* leaves its request behind.                                              *)
(***************************************************************************)
LeavesAsk(i) == ask' = [ask EXCEPT ![i].waits = FALSE]

ChildCloses(i) ==
    /\ Up(i)
    /\ child' = [child EXCEPT ![i].pc = "closing"]
    /\ LeavesAsk(i)
    /\ UNCHANGED <<call, control, killed, remembered>>

ChildRelaunched(i) ==
    /\ Up(i)
    /\ ~ child[i].handed
    /\ LeavesAsk(i)
    /\ killed' = IF call.aborted THEN killed \cup {i} ELSE killed
    /\ UNCHANGED <<call, control, child, remembered>>

AttachedEnds(i) ==
    /\ child[i].pc = "closing"
    /\ ~ child[i].handed
    /\ \E what \in {"result", "error"} : Answered(i, what)
    /\ UNCHANGED ask

\* onDetachedExit.
DetachedEnds(i) ==
    /\ child[i].pc = "closing"
    /\ child[i].handed
    /\ child' = [child EXCEPT ![i].pc = "over"]
    /\ remembered' = [remembered EXCEPT ![i] = "ended"]
    /\ control' = RemovedIfIdle([control EXCEPT !.active = @ \ {i}])
    /\ UNCHANGED <<call, ask, killed>>

(***************************************************************************)
(* The supervisor channel.                                                 *)
(***************************************************************************)
ChildAsks(i) ==
    /\ Up(i)
    /\ ~ ask[i].waits
    /\ ask' = [ask EXCEPT ![i] = NewAsk]
    /\ UNCHANGED <<call, control, child, killed, remembered>>

\* requestRunInactive: nobody waits for the answer any more.
Inactive(i) == ~ control.there /\ remembered[i] = "ended"

\* rememberedForegroundChild looks at the children in the order of their indices, holes
\* too, until it finds the one.
LooksAtHole(i) ==
    \E hole, j \in Index :
        /\ remembered[hole] = "none"
        /\ remembered[j] # "none"
        /\ hole < j
        /\ remembered[i] # "none" => hole < i

Detachable(i) == Up(i) /\ ~ child[i].handed /\ ~ call.aborted

\* poll takes up a request; what throws when the request was marked seen leaves it so.
Polled(i) ==
    IF LooksAtHole(i) THEN IF control.there THEN "missed" ELSE "new"
    ELSE IF Inactive(i) THEN "none"
    ELSE "shown"

PollTakes(i) ==
    /\ ask[i].request = "new"
    /\ ask' = [ask EXCEPT ![i].request = Polled(i)]
    /\ IF Polled(i) = "shown" /\ Detachable(i)
       THEN Answered(i, "receipt")
       ELSE UNCHANGED <<call, control, child, killed, remembered>>

\* The parent replies with a tool of its own, once the call is over.
ParentReplies(i) ==
    /\ call.state = "over"
    /\ ask[i].request \in {"shown", "missed"}
    /\ control.there \/ ~ (LooksAtHole(i) \/ Inactive(i))
    /\ ask' = [ask EXCEPT ![i].request = "none"]
    /\ UNCHANGED <<call, control, child, killed, remembered>>

\* The child reads the reply, or its deadline has passed.
AskEnds(i) ==
    /\ ask[i].waits
    /\ ask' = [ask EXCEPT ![i] = NoAsk]
    /\ UNCHANGED <<call, control, child, killed, remembered>>

GroupNext ==
    \/ \E i \in Index :
          \/ ChildCloses(i) \/ ChildRelaunched(i) \/ AttachedEnds(i) \/ DetachedEnds(i)
          \/ ChildAsks(i) \/ PollTakes(i) \/ ParentReplies(i) \/ AskEnds(i)
    \/ CallReturns
    \/ TurnAborts

GroupSpec == GroupInit /\ [][GroupNext]_groupVars

(***************************************************************************)
(* A child can be reached through its run's control for as long as it      *)
(* works, detached or not, also when the call has failed because of        *)
(* another one; and the control goes when nothing is left to control       *)
(* (executor-path-parallel-run.ts, the comment at the finally).            *)
(***************************************************************************)
Working(i) == child[i].pc \in {"up", "closing"}

ControlHeld ==
    /\ \A i \in Index : Working(i) => control.there /\ i \in control.active
    /\ control.there => call.state # "over" \/ call.workers > 0 \/ \E i \in Index : Working(i)

(***************************************************************************)
(* "The remembered run stays pending until the child exits" (README:954),  *)
(* and not longer: a child that ended before the call has remembered its   *)
(* receipt is not shown as detached, which subagent_wait would wait for.   *)
(***************************************************************************)
EndedNotDetached ==
    \A i \in Index : remembered[i] = "detached" => Working(i)

(***************************************************************************)
(* An abort and a detach race for a child: either the abort stops it and   *)
(* the detach is refused, or it is handed over and the abort spares it.    *)
(***************************************************************************)
DetachedSpared == \A i \in killed : ~ child[i].handed

(***************************************************************************)
(* "Child agents can talk back to the parent Pi session" (README:679): an  *)
(* ask that the channel has taken up, and whose child waits, was shown.    *)
(***************************************************************************)
AskShown == \A i \in Index : ask[i].waits => ask[i].request # "missed"
===============================================================================
