---------------------------- MODULE ResultDelivery ----------------------------
(***************************************************************************)
(* How the result of a background run reaches the session that started it: *)
(* the watcher of the results directory                                    *)
(* (src/runs/background/result-watcher.ts), the notifier with its batches  *)
(* (notify.ts, completion-batcher.ts), and the lifecycle of the extension  *)
(* instances that own them (src/extension/core.ts). The directory is       *)
(* shared by every Pi process of a user; all else is memory of an instance.*)
(*                                                                         *)
(* A handler (one handleResult call) runs from its timer to its first      *)
(* await in one step, and from one await to the next. An instance has at   *)
(* most one handler per file (`processing`), and a batched completion      *)
(* belongs to the handler that awaits it.                                  *)
(*                                                                         *)
(* The ten minutes after which a delivered result is forgotten are taken   *)
(* to be longer than an instance needs to delete its file.                 *)
(***************************************************************************)
EXTENDS Naturals, Sequences, FiniteSets

CONSTANTS
    Instance,  \* extension instances, each bound to one session for its life
    Session,
    NoSession, \* the session of an instance that has not started
    Result,    \* result files
    Owner,     \* the session that started the run of a result
    Urgent,    \* results that did not complete: failed, paused, stopped
    Relayed,   \* results with an intercom target, if relaying is on
    Faults,    \* "watch": the watcher fails and is restarted; "poll": it runs out of
               \* handles; "send": sendMessage throws; "unlink": a deletion fails
    MaxWrites  \* bound of the model: writes of one result file

ASSUME DeliveryAssumption ==
    /\ NoSession \notin Session
    /\ Owner \in [Result -> Session]
    /\ Urgent \subseteq Result
    /\ Relayed \subseteq Result
    /\ Faults \subseteq {"watch", "poll", "send", "unlink"}
    /\ MaxWrites \in Nat

VARIABLES
    disk,           \* the result files present
    writes,         \* how often each was written
    phase,          \* of an instance: new, open, closed
    session,        \* state.currentSessionId; a closed instance keeps it here
    watch,          \* what notices new files: off, watching, restarting, polling
    timer,          \* the coalescer's timer of a file, with pendingTriggerTurn
    stage,          \* where the handler of a file is
    mode,           \* the triggerTurn that handler was called with
    stale,          \* the files whose handler is of an earlier deliveryEpoch
    completionSeen, \* results the watcher has seen delivered
    seen,           \* results the notifier has sent
    backlog,        \* what lay on disk when the instance recovered its session
    messages,       \* the messages sent to the sessions, in order
    acked           \* results whose relay was acknowledged in time

diskVars == <<disk, writes>>
lifeVars == <<phase, session, backlog>>
vars == <<disk, writes, phase, session, watch, timer, stage, mode, stale,
          completionSeen, seen, backlog, messages, acked>>

Mode == {"turn", "silent"}
Stage == {"idle", "relaying", "held", "accepted", "refused"}

Init ==
    /\ disk = {}
    /\ writes = [f \in Result |-> 0]
    /\ phase = [i \in Instance |-> "new"]
    /\ session = [i \in Instance |-> NoSession]
    /\ watch = [i \in Instance |-> "off"]
    /\ timer = [i \in Instance |-> [f \in Result |-> "none"]]
    /\ stage = [i \in Instance |-> [f \in Result |-> "idle"]]
    /\ mode = [i \in Instance |-> [f \in Result |-> "none"]]
    /\ stale = [i \in Instance |-> {}]
    /\ completionSeen = [i \in Instance |-> {}]
    /\ seen = [i \in Instance |-> {}]
    /\ backlog = [i \in Instance |-> {}]
    /\ messages = <<>>
    /\ acked = [i \in Instance |-> {}]

\* Bug: a handler does not ask whether its epoch is over.
OwnsForever(i, f) == Owner[f] = session[i]

\* ownsSession: the instance is the live owner of f, and so is the handler.
Owns(i, f) == phase[i] = "open" /\ f \notin stale[i] /\ Owner[f] = session[i]

(***************************************************************************)
(* scheduleResult: one timer per file, and display-only wins.              *)
(***************************************************************************)
\* Bug: the last call decides.
LastMode(old, new) == new

MergedMode(old, new) == IF "silent" \in {old, new} THEN "silent" ELSE "turn"

Scheduled(t, i, files, m) ==
    [t EXCEPT ![i] = [f \in Result |-> IF f \in files THEN MergedMode(t[i][f], m)
                                                     ELSE t[i][f]]]

(***************************************************************************)
(* The notifier.                                                           *)
(***************************************************************************)
Held(i) == {f \in Result : stage[i][f] = "held"}

SendOutcomes == IF "send" \in Faults THEN BOOLEAN ELSE {TRUE}

\* The messages after an emit: one for the group, which starts a turn if one of
\* its items may, and none if sendMessage throws.
Posted(msgs, i, items, modes, ok) ==
    IF ok /\ items # {}
    THEN Append(msgs, [by |-> i, items |-> items,
                       turn |-> \E f \in items : modes[f] = "turn"])
    ELSE msgs

\* Bug: a message that could not be sent counts as sent.
SettledWhatever(stages, items, ok) ==
    [f \in Result |-> IF f \in items THEN "accepted" ELSE stages[f]]

Settled(stages, items, ok) ==
    [f \in Result |-> IF f \in items THEN IF ok THEN "accepted" ELSE "refused"
                                     ELSE stages[f]]

\* Bug: what was sent is not remembered.
NoneAccepted(items, ok) == {}

Accepted(items, ok) == IF ok THEN items ELSE {}

\* deliver: a success joins the batch, anything else flushes the batch and is
\* sent at once.
Deliver(i, f, modes) ==
    \/ /\ f \in seen[i]
       /\ stage' = [stage EXCEPT ![i][f] = "accepted"]
       /\ UNCHANGED <<seen, messages>>
    \/ /\ f \notin seen[i]
       /\ f \notin Urgent
       /\ stage' = [stage EXCEPT ![i][f] = "held"]
       /\ UNCHANGED <<seen, messages>>
    \/ /\ f \notin seen[i]
       /\ f \in Urgent
       /\ \E flushed, ok \in SendOutcomes :
            /\ stage' = [stage EXCEPT ![i] =
                           Settled(Settled(stage[i], Held(i), flushed), {f}, ok)]
            /\ seen' = [seen EXCEPT ![i] = @ \cup Accepted(Held(i), flushed)
                                             \cup Accepted({f}, ok)]
            /\ messages' = Posted(Posted(messages, i, Held(i), modes, flushed),
                                   i, {f}, modes, ok)

\* The debounce or the max-wait timer of the batch.
BatchFires(i) ==
    /\ phase[i] = "open"
    /\ Held(i) # {}
    /\ \E ok \in SendOutcomes :
         /\ stage' = [stage EXCEPT ![i] = Settled(stage[i], Held(i), ok)]
         /\ seen' = [seen EXCEPT ![i] = @ \cup Accepted(Held(i), ok)]
         /\ messages' = Posted(messages, i, Held(i), mode[i], ok)
    /\ UNCHANGED <<diskVars, lifeVars, watch, timer, mode, stale, completionSeen, acked>>

(***************************************************************************)
(* The watcher.                                                            *)
(***************************************************************************)
TimerTaken(i, f) == [timer EXCEPT ![i][f] = "none"]

\* unlinkSync; a failure other than ENOENT schedules the file again.
Unlink(i, f, times, m) ==
    \/ /\ disk' = disk \ {f}
       /\ timer' = times
    \/ /\ "unlink" \in Faults
       /\ f \in disk
       /\ disk' = disk
       /\ timer' = Scheduled(times, i, {f}, m)

\* Bug: any result is handled, whoever owns it.
HandlesAny(i, f) ==
    /\ phase[i] = "open"
    /\ stage[i][f] = "idle"
    /\ f \in disk

Handles(i, f) ==
    /\ phase[i] = "open"
    /\ stage[i][f] = "idle"
    /\ f \in disk
    /\ Owner[f] = session[i]

\* The timer of a file that is gone, in process, or of another session.
FiresInVain(i, f) ==
    /\ timer[i][f] # "none"
    /\ ~ Handles(i, f)
    /\ timer' = TimerTaken(i, f)
    /\ UNCHANGED <<diskVars, lifeVars, watch, stage, mode, stale, completionSeen, seen,
                   messages, acked>>

\* A delivered result whose file is still, or again, there.
FiresForSeen(i, f) ==
    /\ timer[i][f] # "none"
    /\ Handles(i, f)
    /\ f \in completionSeen[i]
    /\ Unlink(i, f, TimerTaken(i, f), timer[i][f])
    /\ UNCHANGED <<writes, lifeVars, watch, stage, mode, stale, completionSeen, seen,
                   messages, acked>>

\* Display-only results are not relayed.
StartsRelay(i, f) == f \in Relayed /\ timer[i][f] = "turn"

FiresToRelay(i, f) ==
    /\ timer[i][f] # "none"
    /\ Handles(i, f)
    /\ f \notin completionSeen[i]
    /\ StartsRelay(i, f)
    /\ timer' = TimerTaken(i, f)
    /\ mode' = [mode EXCEPT ![i][f] = timer[i][f]]
    /\ stage' = [stage EXCEPT ![i][f] = "relaying"]
    /\ UNCHANGED <<diskVars, lifeVars, watch, stale, completionSeen, seen, messages, acked>>

FiresToNotify(i, f) ==
    /\ timer[i][f] # "none"
    /\ Handles(i, f)
    /\ f \notin completionSeen[i]
    /\ ~ StartsRelay(i, f)
    /\ timer' = TimerTaken(i, f)
    /\ mode' = [mode EXCEPT ![i][f] = timer[i][f]]
    /\ Deliver(i, f, mode'[i])
    /\ UNCHANGED <<diskVars, lifeVars, watch, stale, completionSeen, acked>>

TimerFires(i, f) ==
    \/ FiresInVain(i, f)
    \/ FiresForSeen(i, f)
    \/ FiresToRelay(i, f)
    \/ FiresToNotify(i, f)

HandlerEnds(i, f) ==
    /\ stage' = [stage EXCEPT ![i][f] = "idle"]
    /\ mode' = [mode EXCEPT ![i][f] = "none"]
    /\ stale' = [stale EXCEPT ![i] = @ \ {f}]

\* Bug: the notifier is told of a relayed result as of any other.
DeliverRelayedAnyway(i, f, ack) == Deliver(i, f, mode[i])

\* An acknowledged relay needs no notification.
DeliverRelayed(i, f, ack) ==
    IF ack THEN /\ stage' = [stage EXCEPT ![i][f] = "accepted"]
                /\ UNCHANGED <<seen, messages>>
    ELSE Deliver(i, f, mode[i])

\* The relay is acknowledged, refused, or 500 ms have passed.
RelayAnswered(i, f) ==
    /\ stage[i][f] = "relaying"
    /\ \E ack \in BOOLEAN :
         /\ acked' = IF ack THEN [acked EXCEPT ![i] = @ \cup {f}] ELSE acked
         /\ \/ /\ ~ Owns(i, f)
               /\ HandlerEnds(i, f)
               /\ UNCHANGED <<seen, messages>>
            \/ /\ Owns(i, f)
               /\ DeliverRelayed(i, f, ack)
               /\ UNCHANGED <<mode, stale>>
    /\ UNCHANGED <<diskVars, lifeVars, watch, timer, completionSeen>>

\* The notifier has answered; the handler goes on after its await.
Concludes(i, f) ==
    /\ stage[i][f] \in {"accepted", "refused"}
    /\ HandlerEnds(i, f)
    /\ \/ /\ ~ Owns(i, f)
          /\ UNCHANGED <<disk, timer, completionSeen>>
       \/ /\ Owns(i, f)
          /\ stage[i][f] = "refused"
          /\ timer' = Scheduled(timer, i, {f}, mode[i][f])
          /\ UNCHANGED <<disk, completionSeen>>
       \/ /\ Owns(i, f)
          /\ stage[i][f] = "accepted"
          /\ completionSeen' = [completionSeen EXCEPT ![i] = @ \cup {f}]
          /\ Unlink(i, f, timer, mode[i][f])
    /\ UNCHANGED <<writes, lifeVars, watch, seen, messages, acked>>

(***************************************************************************)
(* The watch itself. primeExistingResults schedules every file there is,   *)
(* and so does a watcher that falls back to polling.                       *)
(***************************************************************************)
PrimedIfPolling(i, w) ==
    IF w = "polling" THEN Scheduled(timer, i, disk, "turn") ELSE timer

\* How a call of fs.watch may end.
WatchOutcomes ==
    {"watching"} \cup (IF "watch" \in Faults THEN {"restarting"} ELSE {})
                \cup (IF "poll" \in Faults THEN {"polling"} ELSE {})

WatcherFails(i) ==
    /\ watch[i] = "watching"
    /\ \E w \in WatchOutcomes \ {"watching"} :
         /\ watch' = [watch EXCEPT ![i] = w]
         /\ timer' = PrimedIfPolling(i, w)
    /\ UNCHANGED <<diskVars, lifeVars, stage, mode, stale, completionSeen, seen, messages,
                   acked>>

\* startResultWatcher begins a new epoch; nothing primes what it missed.
WatcherRestarts(i) ==
    /\ watch[i] = "restarting"
    /\ \E w \in WatchOutcomes :
         /\ watch' = [watch EXCEPT ![i] = w]
         /\ timer' = PrimedIfPolling(i, w)
    /\ stale' = [stale EXCEPT ![i] = {f \in Result : stage[i][f] # "idle"}]
    /\ UNCHANGED <<diskVars, lifeVars, stage, mode, completionSeen, seen, messages, acked>>

Polls(i) ==
    /\ watch[i] = "polling"
    /\ timer' = Scheduled(timer, i, disk, "turn")
    /\ UNCHANGED <<diskVars, lifeVars, watch, stage, mode, stale, completionSeen, seen,
                   messages, acked>>

\* A runner writes its result, or the reconciler the result of a run it takes
\* for dead; every watcher sees the rename.
Write(f) ==
    /\ writes[f] < MaxWrites
    /\ writes' = [writes EXCEPT ![f] = @ + 1]
    /\ disk' = disk \cup {f}
    /\ timer' = [i \in Instance |-> IF watch[i] = "watching"
                                    THEN Scheduled(timer, i, {f}, "turn")[i] ELSE timer[i]]
    /\ UNCHANGED <<lifeVars, watch, stage, mode, stale, completionSeen, seen, messages, acked>>

(***************************************************************************)
(* The life of an instance. A session is open in one instance at a time.   *)
(***************************************************************************)
\* Bug: what was there before the session started is left alone.
Unprimed(i, w, m) == PrimedIfPolling(i, w)

Primed(i, w, m) == Scheduled(PrimedIfPolling(i, w), i, disk, m)

\* session_start: a startup, a reload and a resume recover the session.
SessionStart(i, s, recovering) ==
    /\ phase[i] = "new"
    /\ \A j \in Instance : phase[j] = "open" => session[j] # s
    /\ phase' = [phase EXCEPT ![i] = "open"]
    /\ session' = [session EXCEPT ![i] = s]
    /\ backlog' = [backlog EXCEPT ![i] = IF recovering THEN disk ELSE {}]
    /\ \E w \in WatchOutcomes :
         /\ watch' = [watch EXCEPT ![i] = w]
         /\ timer' = Primed(i, w, IF recovering THEN "silent" ELSE "turn")
    /\ UNCHANGED <<diskVars, stage, mode, stale, completionSeen, seen, messages, acked>>

\* Bug: the batch is left to its timer.
BatchKept(i) == stage[i]

BatchGivenUp(i) == Settled(stage[i], Held(i), FALSE)

NoTimers(i) == [timer EXCEPT ![i] = [f \in Result |-> "none"]]

\* session_shutdown: ownership is revoked, the batch is given up, and handlers
\* that still wait find it out when they go on.
SessionShutdown(i) ==
    /\ phase[i] = "open"
    /\ phase' = [phase EXCEPT ![i] = "closed"]
    /\ watch' = [watch EXCEPT ![i] = "off"]
    /\ timer' = NoTimers(i)
    /\ stage' = [stage EXCEPT ![i] = BatchGivenUp(i)]
    /\ UNCHANGED <<diskVars, session, backlog, mode, stale, completionSeen, seen, messages,
                   acked>>

Crash(i) ==
    /\ phase[i] = "open"
    /\ phase' = [phase EXCEPT ![i] = "closed"]
    /\ watch' = [watch EXCEPT ![i] = "off"]
    /\ timer' = NoTimers(i)
    /\ stage' = [stage EXCEPT ![i] = [f \in Result |-> "idle"]]
    /\ mode' = [mode EXCEPT ![i] = [f \in Result |-> "none"]]
    /\ stale' = [stale EXCEPT ![i] = {}]
    /\ UNCHANGED <<diskVars, session, backlog, completionSeen, seen, messages, acked>>

Next ==
    \/ \E f \in Result : Write(f)
    \/ \E i \in Instance, s \in Session, recovering \in BOOLEAN : SessionStart(i, s, recovering)
    \/ \E i \in Instance, f \in Result : TimerFires(i, f)
    \/ \E i \in Instance, f \in Result : RelayAnswered(i, f)
    \/ \E i \in Instance, f \in Result : Concludes(i, f)
    \/ \E i \in Instance : BatchFires(i)
    \/ \E i \in Instance : WatcherFails(i)
    \/ \E i \in Instance : WatcherRestarts(i)
    \/ \E i \in Instance : Polls(i)
    \/ \E i \in Instance : SessionShutdown(i)
    \/ \E i \in Instance : Crash(i)

Spec == Init /\ [][Next]_vars
===============================================================================
