-------------------------- MODULE DeliveryProperties --------------------------
(***************************************************************************)
(* What result delivery promises: the properties of ResultDelivery that    *)
(* TLC checks on small instances and DeliveryProofs proves.                *)
(***************************************************************************)
EXTENDS ResultDelivery

(***************************************************************************)
(* Every variable has its type.                                            *)
(***************************************************************************)
Message == [by : Instance, items : SUBSET Result, turn : BOOLEAN]

TypeOK ==
    /\ disk \subseteq Result
    /\ writes \in [Result -> Nat]
    /\ phase \in [Instance -> {"new", "open", "closed"}]
    /\ session \in [Instance -> Session \cup {NoSession}]
    /\ watch \in [Instance -> {"off", "watching", "restarting", "polling"}]
    /\ timer \in [Instance -> [Result -> Mode \cup {"none"}]]
    /\ stage \in [Instance -> [Result -> Stage]]
    /\ mode \in [Instance -> [Result -> Mode \cup {"none"}]]
    /\ stale \in [Instance -> SUBSET Result]
    /\ completionSeen \in [Instance -> SUBSET Result]
    /\ seen \in [Instance -> SUBSET Result]
    /\ backlog \in [Instance -> SUBSET Result]
    /\ messages \in Seq(Message)
    /\ acked \in [Instance -> SUBSET Result]

NotifiedIn(msgs, i) ==
    {f \in Result : \E k \in 1..Len(msgs) : msgs[k].by = i /\ f \in msgs[k].items}

Notified(i) == NotifiedIn(messages, i)

(***************************************************************************)
(* The watcher, the notifier and what the session was told never disagree: *)
(* the notifier remembers exactly what was sent, waits only for what was   *)
(* not, and outlives no session; an accepted handler, and a result the     *)
(* watcher takes for delivered, has been sent or relayed; and only an open *)
(* instance has a watcher or timers (result-watcher.ts, notify.ts).        *)
(***************************************************************************)
ConsistentInstance(i) ==
    /\ seen[i] = Notified(i)
    /\ Held(i) \cap seen[i] = {}
    /\ completionSeen[i] \subseteq seen[i] \cup acked[i]
    /\ watch[i] # "off" => phase[i] = "open"
    /\ \A f \in Result :
         /\ stage[i][f] # "idle" => Owner[f] = session[i]
         /\ stage[i][f] = "accepted" => f \in seen[i] \cup acked[i]
         /\ timer[i][f] # "none" \/ stage[i][f] = "held" => phase[i] = "open"

HandlingConsistent == \A i \in Instance : ConsistentInstance(i)

(***************************************************************************)
(* "Async result files ... are deleted only after sendMessage() accepts    *)
(* the notification" (notify.ts:4-6), or an acknowledged relay: no crash,  *)
(* reload, failed send or restart of the watcher loses a result, and it    *)
(* was told to the session that owns it.                                   *)
(***************************************************************************)
Told(i, f) == session[i] = Owner[f] /\ f \in Notified(i) \cup acked[i]

DeletedOnlyWhenTold ==
    \A f \in Result : writes[f] > 0 /\ f \notin disk => \E i \in Instance : Told(i, f)

(***************************************************************************)
(* "Async completions notify only the originating session" (README), though *)
(* every Pi process of the user watches the same directory.                *)
(***************************************************************************)
OnlyOwnerTold ==
    \A i \in Instance : \A f \in Notified(i) \cup acked[i] : Owner[f] = session[i]

(***************************************************************************)
(* A result is announced at most once in the life of an instance, whatever *)
(* retries, failed deletions, rewritten files and watcher restarts there   *)
(* are (notify.ts seen and pending, result-watcher.ts completionSeen).     *)
(***************************************************************************)
OnceIn(msgs) ==
    \A j, k \in 1..Len(msgs) :
        j # k /\ msgs[j].by = msgs[k].by => msgs[j].items \cap msgs[k].items = {}

NotifiedOnce == OnceIn(messages)

(***************************************************************************)
(* stopResultWatcher "revokes ownership before closing resources, so old   *)
(* callbacks can never emit or delete after reload/session replacement"    *)
(* (result-watcher.ts:91-94): what a closed instance left in flight sends  *)
(* nothing, and a file is deleted only by an open instance of its owner    *)
(* that has told it.                                                       *)
(***************************************************************************)
DeletedBy(i, f) ==
    /\ phase[i] = "open"
    /\ session[i] = Owner[f]
    /\ f \in completionSeen'[i]

RevokedInstanceInert ==
    [][/\ \A k \in 1..Len(messages') : k > Len(messages) => phase[messages'[k].by] = "open"
       /\ \A f \in disk \ disk' : \E i \in Instance : DeletedBy(i, f)]_vars

(***************************************************************************)
(* "Suppressed redundant local completion notifications after acknowledged *)
(* grouped intercom delivery" (CHANGELOG.md:197). Only while the watcher   *)
(* is not restarted: a restart drops the acknowledgement a handler has got.*)
(***************************************************************************)
RelayedNotNotified == \A i \in Instance : Notified(i) \cap acked[i] = {}

(***************************************************************************)
(* What lay on disk when a session was recovered is shown without starting *)
(* a turn (core.ts:460-461): no later event, poll or retry of the file     *)
(* makes it loud. Only while the watcher is not restarted.                 *)
(***************************************************************************)
BacklogQuiet ==
    \A k \in 1..Len(messages) :
        messages[k].turn => ~ messages[k].items \subseteq backlog[messages[k].by]

(***************************************************************************)
(* Fairness: timers fire, a relay is answered or times out, promises that  *)
(* are settled go on, and a watcher restarts. Nothing is assumed of        *)
(* runners, sessions or file events.                                       *)
(***************************************************************************)
Fairness ==
    /\ \A i \in Instance, f \in Result :
          /\ WF_vars(TimerFires(i, f))
          /\ WF_vars(RelayAnswered(i, f))
          /\ WF_vars(Concludes(i, f))
    /\ \A i \in Instance :
          /\ WF_vars(BatchFires(i))
          /\ WF_vars(WatcherRestarts(i))
          /\ WF_vars(Polls(i))

FairSpec == Spec /\ Fairness

(***************************************************************************)
(* A result on disk whose session is open is told and then deleted, unless *)
(* the instance ends: no batch, retry or poll holds it for ever (README:   *)
(* the max-wait cap "guarantees nothing is held indefinitely").            *)
(***************************************************************************)
OpenOwner(i, f) == phase[i] = "open" /\ session[i] = Owner[f]

OwnedResultTold ==
    \A i \in Instance, f \in Result :
        f \in disk /\ OpenOwner(i, f)
            ~> (Told(i, f) /\ f \notin disk) \/ phase[i] = "closed"

(***************************************************************************)
(* README: "failed and paused completions always fire immediately". In the *)
(* end, at least, in a session that stays open.                            *)
(***************************************************************************)
UrgentResultTold ==
    \A i \in Instance, f \in Urgent :
        f \in disk /\ OpenOwner(i, f)
            ~> Told(i, f) \/ phase[i] = "closed"
===============================================================================
