---------------------------- MODULE SessionRevival ----------------------------
(***************************************************************************)
(* Reviving a finished child's session in the background. Every revival    *)
(* has a launcher in some Pi process (src/runs/background/                 *)
(* async-execution.ts, spawnRunner) and a runner process of its own        *)
(* (subagent-runner.ts, runConfiguredSubagent), which agree through        *)
(* startup files before the runner works. The runners of all Pi processes  *)
(* compete for one lease directory per session (src/runs/shared/           *)
(* session-lease.ts), because two Pi children must never write the same    *)
(* session file. Processes may die between any two of their steps; the     *)
(* children they have spawned live on.                                     *)
(*                                                                         *)
(* One session on one host; process ids are not reused and files can be    *)
(* written. What a holder reads and writes of its own lease is one step:   *)
(* nobody else writes the lease of a process that lives, unless a          *)
(* contender has misjudged it, and then two children may be up already.    *)
(***************************************************************************)
EXTENDS Naturals, FiniteSets

CONSTANTS
    Revival,    \* the revivals of the session; each stands for its lease token, too
    MaxTries,   \* attempts to acquire the lease (4)
    MaxChildren \* bound: the Pi children a runner spawns, one after the other

VARIABLES
    lease,      \* the lease directory
    tombstones, \* the tokens whose stale directory was moved aside
    runner,     \* of each revival: where its runner is, the lease it has read, its tries
    writer,     \* of each revival: its Pi child, "none", "up" or "ended"
    spawned,    \* of each revival: how many children it has had; the last number is the child's
    startup,    \* runner-startup.json
    replies,    \* runner-startup-ack.json and runner-startup-proceed.json
    launcher,   \* what the launching Pi process waits for
    misread     \* history: a lease was found stale by a copy that was out of date

revivalVars == <<lease, tombstones, runner, writer, spawned, startup, replies, launcher, misread>>

Free == [is |-> "free"]
Empty == [is |-> "empty"]   \* a directory without owner.json
Owned(p, state, child) == [is |-> "owned", owner |-> p, writer |-> state, child |-> child]
NoChild == 0                \* writerPid is there only while the writer runs
OwnedBy(p) == lease.is = "owned" /\ lease.owner = p

Fresh == [pc |-> "create", tries |-> 0, seen |-> Free]
Crashed == [Fresh EXCEPT !.pc = "dead"]

\* Either nobody has revived the session before, or a runner has died that did, before
\* it had a child or with a child that lives on.
RevivalInit ==
    /\ tombstones = {}
    /\ startup = [p \in Revival |-> "none"]
    /\ replies = [p \in Revival |-> {}]
    /\ misread = FALSE
    /\ \/ /\ lease = Free
          /\ runner = [p \in Revival |-> Fresh]
          /\ writer = [p \in Revival |-> "none"]
          /\ spawned = [p \in Revival |-> 0]
          /\ launcher = [p \in Revival |-> "ready"]
       \/ \E old \in Revival, w \in {"none", "up"} :
             /\ lease = IF w = "up" THEN Owned(old, "running", 1) ELSE Owned(old, "none", NoChild)
             /\ runner = [p \in Revival |-> IF p = old THEN Crashed ELSE Fresh]
             /\ writer = [p \in Revival |-> IF p = old THEN w ELSE "none"]
             /\ spawned = [p \in Revival |-> IF p = old /\ w = "up" THEN 1 ELSE 0]
             /\ launcher = [p \in Revival |-> IF p = old THEN "gone" ELSE "ready"]

At(p, pc) == runner[p].pc = pc
Gone(p) == runner[p].pc \in {"over", "dead"}

Goes(p, pc) == runner' = [runner EXCEPT ![p].pc = pc]

(***************************************************************************)
(* acquireSessionLease. Between the look at the lease, the look at the     *)
(* processes it names and the rename anything may happen to all of them.   *)
(***************************************************************************)
\* A rename onto an empty directory replaces it.
LeaseCreated(p) ==
    /\ At(p, "create")
    /\ runner[p].tries < MaxTries
    /\ lease \in {Free, Empty}
    /\ lease' = Owned(p, "none", NoChild)
    /\ startup' = [startup EXCEPT ![p] = "ready"]
    /\ Goes(p, "ack")
    /\ UNCHANGED <<tombstones, writer, spawned, replies, launcher, misread>>

LeaseOccupied(p) ==
    /\ At(p, "create")
    /\ runner[p].tries < MaxTries
    /\ lease.is = "owned"
    /\ Goes(p, "read")
    /\ UNCHANGED <<lease, tombstones, writer, spawned, startup, replies, launcher, misread>>

Refused(p) ==
    /\ startup' = [startup EXCEPT ![p] = "error"]
    /\ Goes(p, "over")

LeaseRead(p) ==
    /\ At(p, "read")
    /\ IF lease.is = "owned"
       THEN /\ runner' = [runner EXCEPT ![p].pc = "probe", ![p].seen = lease]
            /\ UNCHANGED startup
       ELSE Refused(p)
    /\ UNCHANGED <<lease, tombstones, writer, spawned, replies, launcher, misread>>

\* The processes that a lease record names are gone. A runner that died while it spawned its
\* child may have left one.
DemonstrablyStale(l) ==
    /\ Gone(l.owner)
    /\ \/ l.writer = "none"
       \/ l.writer = "running" /\ ~ (writer[l.owner] = "up" /\ spawned[l.owner] = l.child)

\* The record was not that of the lease any more, and nobody had moved its lease aside.
OutOfDate(l) == lease # l /\ l.owner \notin tombstones

LeaseProbed(p) ==
    /\ At(p, "probe")
    /\ IF DemonstrablyStale(runner[p].seen)
       THEN /\ Goes(p, "reclaim")
            /\ misread' = (misread \/ OutOfDate(runner[p].seen))
            /\ UNCHANGED startup
       ELSE Refused(p) /\ UNCHANGED misread
    /\ UNCHANGED <<lease, tombstones, writer, spawned, replies, launcher>>

\* Bug: a lease is moved aside whether or not the place for the stale one is taken.
ReclaimsAny(p) == lease # Free

\* The rename moves whatever directory is there now, and fails when none is or when the
\* tombstone is there already, unless that is empty.
Reclaims(p) == lease # Free /\ runner[p].seen.owner \notin tombstones

LeaseReclaimed(p) ==
    /\ At(p, "reclaim")
    /\ IF Reclaims(p)
       THEN /\ lease' = Free
            /\ tombstones' = IF lease = Empty THEN tombstones ELSE tombstones \cup {runner[p].seen.owner}
       ELSE UNCHANGED <<lease, tombstones>>
    /\ runner' = [runner EXCEPT ![p].pc = "create", ![p].tries = @ + 1, ![p].seen = Free]
    /\ UNCHANGED <<writer, spawned, startup, replies, launcher, misread>>

LeaseGivenUp(p) ==
    /\ At(p, "create")
    /\ runner[p].tries = MaxTries
    /\ Refused(p)
    /\ UNCHANGED <<lease, tombstones, writer, spawned, replies, launcher, misread>>

(***************************************************************************)
(* The startup handshake. The runner works only once the launcher told it  *)
(* to proceed, which is when the launcher reports a start.                 *)
(***************************************************************************)
RunnerAcknowledges(p) ==
    /\ At(p, "ack")
    /\ "ack" \in replies[p]
    /\ startup' = [startup EXCEPT ![p] = "acknowledged"]
    /\ Goes(p, "proceed")
    /\ UNCHANGED <<lease, tombstones, writer, spawned, replies, launcher, misread>>

\* Bug: an acknowledged runner does not wait.
ProceedsOnAck(p) == At(p, "proceed")

Proceeds(p) == At(p, "proceed") /\ "proceed" \in replies[p]

RunnerProceeds(p) ==
    /\ Proceeds(p)
    /\ Goes(p, "idle")
    /\ replies' = [replies EXCEPT ![p] = {}]
    /\ UNCHANGED <<lease, tombstones, writer, spawned, startup, launcher, misread>>

\* No word from the launcher for 30 s.
RunnerTimesOut(p) ==
    /\ runner[p].pc \in {"ack", "proceed"}
    /\ startup' = [startup EXCEPT ![p] = "error"]
    /\ Goes(p, "release")
    /\ UNCHANGED <<lease, tombstones, writer, spawned, replies, launcher, misread>>

LauncherAcks(p) ==
    /\ launcher[p] = "ready"
    /\ startup[p] = "ready"
    /\ replies' = [replies EXCEPT ![p] = @ \cup {"ack"}]
    /\ launcher' = [launcher EXCEPT ![p] = "acknowledged"]
    /\ UNCHANGED <<lease, tombstones, runner, writer, spawned, startup, misread>>

LauncherStarts(p) ==
    /\ launcher[p] = "acknowledged"
    /\ startup[p] = "acknowledged"
    /\ replies' = [replies EXCEPT ![p] = @ \cup {"proceed"}]
    /\ launcher' = [launcher EXCEPT ![p] = "started"]
    /\ UNCHANGED <<lease, tombstones, runner, writer, spawned, startup, misread>>

\* An error, or nothing for 10 s: terminateRunnerBeforeProceed, which may not succeed.
LauncherRefuses(p) ==
    /\ launcher[p] \in {"ready", "acknowledged"}
    /\ launcher' = [launcher EXCEPT ![p] = "refused"]
    /\ \/ ~ Gone(p) /\ Goes(p, "dead")
       \/ UNCHANGED runner
    /\ UNCHANGED <<lease, tombstones, writer, spawned, startup, replies, misread>>

LauncherDies(p) ==
    /\ launcher[p] \in {"ready", "acknowledged"}
    /\ launcher' = [launcher EXCEPT ![p] = "gone"]
    /\ UNCHANGED <<lease, tombstones, runner, writer, spawned, startup, replies, misread>>

(***************************************************************************)
(* The runner records each Pi child in its lease: before it is spawned,    *)
(* once it has a process id, and when it has ended (runPiStreaming).       *)
(***************************************************************************)
AnnouncesWriter(p) ==
    /\ At(p, "idle")
    /\ spawned[p] < MaxChildren
    /\ IF OwnedBy(p)
       THEN lease' = Owned(p, "spawning", NoChild) /\ Goes(p, "spawning")
       ELSE UNCHANGED lease /\ Goes(p, "release")
    /\ UNCHANGED <<tombstones, writer, spawned, startup, replies, launcher, misread>>

\* A child that could not be started has ended without a process id.
SpawnsWriter(p) ==
    /\ At(p, "spawning")
    /\ \E w \in {"up", "ended"} :
         /\ writer' = [writer EXCEPT ![p] = w]
         /\ spawned' = IF w = "up" THEN [spawned EXCEPT ![p] = @ + 1] ELSE spawned
         /\ Goes(p, IF w = "up" THEN "register" ELSE "writing")
    /\ UNCHANGED <<lease, tombstones, startup, replies, launcher, misread>>

\* A child that cannot be recorded is killed.
RegistersWriter(p) ==
    /\ At(p, "register")
    /\ IF OwnedBy(p)
       THEN lease' = Owned(p, "running", spawned[p]) /\ UNCHANGED writer
       ELSE UNCHANGED lease /\ writer' = [writer EXCEPT ![p] = "ended"]
    /\ Goes(p, "writing")
    /\ UNCHANGED <<tombstones, spawned, startup, replies, launcher, misread>>

WriterEnds(p) ==
    /\ writer[p] = "up"
    /\ writer' = [writer EXCEPT ![p] = "ended"]
    /\ UNCHANGED <<lease, tombstones, runner, spawned, startup, replies, launcher, misread>>

WriterCloses(p) ==
    /\ At(p, "writing")
    /\ writer[p] = "ended"
    /\ writer' = [writer EXCEPT ![p] = "none"]
    /\ lease' = IF OwnedBy(p) THEN Owned(p, "none", NoChild) ELSE lease
    /\ Goes(p, "idle")
    /\ UNCHANGED <<tombstones, spawned, startup, replies, launcher, misread>>

RunnerFinishes(p) ==
    /\ At(p, "idle")
    /\ Goes(p, "release")
    /\ UNCHANGED <<lease, tombstones, writer, spawned, startup, replies, launcher, misread>>

(***************************************************************************)
(* release removes owner.json and then the directory, unless a successor   *)
(* has put its own in between.                                             *)
(***************************************************************************)
Releases(p) ==
    /\ At(p, "release")
    /\ IF OwnedBy(p)
       THEN lease' = Empty /\ Goes(p, "remove")
       ELSE UNCHANGED lease /\ Goes(p, "over")
    /\ UNCHANGED <<tombstones, writer, spawned, startup, replies, launcher, misread>>

RemovesDirectory(p) ==
    /\ At(p, "remove")
    /\ lease' = IF lease = Empty THEN Free ELSE lease
    /\ Goes(p, "over")
    /\ UNCHANGED <<tombstones, writer, spawned, startup, replies, launcher, misread>>

RunnerDies(p) ==
    /\ ~ Gone(p)
    /\ Goes(p, "dead")
    /\ UNCHANGED <<lease, tombstones, writer, spawned, startup, replies, launcher, misread>>

RevivalNext ==
    \E p \in Revival :
        \/ LeaseCreated(p) \/ LeaseOccupied(p) \/ LeaseRead(p) \/ LeaseProbed(p)
        \/ LeaseReclaimed(p) \/ LeaseGivenUp(p)
        \/ RunnerAcknowledges(p) \/ RunnerProceeds(p) \/ RunnerTimesOut(p)
        \/ LauncherAcks(p) \/ LauncherStarts(p) \/ LauncherRefuses(p) \/ LauncherDies(p)
        \/ AnnouncesWriter(p) \/ SpawnsWriter(p) \/ RegistersWriter(p)
        \/ WriterEnds(p) \/ WriterCloses(p) \/ RunnerFinishes(p)
        \/ Releases(p) \/ RemovesDirectory(p) \/ RunnerDies(p)

RevivalSpec == RevivalInit /\ [][RevivalNext]_revivalVars

(***************************************************************************)
(* Of the record it has read a contender looks up the processes, and then  *)
(* it moves the lease aside, whosever that is by now (session-lease.ts,    *)
(* 280 to 289). With no contender misled by a record out of date, two Pi   *)
(* children never write the same session file: at most one revival has a   *)
(* child that lives, whoever died in the middle of what, and whichever     *)
(* contenders take over a stale lease at the same time. The premise leaves *)
(* out a lease that was rewritten, or let go of, between the look at it    *)
(* and the look at its owner, who is gone by then; OneWriter is false of   *)
(* it.                                                                     *)
(***************************************************************************)
OneWriter == Cardinality({p \in Revival : writer[p] = "up"}) <= 1
SessionExclusive == ~ misread => OneWriter

(***************************************************************************)
(* "resume rejects before reporting a run as started"                      *)
(* (async-execution.ts:358): a revival reported as refused has no child    *)
(* and never gets one, although launcher and runner time out on their own. *)
(***************************************************************************)
RefusedNeverRuns ==
    \A p \in Revival : launcher[p] = "refused" => writer[p] = "none"
===============================================================================
