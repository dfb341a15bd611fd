-------------------------------- MODULE Steering --------------------------------
(***************************************************************************)
(* Guidance for one child of a background run, and the revival of the run  *)
(* when the child does not take it (src/runs/foreground/                   *)
(* async-steering-action.ts, src/runs/background/steering.ts and           *)
(* control-channel.ts, the inbox handlers of subagent-runner.ts, and       *)
(* registerSteeringInbox of src/runs/shared/subagent-prompt-runtime.ts).   *)
(*                                                                         *)
(* Three processes share files only. A steer call of Pi leaves a request   *)
(* in the inbox of the runner, which routes it to the inbox of the child   *)
(* and enters it in the ledger of the run; the child passes it to its Pi   *)
(* session, and acknowledges it when Pi has taken it; the runner reads the *)
(* acknowledgement. A call that waits in vain for that claims the          *)
(* recovery of the run, interrupts it, waits until it is paused, and       *)
(* launches a replacement with the message.                                *)
(*                                                                         *)
(* The child is the only step of a single run, or a later step of a chain, *)
(* which may never start. Pi calls the runner's session its own, so its    *)
(* calls run in one process at a time and interleave at awaits.            *)
(***************************************************************************)
EXTENDS Naturals, FiniteSets

CONSTANT Steer  \* requests, each of a steer call of its own

VARIABLES
    steerCall,    \* where each call is; "asked" and "queued" have a second form, for a
                  \* child that had not started when the call looked
    steerNote,    \* what a failing call has read of status.json and will write back
    source,       \* the runner: its main flow, the mode of the run, whether it knows that
                  \* the child takes no steering, the acknowledgement in its hands
    payload,      \* statusPayload
    runStatus,    \* status.json
    steerFiles,   \* the control inbox
    agent,        \* the child: its process, whether its Pi can steer, what it has sent Pi
    replacements  \* the calls that launched a replacement

steeringVars == <<steerCall, steerNote, source, payload, runStatus, steerFiles, agent, replacements>>

sourceVars == <<source, payload, runStatus, agent>>

NoNote == [of |-> "none"]
NoSteerAck == [of |-> "none"]

SteeringInit ==
    /\ steerCall = [s \in Steer |-> "idle"]
    /\ steerNote = NoNote
    /\ \E whole \in BOOLEAN :
         source = [pc |-> "earlier", whole |-> whole, deaf |-> FALSE, ack |-> NoSteerAck]
    /\ payload = [state |-> "running", step |-> "pending", ended |-> FALSE,
                  ledger |-> [s \in Steer |-> "none"]]
    /\ runStatus = payload
    /\ steerFiles = [inbox |-> {}, closed |-> FALSE, target |-> {}, delivered |-> {}, failed |-> {},
                     claim |-> {}, markers |-> {}, interrupt |-> FALSE, stop |-> FALSE]
    /\ \E steers \in BOOLEAN : agent = [pc |-> "none", steers |-> steers, sent |-> {}]
    /\ replacements = {}

\* updateSteeringTarget: a late acceptance does not undo a recovery.
Entered(status, s, state) ==
    IF state = "late" /\ status.ledger[s] = "recovered" THEN status
    ELSE [status EXCEPT !.ledger[s] = state]

(***************************************************************************)
(* The steer call, up to the wait for an acknowledgement.                  *)
(***************************************************************************)
\* No call is in the middle of something it does without an await.
PiFree == steerNote = NoNote /\ \A s \in Steer :
    steerCall[s] \in {"idle", "waiting", "pausing", "reviving", "done", "gone"}

Moved(s, at) == steerCall' = [steerCall EXCEPT ![s] = at]

\* A run whose runner is dead is reconciled first, and refused.
SteerAsks(s) ==
    /\ PiFree
    /\ steerCall[s] = "idle"
    /\ runStatus.state = "running"
    /\ source.pc # "dead"
    /\ runStatus.step \in {"pending", "running"}
    /\ ~ steerFiles.closed
    /\ Moved(s, IF runStatus.step = "pending" THEN "asked early" ELSE "asked")
    /\ UNCHANGED <<steerNote, sourceVars, steerFiles, replacements>>

SteerWrites(s) ==
    /\ \/ steerCall[s] = "asked" /\ Moved(s, "queued")
       \/ steerCall[s] = "asked early" /\ Moved(s, "queued early")
    /\ steerFiles' = [steerFiles EXCEPT !.inbox = @ \cup {s}]
    /\ UNCHANGED <<steerNote, sourceVars, replacements>>

\* Bug: the mark of a closed inbox is not looked at again after the write.
NotWithdrawn == FALSE

Withdrawn == steerFiles.closed

SteerWithdraws(s) ==
    /\ steerCall[s] \in {"queued", "queued early"}
    /\ Withdrawn
    /\ Moved(s, "done")
    /\ steerFiles' = [steerFiles EXCEPT !.inbox = @ \ {s}]
    /\ UNCHANGED <<steerNote, sourceVars, replacements>>

SteerQueued(s) ==
    /\ ~ Withdrawn
    /\ \/ steerCall[s] = "queued" /\ Moved(s, "waiting")
       \/ steerCall[s] = "queued early" /\ Moved(s, "done")
    /\ UNCHANGED <<steerNote, sourceVars, steerFiles, replacements>>

\* Answered, given up by its caller, or told not to recover.
SteerReturns(s) ==
    /\ PiFree
    /\ steerCall[s] = "waiting"
    /\ Moved(s, "done")
    /\ UNCHANGED <<steerNote, sourceVars, steerFiles, replacements>>

\* Three seconds have passed, or the request has failed.
SteerLapses(s) ==
    /\ PiFree
    /\ steerCall[s] = "waiting"
    /\ source.whole
    /\ runStatus.step = "running"
    /\ runStatus.ledger[s] \notin {"delivered", "scheduled"}
    /\ Moved(s, "lapsed")
    /\ UNCHANGED <<steerNote, sourceVars, steerFiles, replacements>>

(***************************************************************************)
(* Recovery.                                                               *)
(***************************************************************************)
\* Every failure ends in a look at status.json; of a run that is over, or is about to
\* be, the copy is written back with the request failed.
Fails(s) ==
    IF runStatus.state = "running" THEN Moved(s, "done") /\ UNCHANGED steerNote
    ELSE Moved(s, "failing") /\ steerNote' = [of |-> s, status |-> runStatus]

ClaimFree == steerFiles.claim = {}

SteerClaims(s) ==
    /\ steerCall[s] = "lapsed"
    /\ runStatus.ledger[s] # "delivered"
    /\ ClaimFree
    /\ Moved(s, "claimed")
    /\ steerFiles' = [steerFiles EXCEPT !.claim = {s}, !.markers = @ \cup {s}]
    /\ UNCHANGED <<steerNote, sourceVars, replacements>>

SteerNotNeeded(s) ==
    /\ steerCall[s] = "lapsed"
    /\ runStatus.ledger[s] = "delivered"
    /\ Moved(s, "done")
    /\ UNCHANGED <<steerNote, sourceVars, steerFiles, replacements>>

SteerRefused(s) ==
    /\ steerCall[s] = "lapsed"
    /\ runStatus.ledger[s] # "delivered"
    /\ ~ ClaimFree
    /\ Fails(s)
    /\ UNCHANGED <<sourceVars, steerFiles, replacements>>

ClaimWithdrawn(s) == [steerFiles EXCEPT !.claim = {}, !.markers = @ \ {s}]

\* Delivered after all, at a time before that of the claim.
SteerReleases(s) ==
    /\ steerCall[s] = "claimed"
    /\ runStatus.ledger[s] = "delivered"
    /\ Moved(s, "done")
    /\ steerFiles' = ClaimWithdrawn(s)
    /\ UNCHANGED <<steerNote, sourceVars, replacements>>

\* The source may have been told of the acceptance since the time of the claim.
SteerInterrupts(s) ==
    /\ steerCall[s] = "claimed"
    /\ source.pc # "dead"
    /\ Moved(s, "pausing")
    /\ steerFiles' = [steerFiles EXCEPT !.interrupt = TRUE]
    /\ UNCHANGED <<steerNote, sourceVars, replacements>>

\* No process has the runner's id any more.
SteerFindsNoRunner(s) ==
    /\ steerCall[s] = "claimed"
    /\ source.pc \in {"over", "dead"}
    /\ steerFiles' = ClaimWithdrawn(s)
    /\ Fails(s)
    /\ UNCHANGED <<sourceVars, replacements>>

\* Bug: a run counts as paused from the interrupt on.
PausedEarly == runStatus.state = "paused"

PauseConfirmed == runStatus.state = "paused" /\ runStatus.ended

\* The acknowledgements the runner has not read are entered by the call.
WithLateAcks(status) ==
    [status EXCEPT !.ledger =
        [s \in Steer |->
            IF status.ledger[s] = "none" \/ s \notin steerFiles.delivered \cup steerFiles.failed
            THEN @[s]
            ELSE IF s \in steerFiles.failed THEN "failed" ELSE Entered(status, s, "late").ledger[s]]]

SteerSeesPause(s) ==
    /\ PiFree
    /\ steerCall[s] = "pausing"
    /\ PauseConfirmed
    /\ Moved(s, "reviving")
    /\ runStatus' = WithLateAcks(runStatus)
    /\ steerFiles' = [steerFiles EXCEPT !.delivered = {}, !.failed = {}]
    /\ UNCHANGED <<steerNote, source, payload, agent, replacements>>

\* Fifteen seconds have passed, or the caller has given up; the claim stays.
SteerGivesUp(s) ==
    /\ PiFree
    /\ steerCall[s] = "pausing"
    /\ Fails(s)
    /\ UNCHANGED <<sourceVars, steerFiles, replacements>>

\* resumeAsyncRun has launched the replacement.
SteerRevives(s) ==
    /\ PiFree
    /\ steerCall[s] = "reviving"
    /\ Moved(s, "revived")
    /\ replacements' = replacements \cup {s}
    /\ UNCHANGED <<steerNote, sourceVars, steerFiles>>

\* No session or descriptor, a budget that is spent, or a launch that fails.
SteerCannotRevive(s) ==
    /\ PiFree
    /\ steerCall[s] = "reviving"
    /\ Fails(s)
    /\ UNCHANGED <<sourceVars, steerFiles, replacements>>

SteerEntersRecovery(s) ==
    /\ steerCall[s] = "revived"
    /\ Moved(s, "done")
    /\ runStatus' = IF runStatus.state = "paused" THEN Entered(runStatus, s, "recovered") ELSE runStatus
    /\ UNCHANGED <<steerNote, source, payload, steerFiles, agent, replacements>>

SteerEntersFailure(s) ==
    /\ steerCall[s] = "failing"
    /\ Moved(s, "done")
    /\ runStatus' = Entered(steerNote.status, s, "failed")
    /\ steerNote' = NoNote
    /\ UNCHANGED <<source, payload, steerFiles, agent, replacements>>

(***************************************************************************)
(* Whatever else Pi does to the run.                                       *)
(***************************************************************************)
UserInterrupts ==
    /\ PiFree
    /\ runStatus.state = "running"
    /\ source.pc # "dead"
    /\ steerFiles' = [steerFiles EXCEPT !.interrupt = TRUE]
    /\ UNCHANGED <<steerCall, steerNote, sourceVars, replacements>>

UserStops ==
    /\ PiFree
    /\ runStatus.state = "running"
    /\ source.pc # "dead"
    /\ steerFiles' = [steerFiles EXCEPT !.stop = TRUE]
    /\ UNCHANGED <<steerCall, steerNote, sourceVars, replacements>>

\* reconcileAsyncRun
SourceReconciled ==
    /\ PiFree
    /\ runStatus.state = "running"
    /\ source.pc = "dead"
    /\ runStatus' = [runStatus EXCEPT !.state = "failed", !.step = "over", !.ended = TRUE]
    /\ UNCHANGED <<steerCall, steerNote, source, payload, steerFiles, agent, replacements>>

\* Pi ends, and its calls with it; another Pi may open the session. A call that was
\* about to withdraw its request never will.
SteererDies ==
    /\ steerCall' = [s \in Steer |->
          CASE steerCall[s] = "idle" -> "idle"
            [] steerCall[s] \in {"queued", "queued early", "gone"} -> "gone"
            [] OTHER -> "done"]
    /\ steerNote' = NoNote
    /\ UNCHANGED <<sourceVars, steerFiles, replacements>>

(***************************************************************************)
(* The runner. Its handlers run where its main flow awaits: while earlier  *)
(* steps of a chain run ("earlier"), while the child runs ("step"), and    *)
(* while later steps run or the session is exported ("later"). A runner of *)
(* a single run looks at its inbox once before it starts the child.        *)
(***************************************************************************)
Awaits == source.pc \in {"earlier", "step", "later"} /\ source.ack = NoSteerAck

SourceSaves(status) ==
    /\ payload' = status
    /\ runStatus' = status

LedgerWith(status, those, state) ==
    [status EXCEPT !.ledger = [s \in Steer |-> IF s \in those THEN state ELSE @[s]]]

InState(states) == {s \in Steer : payload.ledger[s] \in states}

\* deliverSteerRequest
Verdict ==
    IF payload.state # "running" THEN "failed"
    ELSE IF payload.step = "pending" THEN "scheduled"
    ELSE IF payload.step # "running" \/ source.deaf THEN "failed"
    ELSE "routed"

RoutedFiles(those) == [steerFiles EXCEPT !.inbox = @ \ those,
                                         !.target = @ \cup (IF Verdict = "routed" THEN those ELSE {})]

SourceTakes(s) ==
    /\ Awaits
    /\ s \in steerFiles.inbox
    /\ SourceSaves(LedgerWith(payload, {s}, Verdict))
    /\ steerFiles' = RoutedFiles({s})
    /\ UNCHANGED <<steerCall, steerNote, source, agent, replacements>>

\* The step starts; flushPendingStepSteers routes what was scheduled for it.
StepBegins ==
    /\ Awaits
    /\ source.pc = "earlier"
    /\ payload.state = "running"
    /\ source' = [source EXCEPT !.pc = "step"]
    /\ SourceSaves([LedgerWith(payload, InState({"scheduled"}), "routed") EXCEPT !.step = "running"])
    /\ steerFiles' = [steerFiles EXCEPT !.target = @ \cup InState({"scheduled"})]
    /\ agent' = [agent EXCEPT !.pc = "up"]
    /\ UNCHANGED <<steerCall, steerNote, replacements>>

\* consumeSteerAck: the marker of a committed recovery is looked at before the ledger is
\* written, and another process may commit in between.
SourceReadsAck(s) ==
    /\ Awaits
    /\ s \in steerFiles.delivered \cup steerFiles.failed
    /\ source' = [source EXCEPT !.ack =
                     [of |-> s, state |-> IF s \in steerFiles.failed THEN "failed"
                                          ELSE IF s \in steerFiles.markers THEN "late"
                                          ELSE "delivered"]]
    /\ steerFiles' = [steerFiles EXCEPT !.delivered = @ \ {s}, !.failed = @ \ {s}]
    /\ UNCHANGED <<steerCall, steerNote, payload, runStatus, agent, replacements>>

SourceEntersAck ==
    /\ source.pc \in {"earlier", "step", "later"}
    /\ source.ack # NoSteerAck
    /\ SourceSaves(Entered(payload, source.ack.of, source.ack.state))
    /\ source' = [source EXCEPT !.ack = NoSteerAck]
    /\ UNCHANGED <<steerCall, steerNote, steerFiles, agent, replacements>>

\* onSteerCapability, of a child whose Pi cannot steer.
SourceHearsDeaf ==
    /\ Awaits
    /\ agent.pc # "none"
    /\ ~ agent.steers
    /\ source' = [source EXCEPT !.deaf = TRUE]
    /\ SourceSaves(LedgerWith(payload, InState({"scheduled", "routed"}), "failed"))
    /\ UNCHANGED <<steerCall, steerNote, steerFiles, agent, replacements>>

Ended(step) == IF step = "running" THEN "over" ELSE step

\* interruptRunner: status.json tells the pause before the child has ended.
SourceInterrupted ==
    /\ Awaits
    /\ steerFiles.interrupt
    /\ steerFiles' = [steerFiles EXCEPT !.interrupt = FALSE]
    /\ IF payload.state = "running"
       THEN SourceSaves([payload EXCEPT !.state = "paused", !.step = Ended(@)])
       ELSE UNCHANGED <<payload, runStatus>>
    /\ UNCHANGED <<steerCall, steerNote, source, agent, replacements>>

\* stopRunner
SourceStopped ==
    /\ Awaits
    /\ steerFiles.stop
    /\ steerFiles' = [steerFiles EXCEPT !.stop = FALSE]
    /\ IF payload.state = "running"
       THEN SourceSaves([payload EXCEPT !.state = "stopped", !.step = "over"])
       ELSE UNCHANGED <<payload, runStatus>>
    /\ UNCHANGED <<steerCall, steerNote, source, agent, replacements>>

\* An earlier step failed, or the run was interrupted or stopped before the step.
StepNeverBegins ==
    /\ Awaits
    /\ source.pc = "earlier"
    /\ ~ source.whole \/ payload.state # "running"
    /\ source' = [source EXCEPT !.pc = "later"]
    /\ UNCHANGED <<steerCall, steerNote, payload, runStatus, steerFiles, agent, replacements>>

\* The child ends, by itself or killed, and the runner hears of it.
ChildOver ==
    /\ Awaits
    /\ source.pc = "step"
    /\ agent' = [agent EXCEPT !.pc = "ended", !.sent = {}]
    /\ source' = [source EXCEPT !.pc = "later"]
    /\ SourceSaves([payload EXCEPT !.step = "over"])
    /\ UNCHANGED <<steerCall, steerNote, steerFiles, replacements>>

\* The end of the run: the inbox is closed before its last reading. Acknowledgements the
\* runner has not read by then stay on disk.
ClosesInbox ==
    /\ Awaits
    /\ source.pc = "later"
    /\ source' = [source EXCEPT !.pc = "closed"]
    /\ payload' = [payload EXCEPT !.state = IF @ = "running" THEN "complete" ELSE @]
    /\ steerFiles' = [steerFiles EXCEPT !.closed = TRUE]
    /\ UNCHANGED <<steerCall, steerNote, runStatus, agent, replacements>>

Unanswered == {"scheduled", "routed"}

RunOver ==
    /\ source.pc = "closed"
    /\ source' = [source EXCEPT !.pc = "over"]
    /\ LET failed == steerFiles.inbox \cup InState(Unanswered) IN
         SourceSaves([LedgerWith(payload, failed, "failed") EXCEPT !.ended = TRUE])
    /\ steerFiles' = RoutedFiles(steerFiles.inbox)
    /\ UNCHANGED <<steerCall, steerNote, agent, replacements>>

SourceDies ==
    /\ source.pc \in {"earlier", "step", "later", "closed"}
    /\ source' = [source EXCEPT !.pc = "dead", !.ack = NoSteerAck]
    /\ payload' = runStatus  \* what is left of it
    /\ UNCHANGED <<steerCall, steerNote, runStatus, steerFiles, agent, replacements>>

(***************************************************************************)
(* The child, which may outlive a runner that dies.                        *)
(***************************************************************************)
\* flush: Pi may refuse the message.
ChildTakes(s) ==
    /\ agent.pc = "up"
    /\ s \in steerFiles.target
    /\ \/ /\ agent.steers
          /\ agent' = [agent EXCEPT !.sent = @ \cup {s}]
          /\ steerFiles' = [steerFiles EXCEPT !.target = @ \ {s}]
       \/ /\ steerFiles' = [steerFiles EXCEPT !.target = @ \ {s}, !.failed = @ \cup {s}]
          /\ UNCHANGED agent
    /\ UNCHANGED <<steerCall, steerNote, source, payload, runStatus, replacements>>

\* onInput
ChildAccepts(s) ==
    /\ agent.pc = "up"
    /\ s \in agent.sent
    /\ agent' = [agent EXCEPT !.sent = @ \ {s}]
    /\ steerFiles' = [steerFiles EXCEPT !.delivered = @ \cup {s}]
    /\ UNCHANGED <<steerCall, steerNote, source, payload, runStatus, replacements>>

OrphanEnds ==
    /\ source.pc = "dead"
    /\ agent.pc = "up"
    /\ agent' = [agent EXCEPT !.pc = "ended", !.sent = {}]
    /\ UNCHANGED <<steerCall, steerNote, source, payload, runStatus, steerFiles, replacements>>

CallSteps(s) ==
    \/ SteerAsks(s) \/ SteerWrites(s) \/ SteerWithdraws(s) \/ SteerQueued(s)
    \/ SteerReturns(s) \/ SteerLapses(s)
    \/ SteerClaims(s) \/ SteerNotNeeded(s) \/ SteerRefused(s) \/ SteerReleases(s)
    \/ SteerInterrupts(s) \/ SteerFindsNoRunner(s) \/ SteerSeesPause(s) \/ SteerGivesUp(s)
    \/ SteerRevives(s) \/ SteerCannotRevive(s) \/ SteerEntersRecovery(s) \/ SteerEntersFailure(s)

SteeringNext ==
    \/ \E s \in Steer :
          CallSteps(s) \/ SourceTakes(s) \/ SourceReadsAck(s) \/ ChildTakes(s) \/ ChildAccepts(s)
    \/ UserInterrupts \/ UserStops \/ SourceReconciled \/ SteererDies
    \/ StepBegins \/ SourceEntersAck \/ SourceHearsDeaf \/ SourceInterrupted \/ SourceStopped
    \/ StepNeverBegins \/ ChildOver \/ ClosesInbox \/ RunOver \/ SourceDies
    \/ OrphanEnds

SteeringSpec == SteeringInit /\ [][SteeringNext]_steeringVars

(***************************************************************************)
(* "Recovery launches a replacement only after the source is confirmed     *)
(* paused" (README.md:1714): of the child and its replacements one works   *)
(* at a time, however many calls recover and whoever dies.                 *)
(***************************************************************************)
ReplacementAlone ==
    Cardinality(replacements) + (IF agent.pc = "up" THEN 1 ELSE 0) <= 1

(***************************************************************************)
(* A runner that has ended leaves no request behind: none is open in its   *)
(* ledger as it wrote it last, and one that still lies in the inbox is of  *)
(* a call that is about to withdraw it, or of a Pi that died over it.      *)
(***************************************************************************)
EndedRunAnswers ==
    source.pc = "over" =>
        /\ InState({"scheduled", "routed"}) = {}
        /\ \A s \in steerFiles.inbox : steerCall[s] \in {"queued", "queued early", "gone"}
===============================================================================
