----------------------------- MODULE SteeringProofs -----------------------------
(***************************************************************************)
(* Proofs about the recovery of a run that does not take its guidance: who *)
(* holds the claim is the only one that can launch a replacement, and it   *)
(* does so only once the run has ended.                                    *)
(***************************************************************************)
EXTENDS Steering, FiniteSetTheorems, TLAPS

CallState == {"idle", "asked", "asked early", "queued", "queued early", "waiting", "lapsed", "claimed",
              "pausing", "reviving", "revived", "failing", "done", "gone"}

Entry == {"none", "scheduled", "routed", "failed", "delivered", "late", "recovered"}

Statuses == [state : {"running", "paused", "stopped", "failed", "complete"},
             step : {"pending", "running", "over"}, ended : BOOLEAN, ledger : [Steer -> Entry]]

Acks == [of : Steer, state : Entry]

Sources == [pc : {"earlier", "step", "later", "closed", "over", "dead"}, whole : BOOLEAN, deaf : BOOLEAN,
            ack : Acks \cup {NoSteerAck}]

Files == [inbox : SUBSET Steer, closed : BOOLEAN, target : SUBSET Steer, delivered : SUBSET Steer,
          failed : SUBSET Steer, claim : SUBSET Steer, markers : SUBSET Steer,
          interrupt : BOOLEAN, stop : BOOLEAN]

Agents == [pc : {"none", "up", "ended"}, steers : BOOLEAN, sent : SUBSET Steer]

Notes == [of : Steer, status : Statuses]

SteeringTypeOK ==
    /\ steerCall \in [Steer -> CallState]
    /\ steerNote \in Notes \cup {NoNote}
    /\ source \in Sources
    /\ payload \in Statuses
    /\ runStatus \in Statuses
    /\ steerFiles \in Files
    /\ agent \in Agents
    /\ replacements \subseteq Steer

(***************************************************************************)
(* What a call does without an await is done by one call at a time.        *)
(***************************************************************************)
Busy == CallState \ {"idle", "waiting", "pausing", "reviving", "done", "gone"}

InPi(s) == steerCall[s] \in Busy

OneInPi == \A s, t \in Steer : InPi(s) /\ InPi(t) => s = t

(***************************************************************************)
(* A pause that counts is that of a run that is over: no copy of the       *)
(* status, the one a failing call will write back included, tells it       *)
(* earlier, and the child has ended by then.                               *)
(***************************************************************************)
Confirmed(status) == status.state = "paused" /\ status.ended

PauseIsLast ==
    /\ Confirmed(runStatus) => source.pc = "over"
    /\ \A s \in Steer : steerCall[s] = "failing" =>
          steerNote \in Notes /\ (Confirmed(steerNote.status) => source.pc = "over")
    /\ source.pc \notin {"over", "dead"} => ~ payload.ended
    /\ source.pc = "earlier" => agent.pc = "none"
    /\ source.pc \in {"later", "closed", "over"} => agent.pc # "up"

\* The claim is of the one call that recovers.
Recovering == {"claimed", "pausing", "reviving", "revived"}

ClaimHeld ==
    /\ \A s \in Steer : steerCall[s] \in Recovering => steerFiles.claim = {s}
    /\ \A s \in Steer : steerCall[s] \in {"reviving", "revived"} => source.pc = "over"
    /\ \A s \in replacements : steerCall[s] \in {"revived", "done"} /\ steerFiles.claim = {s}
    /\ replacements # {} => source.pc = "over"

\* The end of the run answers what it finds, and what comes later is withdrawn.
InboxAnswered ==
    /\ source.pc \in {"closed", "over"} => steerFiles.closed
    /\ EndedRunAnswers

SteeringInv == SteeringTypeOK /\ OneInPi /\ PauseIsLast /\ ClaimHeld /\ InboxAnswered

-----------------------------------------------------------------------------
\* The note of a failing call is none of those that are empty.
LEMMA NoteOrNot == NoNote \notin Notes /\ NoSteerAck \notin Acks
<1>1. NoNote \notin Notes
  <2> SUFFICES ASSUME NoNote \in Notes PROVE FALSE
    OBVIOUS
  <2>1. DOMAIN NoNote = {"of"}
    BY DEF NoNote
  <2>2. DOMAIN NoNote = {"of", "status"}
    BY DEF Notes
  <2> QED
    BY <2>1, <2>2
<1>2. NoSteerAck \notin Acks
  <2> SUFFICES ASSUME NoSteerAck \in Acks PROVE FALSE
    OBVIOUS
  <2>1. DOMAIN NoSteerAck = {"of"}
    BY DEF NoSteerAck
  <2>2. DOMAIN NoSteerAck = {"of", "state"}
    BY DEF Acks
  <2> QED
    BY <2>1, <2>2
<1> QED
  BY <1>1, <1>2

\* The initial states satisfy the invariant.
LEMMA SteeringInvInit == SteeringInit => SteeringInv
<1> SUFFICES ASSUME SteeringInit PROVE SteeringInv
  OBVIOUS
<1>1. payload \in Statuses /\ runStatus = payload /\ ~ payload.ended
  BY DEF SteeringInit, Statuses, Entry
<1>2. source \in Sources /\ source.pc = "earlier"
  BY DEF SteeringInit, Sources
<1>3. steerFiles \in Files
  BY DEF SteeringInit, Files
<1>4. agent \in Agents /\ agent.pc = "none"
  BY DEF SteeringInit, Agents
<1>5. /\ steerCall \in [Steer -> CallState] /\ \A s \in Steer : steerCall[s] = "idle"
      /\ steerNote = NoNote /\ replacements = {}
  BY DEF SteeringInit, CallState
<1> QED
  BY <1>1, <1>2, <1>3, <1>4, <1>5 DEF SteeringInv, SteeringTypeOK, OneInPi, PauseIsLast, ClaimHeld,
     InboxAnswered, EndedRunAnswers, Confirmed, InPi, Busy, Recovering

\* Pi is free when no call is in the middle of something.
LEMMA FreeOfCalls == SteeringTypeOK => (PiFree <=> steerNote = NoNote /\ \A s \in Steer : ~ InPi(s))
  BY DEF SteeringTypeOK, PiFree, InPi, Busy, CallState

(***************************************************************************)
(* A steer call moves: what the invariant asks of such a step.             *)
(***************************************************************************)
NoteStep(s, at) ==
    \/ at # "failing" /\ steerCall[s] # "failing" /\ UNCHANGED steerNote
    \/ at = "failing" /\ steerNote' = [of |-> s, status |-> runStatus]
    \/ at = "done" /\ steerNote' = NoNote /\ steerCall[s] = "failing"

FilesStep(s, at) ==
    /\ steerFiles' \in Files /\ steerFiles'.closed = steerFiles.closed
    /\ steerFiles'.inbox \subseteq steerFiles.inbox \cup {s}
    /\ source.pc = "over" /\ s \in steerFiles'.inbox => at \in {"queued", "queued early"}
    /\ \/ steerFiles'.claim = steerFiles.claim
       \/ steerFiles.claim = {} /\ steerFiles'.claim = {s}
       \/ steerCall[s] = "claimed" /\ at \notin Recovering /\ steerFiles'.claim = {}
    /\ at \in Recovering => steerFiles'.claim = {s}

CallStep(s, at) ==
    /\ Moved(s, at)
    /\ UNCHANGED <<source, payload, agent>>
    /\ at \in Busy => InPi(s) \/ PiFree
    /\ steerCall[s] # "done"
    /\ steerCall[s] = "revived" => at = "done"
    /\ at \in {"reviving", "revived"} => source.pc = "over"
    /\ NoteStep(s, at)
    /\ FilesStep(s, at)
    /\ runStatus' \in Statuses /\ (Confirmed(runStatus') => source.pc = "over")
    /\ \/ UNCHANGED replacements
       \/ at = "revived" /\ replacements' = replacements \cup {s}

\* It keeps the invariant.
LEMMA CallMoves ==
    ASSUME SteeringInv, NEW s \in Steer, NEW at \in CallState, CallStep(s, at)
    PROVE  SteeringInv'
<1> USE DEF SteeringInv, CallStep, NoteStep, FilesStep
<1>1. /\ steerCall' \in [Steer -> CallState] /\ steerCall'[s] = at
      /\ \A t \in Steer \ {s} : steerCall'[t] = steerCall[t]
  BY DEF Moved, SteeringTypeOK
<1>2. steerNote' \in Notes \cup {NoNote}
  <2>1. [of |-> s, status |-> runStatus] \in Notes
    BY DEF SteeringTypeOK, Notes
  <2> QED
    BY <2>1 DEF SteeringTypeOK
<1>3. SteeringTypeOK'
  BY <1>1, <1>2 DEF SteeringTypeOK
<1>4. OneInPi'
  <2>1. ASSUME NEW t \in Steer, InPi(t)', at \in Busy
        PROVE  t = s
    BY <1>1, <2>1, FreeOfCalls DEF OneInPi, InPi, Busy
  <2> QED
    BY <1>1, <2>1 DEF OneInPi, InPi
<1>5. PauseIsLast'
  <2>1. ASSUME NEW t \in Steer, steerCall'[t] = "failing"
        PROVE  steerNote' \in Notes /\ (Confirmed(steerNote.status)' => source.pc = "over")
    <3>1. CASE at # "failing" /\ steerCall[s] # "failing" /\ UNCHANGED steerNote
      BY <1>1, <2>1, <3>1 DEF PauseIsLast
    <3>2. CASE at = "failing" /\ steerNote' = [of |-> s, status |-> runStatus]
      <4>1. steerNote'.status = runStatus /\ steerNote' \in Notes
        BY <3>2 DEF SteeringTypeOK, Notes
      <4> QED
        BY <4>1 DEF PauseIsLast, Confirmed
    <3>3. CASE at = "done" /\ steerNote' = NoNote /\ steerCall[s] = "failing"
      BY <1>1, <2>1, <3>3 DEF OneInPi, InPi, Busy
    <3> QED
      BY <3>1, <3>2, <3>3
  <2> QED
    BY <2>1 DEF PauseIsLast, Confirmed
<1>6. ClaimHeld'
  <2>1. ASSUME NEW t \in Steer, steerCall'[t] \in Recovering
        PROVE  steerFiles'.claim = {t}
    <3>1. CASE t = s
      BY <1>1, <2>1, <3>1
    <3>2. CASE t # s
      <4>1. steerFiles.claim = {t}
        BY <1>1, <2>1, <3>2 DEF ClaimHeld
      <4>2. steerCall[s] # "claimed"
        BY <3>2, <4>1 DEF ClaimHeld, Recovering
      <4> QED
        BY <4>1, <4>2
    <3> QED
      BY <3>1, <3>2
  <2>2. ASSUME NEW t \in replacements
        PROVE  steerCall'[t] \in {"revived", "done"} /\ steerFiles'.claim = {t}
    <3>1. t \in Steer /\ steerCall[t] \in {"revived", "done"} /\ steerFiles.claim = {t}
      BY <2>2 DEF ClaimHeld, SteeringTypeOK
    <3>2. steerCall[s] # "claimed"
      BY <3>1 DEF ClaimHeld, Recovering
    <3>3. steerCall'[t] \in {"revived", "done"}
      BY <1>1, <3>1
    <3> QED
      BY <3>1, <3>2, <3>3
  <2>3. \A t \in Steer : steerCall'[t] \in {"reviving", "revived"} => source.pc = "over"
    BY <1>1 DEF ClaimHeld
  <2> QED
    BY <1>1, <2>1, <2>2, <2>3 DEF ClaimHeld, Recovering
<1>7. InboxAnswered'
  <2>1. ASSUME source.pc = "over", NEW t \in steerFiles'.inbox
        PROVE  steerCall'[t] \in {"queued", "queued early", "gone"}
    <3>1. t \in Steer
      BY <2>1 DEF Files
    <3> QED
      BY <1>1, <2>1, <3>1 DEF InboxAnswered, EndedRunAnswers
  <2> QED
    BY <2>1 DEF InboxAnswered, EndedRunAnswers, InState
<1> QED
  BY <1>3, <1>4, <1>5, <1>6, <1>7

\* The files of a claim that is withdrawn.
LEMMA WithdrawnFiles ==
    ASSUME SteeringInv, NEW s \in Steer
    PROVE  /\ ClaimWithdrawn(s) \in Files /\ ClaimWithdrawn(s).closed = steerFiles.closed
           /\ ClaimWithdrawn(s).inbox = steerFiles.inbox /\ ClaimWithdrawn(s).claim = {}
  BY DEF ClaimWithdrawn, SteeringInv, SteeringTypeOK, Files

\* What a request in the inbox of a run that is over tells of its call.
LEMMA InboxOfOver ==
    ASSUME SteeringInv, NEW s \in Steer, s \in steerFiles.inbox, source.pc = "over"
    PROVE  steerCall[s] \in {"queued", "queued early", "gone"}
  BY DEF SteeringInv, InboxAnswered, EndedRunAnswers

\* The files stay as they are.
LEMMA FilesStay ==
    ASSUME SteeringInv, NEW s \in Steer, NEW at \in CallState, UNCHANGED steerFiles,
           steerCall[s] \notin {"queued", "queued early", "gone"},
           at \in Recovering => steerCall[s] \in Recovering
    PROVE  FilesStep(s, at)
<1>1. source.pc = "over" => s \notin steerFiles.inbox
  BY InboxOfOver
<1>2. steerCall[s] \in Recovering => steerFiles.claim = {s}
  BY DEF SteeringInv, ClaimHeld
<1> QED
  BY <1>1, <1>2 DEF FilesStep, SteeringInv, SteeringTypeOK

\* A failure is a step.
LEMMA FailsStep ==
    ASSUME SteeringInv, NEW s \in Steer, Fails(s), UNCHANGED sourceVars, UNCHANGED replacements,
           InPi(s) \/ PiFree, steerCall[s] \notin {"done", "revived", "failing"},
           FilesStep(s, "done"), FilesStep(s, "failing")
    PROVE  \E at \in CallState : CallStep(s, at)
<1>1. /\ UNCHANGED <<source, payload, agent>> /\ runStatus' \in Statuses
      /\ Confirmed(runStatus') => source.pc = "over"
  BY DEF sourceVars, SteeringInv, SteeringTypeOK, PauseIsLast
<1>2. CASE runStatus.state = "running"
  <2>1. Moved(s, "done") /\ NoteStep(s, "done")
    BY <1>2 DEF Fails, NoteStep
  <2>2. CallStep(s, "done")
    BY <1>1, <2>1 DEF CallStep, Busy
  <2> QED
    BY <2>2 DEF CallState
<1>3. CASE runStatus.state # "running"
  <2>1. Moved(s, "failing") /\ NoteStep(s, "failing")
    BY <1>3 DEF Fails, NoteStep
  <2>2. CallStep(s, "failing")
    BY <1>1, <2>1 DEF CallStep
  <2> QED
    BY <2>2 DEF CallState
<1> QED
  BY <1>2, <1>3

\* A call that goes its way, and does not fail.
LEMMA PlainStep ==
    ASSUME SteeringInv, NEW s \in Steer, NEW at \in CallState, Moved(s, at),
           UNCHANGED <<steerNote, source, payload, agent, replacements>>,
           steerCall[s] \notin {"done", "failing"}, at \notin {"failing", "revived"},
           at \in Busy => InPi(s) \/ PiFree,
           steerCall[s] = "revived" => at = "done",
           at = "reviving" => source.pc = "over",
           FilesStep(s, at),
           runStatus' \in Statuses, Confirmed(runStatus') => source.pc = "over"
    PROVE  \E a \in CallState : CallStep(s, a)
<1>1. NoteStep(s, at)
  BY DEF NoteStep
<1>2. CallStep(s, at)
  BY <1>1 DEF CallStep
<1> QED
  BY <1>2

\* The status in which a late acceptance, a recovery or a failure was entered.
LEMMA EnteredStatus ==
    ASSUME NEW status \in Statuses, NEW s \in Steer, NEW state \in Entry
    PROVE  /\ Entered(status, s, state) \in Statuses
           /\ Entered(status, s, state).state = status.state
           /\ Entered(status, s, state).ended = status.ended
           /\ Entered(status, s, state).step = status.step
<1>1. [status.ledger EXCEPT ![s] = state] \in [Steer -> Entry]
  BY DEF Statuses
<1> QED
  BY <1>1 DEF Entered, Statuses

\* The acknowledgements that a call enters.
LEMMA LateStatus ==
    ASSUME SteeringInv
    PROVE  /\ WithLateAcks(runStatus) \in Statuses
           /\ WithLateAcks(runStatus).state = runStatus.state
           /\ WithLateAcks(runStatus).ended = runStatus.ended
<1>1. runStatus \in Statuses /\ runStatus.ledger \in [Steer -> Entry]
  BY DEF SteeringInv, SteeringTypeOK, Statuses
<1> DEFINE entry == [s \in Steer |->
            IF runStatus.ledger[s] = "none" \/ s \notin steerFiles.delivered \cup steerFiles.failed
            THEN runStatus.ledger[s]
            ELSE IF s \in steerFiles.failed THEN "failed" ELSE Entered(runStatus, s, "late").ledger[s]]
<1>2. \A s \in Steer : Entered(runStatus, s, "late").ledger[s] \in Entry
  BY <1>1, EnteredStatus DEF Entry, Statuses
<1>3. entry \in [Steer -> Entry]
  BY <1>1, <1>2 DEF Entry
<1>4. WithLateAcks(runStatus) = [runStatus EXCEPT !.ledger = entry]
  BY DEF WithLateAcks
<1> HIDE DEF entry
<1> QED
  BY <1>1, <1>3, <1>4 DEF Statuses

\* Every step of a call is one that the invariant allows.
LEMMA CallsStep ==
    ASSUME SteeringInv, NEW s \in Steer, CallSteps(s)
    PROVE  \E at \in CallState : CallStep(s, at)
<1>1. /\ steerFiles \in Files /\ runStatus \in Statuses /\ steerCall[s] \in CallState
      /\ Confirmed(runStatus) => source.pc = "over"
  BY DEF SteeringInv, SteeringTypeOK, PauseIsLast
<1>2. steerCall[s] \in Recovering => steerFiles.claim = {s}
  BY DEF SteeringInv, ClaimHeld
<1>3. CASE SteerAsks(s)
  <2>1. PICK at \in {"asked early", "asked"} : Moved(s, at)
    BY <1>3 DEF SteerAsks
  <2>2. FilesStep(s, at)
    BY <1>3, FilesStay DEF SteerAsks, CallState, Recovering
  <2> QED
    BY <1>1, <1>3, <2>1, <2>2, PlainStep DEF SteerAsks, sourceVars, CallState
<1>4. CASE SteerWrites(s)
  <2>1. PICK at \in {"queued early", "queued"} : Moved(s, at)
    BY <1>4 DEF SteerWrites
  <2>2. FilesStep(s, at)
    BY <1>1, <1>4 DEF SteerWrites, FilesStep, Files, Recovering
  <2> QED
    BY <1>1, <1>4, <2>1, <2>2, PlainStep DEF SteerWrites, sourceVars, CallState, InPi, Busy
<1>5. CASE SteerWithdraws(s)
  <2>1. FilesStep(s, "done")
    BY <1>1, <1>5 DEF SteerWithdraws, FilesStep, Files, Recovering
  <2> QED
    BY <1>1, <1>5, <2>1, PlainStep DEF SteerWithdraws, sourceVars, CallState, Busy
<1>6. CASE SteerQueued(s)
  <2>1. PICK at \in {"waiting", "done"} : Moved(s, at)
    BY <1>6 DEF SteerQueued
  <2>2. source.pc # "over"
    BY <1>6 DEF SteerQueued, Withdrawn, SteeringInv, InboxAnswered
  <2>3. FilesStep(s, at)
    BY <1>1, <1>6, <2>2 DEF SteerQueued, FilesStep, Recovering
  <2> QED
    BY <1>1, <1>6, <2>1, <2>3, PlainStep DEF SteerQueued, sourceVars, CallState, Busy
<1>7. CASE SteerReturns(s)
  <2>1. FilesStep(s, "done")
    BY <1>7, FilesStay DEF SteerReturns, CallState, Recovering
  <2> QED
    BY <1>1, <1>7, <2>1, PlainStep DEF SteerReturns, sourceVars, CallState, Busy
<1>8. CASE SteerLapses(s)
  <2>1. FilesStep(s, "lapsed")
    BY <1>8, FilesStay DEF SteerLapses, CallState, Recovering
  <2> QED
    BY <1>1, <1>8, <2>1, PlainStep DEF SteerLapses, sourceVars, CallState
<1>9. CASE SteerClaims(s)
  <2>1. source.pc = "over" => s \notin steerFiles.inbox
    BY <1>9, InboxOfOver DEF SteerClaims
  <2>2. FilesStep(s, "claimed")
    BY <1>1, <1>9, <2>1 DEF SteerClaims, ClaimFree, FilesStep, Files
  <2> QED
    BY <1>1, <1>9, <2>2, PlainStep DEF SteerClaims, sourceVars, CallState, InPi, Busy
<1>10. CASE SteerNotNeeded(s)
  <2>1. FilesStep(s, "done")
    BY <1>10, FilesStay DEF SteerNotNeeded, CallState, Recovering
  <2> QED
    BY <1>1, <1>10, <2>1, PlainStep DEF SteerNotNeeded, sourceVars, CallState, Busy
<1>11. CASE SteerRefused(s)
  <2>1. FilesStep(s, "done") /\ FilesStep(s, "failing")
    BY <1>11, FilesStay DEF SteerRefused, CallState, Recovering
  <2> QED
    BY <1>11, <2>1, FailsStep DEF SteerRefused, InPi, Busy, CallState
<1>12. CASE SteerReleases(s)
  <2>1. source.pc = "over" => s \notin steerFiles.inbox
    BY <1>12, InboxOfOver DEF SteerReleases
  <2>2. FilesStep(s, "done")
    BY <1>12, <2>1, WithdrawnFiles DEF SteerReleases, FilesStep, Recovering
  <2> QED
    BY <1>1, <1>12, <2>2, PlainStep DEF SteerReleases, sourceVars, CallState, Busy
<1>13. CASE SteerInterrupts(s)
  <2>1. source.pc = "over" => s \notin steerFiles.inbox
    BY <1>13, InboxOfOver DEF SteerInterrupts
  <2>2. FilesStep(s, "pausing")
    BY <1>1, <1>2, <1>13, <2>1 DEF SteerInterrupts, FilesStep, Files, Recovering
  <2> QED
    BY <1>1, <1>13, <2>2, PlainStep DEF SteerInterrupts, sourceVars, CallState, Busy
<1>14. CASE SteerFindsNoRunner(s)
  <2>1. source.pc = "over" => s \notin steerFiles.inbox
    BY <1>14, InboxOfOver DEF SteerFindsNoRunner
  <2>2. FilesStep(s, "done") /\ FilesStep(s, "failing")
    BY <1>14, <2>1, WithdrawnFiles DEF SteerFindsNoRunner, FilesStep, Recovering
  <2> QED
    BY <1>14, <2>2, FailsStep DEF SteerFindsNoRunner, InPi, Busy, CallState
<1>15. CASE SteerSeesPause(s)
  <2>1. source.pc = "over" /\ s \notin steerFiles.inbox
    BY <1>1, <1>15, InboxOfOver DEF SteerSeesPause, PauseConfirmed, Confirmed
  <2>2. FilesStep(s, "reviving")
    BY <1>1, <1>2, <1>15, <2>1 DEF SteerSeesPause, FilesStep, Files, Recovering
  <2>3. runStatus' \in Statuses
    BY <1>15, LateStatus DEF SteerSeesPause
  <2> QED
    BY <1>15, <2>1, <2>2, <2>3, PlainStep DEF SteerSeesPause, CallState, Busy
<1>16. CASE SteerGivesUp(s)
  <2>1. FilesStep(s, "done") /\ FilesStep(s, "failing")
    BY <1>16, FilesStay DEF SteerGivesUp, CallState, Recovering
  <2> QED
    BY <1>16, <2>1, FailsStep DEF SteerGivesUp
<1>17. CASE SteerRevives(s)
  <2>1. FilesStep(s, "revived")
    BY <1>17, FilesStay DEF SteerRevives, CallState, Recovering
  <2>2. source.pc = "over"
    BY <1>17 DEF SteerRevives, SteeringInv, ClaimHeld
  <2>3. CallStep(s, "revived")
    BY <1>1, <1>17, <2>1, <2>2 DEF SteerRevives, sourceVars, CallStep, NoteStep
  <2> QED
    BY <2>3 DEF CallState
<1>18. CASE SteerCannotRevive(s)
  <2>1. FilesStep(s, "done") /\ FilesStep(s, "failing")
    BY <1>18, FilesStay DEF SteerCannotRevive, CallState, Recovering
  <2> QED
    BY <1>18, <2>1, FailsStep DEF SteerCannotRevive
<1>19. CASE SteerEntersRecovery(s)
  <2>1. FilesStep(s, "done")
    BY <1>19, FilesStay DEF SteerEntersRecovery, CallState, Recovering
  <2>2. runStatus' \in Statuses /\ source.pc = "over"
    BY <1>1, <1>19, EnteredStatus DEF SteerEntersRecovery, Entry, SteeringInv, ClaimHeld
  <2> QED
    BY <1>19, <2>1, <2>2, PlainStep DEF SteerEntersRecovery, CallState, Busy
<1>20. CASE SteerEntersFailure(s)
  <2>1. FilesStep(s, "done")
    BY <1>20, FilesStay DEF SteerEntersFailure, CallState, Recovering
  <2>2. steerNote \in Notes /\ steerNote.status \in Statuses
        /\ (Confirmed(steerNote.status) => source.pc = "over")
    BY <1>20 DEF SteerEntersFailure, SteeringInv, PauseIsLast, Notes
  <2>3. runStatus' \in Statuses /\ (Confirmed(runStatus') => source.pc = "over")
    <3> PICK status : status = steerNote.status
      OBVIOUS
    <3>1. runStatus' = Entered(status, s, "failed") /\ status \in Statuses
      BY <1>20, <2>2 DEF SteerEntersFailure
    <3>2. "failed" \in Entry
      BY DEF Entry
    <3> QED
      BY <2>2, <3>1, <3>2, EnteredStatus DEF Confirmed
  <2>4. CallStep(s, "done")
    BY <1>20, <2>1, <2>3 DEF SteerEntersFailure, CallStep, NoteStep, Busy
  <2> QED
    BY <2>4 DEF CallState
<1> QED
  BY <1>3, <1>4, <1>5, <1>6, <1>7, <1>8, <1>9, <1>10, <1>11, <1>12, <1>13, <1>14, <1>15, <1>16,
     <1>17, <1>18, <1>19, <1>20 DEF CallSteps

(***************************************************************************)
(* The runner, the child and the others move: what the invariant asks.     *)
(***************************************************************************)
Alive == {"earlier", "step", "later", "closed"}

TypesKept ==
    /\ source' \in Sources /\ payload' \in Statuses /\ runStatus' \in Statuses
    /\ steerFiles' \in Files /\ agent' \in Agents

OtherStep ==
    /\ UNCHANGED <<steerCall, steerNote, replacements>>
    /\ TypesKept
    /\ steerFiles'.claim = steerFiles.claim
    /\ source.pc = "over" => source'.pc = "over"
    /\ Confirmed(runStatus') => source'.pc = "over"
    /\ source'.pc \notin {"over", "dead"} => ~ payload'.ended
    /\ source'.pc = "earlier" => agent'.pc = "none"
    /\ source'.pc \in {"later", "closed", "over"} => agent'.pc # "up"
    /\ source'.pc \in {"closed", "over"} => steerFiles'.closed
    /\ source'.pc = "over" =>
         \/ steerFiles'.inbox = {} /\ \A s \in Steer : payload'.ledger[s] \notin {"scheduled", "routed"}
         \/ source.pc = "over" /\ UNCHANGED payload /\ steerFiles'.inbox = steerFiles.inbox

\* Such a step keeps the invariant.
LEMMA OtherMoves ==
    ASSUME SteeringInv, OtherStep
    PROVE  SteeringInv'
<1> USE DEF SteeringInv, OtherStep
<1>1. SteeringTypeOK'
  BY DEF SteeringTypeOK, TypesKept
<1>2. OneInPi'
  BY DEF OneInPi, InPi
<1>3. PauseIsLast'
  BY DEF PauseIsLast, Confirmed
<1>4. ClaimHeld'
  BY DEF ClaimHeld
<1>5. InboxAnswered'
  BY DEF InboxAnswered, EndedRunAnswers, InState, SteeringTypeOK
<1> QED
  BY <1>1, <1>2, <1>3, <1>4, <1>5

\* What a step may use of the invariant.
LEMMA Standing ==
    ASSUME SteeringInv
    PROVE  /\ source \in Sources /\ payload \in Statuses /\ runStatus \in Statuses
           /\ steerFiles \in Files /\ agent \in Agents
           /\ Confirmed(runStatus) => source.pc = "over"
           /\ source.pc \notin {"over", "dead"} => ~ payload.ended
           /\ source.pc = "earlier" => agent.pc = "none"
           /\ source.pc \in {"later", "closed", "over"} => agent.pc # "up"
           /\ source.pc \in {"closed", "over"} => steerFiles.closed
  BY DEF SteeringInv, SteeringTypeOK, PauseIsLast, InboxAnswered

\* A ledger with some requests entered is a ledger.
LEMMA LedgerStatus ==
    ASSUME NEW status \in Statuses, NEW those, NEW state \in Entry
    PROVE  /\ LedgerWith(status, those, state) \in Statuses
           /\ LedgerWith(status, those, state).ended = status.ended
           /\ LedgerWith(status, those, state).state = status.state
           /\ \A s \in Steer : LedgerWith(status, those, state).ledger[s] =
                                 IF s \in those THEN state ELSE status.ledger[s]
<1> DEFINE ledger == [s \in Steer |-> IF s \in those THEN state ELSE status.ledger[s]]
<1>1. ledger \in [Steer -> Entry]
  BY DEF Statuses
<1>2. LedgerWith(status, those, state) = [status EXCEPT !.ledger = ledger]
  BY DEF LedgerWith
<1>3. \A s \in Steer : ledger[s] = IF s \in those THEN state ELSE status.ledger[s]
  OBVIOUS
<1> HIDE DEF ledger
<1> QED
  BY <1>1, <1>2, <1>3 DEF Statuses

\* The files of requests that the runner takes.
LEMMA RoutedTypes ==
    ASSUME SteeringInv, NEW those, those \subseteq Steer
    PROVE  /\ RoutedFiles(those) \in Files /\ RoutedFiles(those).claim = steerFiles.claim
           /\ RoutedFiles(those).closed = steerFiles.closed
           /\ RoutedFiles(those).inbox = steerFiles.inbox \ those
  BY Standing DEF RoutedFiles, Files

\* A handler of the runner that leaves its main flow where it is, and the run open.
LEMMA HandlerStep ==
    ASSUME SteeringInv, source.pc \in {"earlier", "step", "later"}, source'.pc = source.pc,
           TypesKept, UNCHANGED <<steerCall, steerNote, agent, replacements>>,
           steerFiles'.claim = steerFiles.claim,
           ~ payload'.ended, runStatus' = payload' \/ UNCHANGED runStatus
    PROVE  OtherStep
  BY Standing DEF OtherStep, Confirmed

\* The handlers of the runner.
LEMMA HandlersStep ==
    ASSUME SteeringInv,
           \/ \E s \in Steer : SourceTakes(s) \/ SourceReadsAck(s)
           \/ SourceEntersAck \/ SourceHearsDeaf \/ SourceInterrupted \/ SourceStopped
    PROVE  OtherStep
<1> USE Standing
<1>1. ASSUME NEW s \in Steer, SourceTakes(s)
      PROVE  OtherStep
  <2>1. Verdict \in Entry
    BY DEF Verdict, Entry
  <2>2. /\ source.pc \in {"earlier", "step", "later"}
        /\ UNCHANGED <<steerCall, steerNote, source, agent, replacements>>
        /\ payload' = LedgerWith(payload, {s}, Verdict) /\ runStatus' = payload'
        /\ steerFiles' = RoutedFiles({s})
    BY <1>1 DEF SourceTakes, SourceSaves, Awaits
  <2>3. payload' \in Statuses /\ payload'.ended = payload.ended
    BY <2>1, <2>2, LedgerStatus
  <2>4. steerFiles' \in Files /\ steerFiles'.claim = steerFiles.claim
    BY <2>2, RoutedTypes
  <2> QED
    BY <2>2, <2>3, <2>4, HandlerStep DEF TypesKept
<1>2. ASSUME NEW s \in Steer, SourceReadsAck(s)
      PROVE  OtherStep
  <2>1. /\ source.pc \in {"earlier", "step", "later"} /\ source'.pc = source.pc
        /\ UNCHANGED <<steerCall, steerNote, payload, runStatus, agent, replacements>>
        /\ steerFiles' \in Files /\ steerFiles'.claim = steerFiles.claim
    BY <1>2 DEF SourceReadsAck, Awaits, Files, Sources
  <2>2. source' \in Sources
    <3> DEFINE ack == [of |-> s, state |-> IF s \in steerFiles.failed THEN "failed"
                                           ELSE IF s \in steerFiles.markers THEN "late" ELSE "delivered"]
    <3>1. ack \in Acks
      BY DEF Acks, Entry
    <3>2. source' = [source EXCEPT !.ack = ack]
      BY <1>2 DEF SourceReadsAck
    <3> HIDE DEF ack
    <3> QED
      BY <3>1, <3>2 DEF Sources
  <2> QED
    BY <2>1, <2>2, HandlerStep DEF TypesKept
<1>3. CASE SourceEntersAck
  <2>1. source.ack \in Acks /\ source.ack.of \in Steer /\ source.ack.state \in Entry
    BY <1>3 DEF SourceEntersAck, Sources, Acks
  <2>2. /\ source.pc \in {"earlier", "step", "later"} /\ source'.pc = source.pc /\ source' \in Sources
        /\ payload' = Entered(payload, source.ack.of, source.ack.state) /\ runStatus' = payload'
        /\ UNCHANGED <<steerCall, steerNote, steerFiles, agent, replacements>>
    BY <1>3 DEF SourceEntersAck, SourceSaves, Sources
  <2>3. payload' \in Statuses /\ payload'.ended = payload.ended
    BY <2>1, <2>2, EnteredStatus
  <2> QED
    BY <2>2, <2>3, HandlerStep DEF TypesKept
<1>4. CASE SourceHearsDeaf
  <2>1. /\ source.pc \in {"earlier", "step", "later"} /\ source'.pc = source.pc /\ source' \in Sources
        /\ payload' = LedgerWith(payload, InState({"scheduled", "routed"}), "failed") /\ runStatus' = payload'
        /\ UNCHANGED <<steerCall, steerNote, steerFiles, agent, replacements>>
    BY <1>4 DEF SourceHearsDeaf, SourceSaves, Awaits, Sources
  <2>2. "failed" \in Entry
    BY DEF Entry
  <2>3. payload' \in Statuses /\ payload'.ended = payload.ended
    BY <2>1, <2>2, LedgerStatus
  <2> QED
    BY <2>1, <2>3, HandlerStep DEF TypesKept
<1>5. CASE SourceInterrupted
  <2>1. /\ source.pc \in {"earlier", "step", "later"}
        /\ UNCHANGED <<steerCall, steerNote, source, agent, replacements>>
        /\ steerFiles' \in Files /\ steerFiles'.claim = steerFiles.claim
    BY <1>5 DEF SourceInterrupted, Awaits, Files
  <2>2. payload' \in Statuses /\ payload'.ended = payload.ended
        /\ (runStatus' = payload' \/ UNCHANGED runStatus)
    BY <1>5 DEF SourceInterrupted, SourceSaves, Ended, Statuses
  <2> QED
    BY <2>1, <2>2, HandlerStep DEF TypesKept
<1>6. CASE SourceStopped
  <2>1. /\ source.pc \in {"earlier", "step", "later"}
        /\ UNCHANGED <<steerCall, steerNote, source, agent, replacements>>
        /\ steerFiles' \in Files /\ steerFiles'.claim = steerFiles.claim
    BY <1>6 DEF SourceStopped, Awaits, Files
  <2>2. payload' \in Statuses /\ payload'.ended = payload.ended
        /\ (runStatus' = payload' \/ UNCHANGED runStatus)
    BY <1>6 DEF SourceStopped, SourceSaves, Statuses
  <2> QED
    BY <2>1, <2>2, HandlerStep DEF TypesKept
<1> QED
  BY <1>1, <1>2, <1>3, <1>4, <1>5, <1>6

\* The main flow of the runner, and its death.
LEMMA FlowStep ==
    ASSUME SteeringInv,
           StepBegins \/ StepNeverBegins \/ ChildOver \/ ClosesInbox \/ RunOver \/ SourceDies
    PROVE  OtherStep
<1> USE Standing DEF OtherStep, TypesKept
<1>1. CASE StepBegins
  <2>1. "routed" \in Entry
    BY DEF Entry
  <2>2. /\ payload' = [LedgerWith(payload, InState({"scheduled"}), "routed") EXCEPT !.step = "running"]
        /\ runStatus' = payload' /\ source.pc = "earlier"
    BY <1>1 DEF StepBegins, SourceSaves
  <2>3. payload' \in Statuses /\ ~ payload'.ended
    BY <2>1, <2>2, LedgerStatus DEF Statuses
  <2>4. InState({"scheduled"}) \subseteq Steer
    BY DEF InState
  <2>5. steerFiles' \in Files /\ steerFiles'.claim = steerFiles.claim
    BY <1>1, <2>4 DEF StepBegins, Files
  <2>6. source' \in Sources /\ source'.pc = "step" /\ agent' \in Agents
    BY <1>1 DEF StepBegins, Sources, Agents
  <2> QED
    BY <1>1, <2>2, <2>3, <2>5, <2>6 DEF StepBegins, Confirmed
<1>2. CASE StepNeverBegins
  <2>1. source' \in Sources /\ source.pc = "earlier" /\ source'.pc = "later"
    BY <1>2 DEF StepNeverBegins, Sources
  <2> QED
    BY <1>2, <2>1 DEF StepNeverBegins
<1>3. CASE ChildOver
  <2>1. source' \in Sources /\ source.pc = "step" /\ source'.pc = "later"
        /\ agent' \in Agents /\ agent'.pc = "ended"
    BY <1>3 DEF ChildOver, Sources, Agents
  <2>2. payload' \in Statuses /\ ~ payload'.ended /\ runStatus' = payload'
    BY <1>3, <2>1 DEF ChildOver, SourceSaves, Statuses
  <2> QED
    BY <1>3, <2>1, <2>2 DEF ChildOver, Confirmed
<1>4. CASE ClosesInbox
  <2>1. source' \in Sources /\ source.pc = "later" /\ source'.pc = "closed"
        /\ steerFiles' \in Files /\ steerFiles'.closed /\ steerFiles'.claim = steerFiles.claim
    BY <1>4 DEF ClosesInbox, Sources, Files
  <2>2. payload' \in Statuses /\ ~ payload'.ended
    BY <1>4, <2>1 DEF ClosesInbox, Statuses
  <2> QED
    BY <1>4, <2>1, <2>2 DEF ClosesInbox
<1>5. CASE RunOver
  <2>1. PICK failed : failed = steerFiles.inbox \cup InState(Unanswered)
    OBVIOUS
  <2>2. /\ source.pc = "closed" /\ source' = [source EXCEPT !.pc = "over"]
        /\ payload' = [LedgerWith(payload, failed, "failed") EXCEPT !.ended = TRUE] /\ runStatus' = payload'
        /\ steerFiles' = RoutedFiles(steerFiles.inbox)
        /\ UNCHANGED <<steerCall, steerNote, agent, replacements>>
    BY <1>5, <2>1 DEF RunOver, SourceSaves
  <2>3. "failed" \in Entry
    BY DEF Entry
  <2>4. /\ payload' \in Statuses
        /\ \A s \in Steer : payload'.ledger[s] = IF s \in failed THEN "failed" ELSE payload.ledger[s]
    <3> PICK status : status = LedgerWith(payload, failed, "failed")
      OBVIOUS
    <3>1. /\ status \in Statuses
          /\ \A s \in Steer : status.ledger[s] = IF s \in failed THEN "failed" ELSE payload.ledger[s]
      BY <2>3, LedgerStatus
    <3> QED
      BY <2>2, <3>1 DEF Statuses
  <2>5. \A s \in Steer : payload'.ledger[s] \notin {"scheduled", "routed"}
    BY <2>1, <2>4 DEF InState, Unanswered
  <2>6. steerFiles.inbox \subseteq Steer
    BY DEF Files
  <2>7. /\ steerFiles' \in Files /\ steerFiles'.inbox = {} /\ steerFiles'.claim = steerFiles.claim
        /\ steerFiles'.closed = steerFiles.closed
    BY <2>2, <2>6, RoutedTypes
  <2>8. source' \in Sources /\ source'.pc = "over"
    BY <2>2 DEF Sources
  <2> QED
    BY <2>2, <2>4, <2>5, <2>7, <2>8
<1>6. CASE SourceDies
  <2>1. source' \in Sources /\ source.pc # "over" /\ source'.pc = "dead"
    BY <1>6 DEF SourceDies, Sources
  <2> QED
    BY <1>6, <2>1 DEF SourceDies
<1> QED
  BY <1>1, <1>2, <1>3, <1>4, <1>5, <1>6

\* The child, the user, and the one who finds a dead runner.
LEMMA AroundStep ==
    ASSUME SteeringInv,
           \/ \E s \in Steer : ChildTakes(s) \/ ChildAccepts(s)
           \/ UserInterrupts \/ UserStops \/ SourceReconciled \/ OrphanEnds
    PROVE  OtherStep
<1> USE Standing DEF OtherStep, TypesKept
<1>1. ASSUME NEW s \in Steer, ChildTakes(s)
      PROVE  OtherStep
  <2>1. agent' \in Agents /\ agent'.pc = agent.pc /\ agent.pc = "up"
    <3>1. agent.pc = "up" /\ (agent' = agent \/ agent' = [agent EXCEPT !.sent = @ \cup {s}])
      BY <1>1 DEF ChildTakes
    <3> QED
      BY <3>1 DEF Agents
  <2>2. steerFiles' \in Files /\ steerFiles'.claim = steerFiles.claim /\ steerFiles'.closed = steerFiles.closed
    <3>1. \/ steerFiles' = [steerFiles EXCEPT !.target = @ \ {s}]
          \/ steerFiles' = [steerFiles EXCEPT !.target = @ \ {s}, !.failed = @ \cup {s}]
      BY <1>1 DEF ChildTakes
    <3>2. CASE steerFiles' = [steerFiles EXCEPT !.target = @ \ {s}]
      BY <3>2 DEF Files
    <3>3. CASE steerFiles' = [steerFiles EXCEPT !.target = @ \ {s}, !.failed = @ \cup {s}]
      BY <3>3 DEF Files
    <3> QED
      BY <3>1, <3>2, <3>3
  <2> QED
    BY <1>1, <2>1, <2>2 DEF ChildTakes
<1>2. ASSUME NEW s \in Steer, ChildAccepts(s)
      PROVE  OtherStep
  <2>1. agent' \in Agents /\ agent'.pc = agent.pc /\ agent.pc = "up"
    BY <1>2 DEF ChildAccepts, Agents
  <2>2. steerFiles' \in Files /\ steerFiles'.claim = steerFiles.claim /\ steerFiles'.closed = steerFiles.closed
    BY <1>2 DEF ChildAccepts, Files
  <2> QED
    BY <1>2, <2>1, <2>2 DEF ChildAccepts
<1>3. CASE UserInterrupts \/ UserStops
  <2>1. /\ steerFiles' \in Files /\ steerFiles'.claim = steerFiles.claim
        /\ steerFiles'.closed = steerFiles.closed /\ steerFiles'.inbox = steerFiles.inbox
    BY <1>3 DEF UserInterrupts, UserStops, Files
  <2> QED
    BY <1>3, <2>1 DEF UserInterrupts, UserStops, sourceVars
<1>4. CASE SourceReconciled
  <2>1. runStatus' \in Statuses /\ runStatus'.state = "failed"
    BY <1>4 DEF SourceReconciled, Statuses
  <2> QED
    BY <1>4, <2>1 DEF SourceReconciled, Confirmed
<1>5. CASE OrphanEnds
  <2>1. agent' \in Agents /\ source.pc = "dead"
    BY <1>5 DEF OrphanEnds, Agents
  <2> QED
    BY <1>5, <2>1 DEF OrphanEnds
<1> QED
  BY <1>1, <1>2, <1>3, <1>4, <1>5

\* Pi dies: no call is left that could launch a second replacement.
LEMMA SteererDiesInv ==
    ASSUME SteeringInv, SteererDies
    PROVE  SteeringInv'
<1> USE DEF SteeringInv
<1>1. /\ steerCall' \in [Steer -> CallState] /\ steerNote' = NoNote
      /\ UNCHANGED <<source, payload, runStatus, agent, steerFiles, replacements>>
      /\ \A s \in Steer : /\ steerCall'[s] \in {"idle", "gone", "done"}
                          /\ steerCall[s] \in {"queued", "queued early", "gone"} => steerCall'[s] = "gone"
                          /\ steerCall[s] \in {"revived", "done"} => steerCall'[s] = "done"
  BY DEF SteererDies, sourceVars, CallState, SteeringTypeOK
<1>2. SteeringTypeOK'
  BY <1>1 DEF SteeringTypeOK
<1>3. OneInPi'
  BY <1>1 DEF OneInPi, InPi, Busy
<1>4. PauseIsLast'
  BY <1>1 DEF PauseIsLast, Confirmed
<1>5. ClaimHeld'
  BY <1>1 DEF ClaimHeld, Recovering, SteeringTypeOK
<1>6. InboxAnswered'
  <2>1. steerFiles.inbox \subseteq Steer
    BY DEF SteeringTypeOK, Files
  <2> QED
    BY <1>1, <2>1 DEF InboxAnswered, EndedRunAnswers, InState
<1> QED
  BY <1>2, <1>3, <1>4, <1>5, <1>6

\* The invariant is inductive.
LEMMA SteeringInvNext == SteeringInv /\ [SteeringNext]_steeringVars => SteeringInv'
<1> SUFFICES ASSUME SteeringInv, [SteeringNext]_steeringVars PROVE SteeringInv'
  OBVIOUS
<1>1. ASSUME NEW s \in Steer, CallSteps(s)
      PROVE  SteeringInv'
  BY <1>1, CallsStep, CallMoves
<1>2. CASE UNCHANGED steeringVars
  <2>1. OtherStep
    BY <1>2, Standing DEF steeringVars, OtherStep, TypesKept
  <2> QED
    BY <2>1, OtherMoves
<1> QED
  BY <1>1, <1>2, HandlersStep, FlowStep, AroundStep, OtherMoves, SteererDiesInv DEF SteeringNext

(***************************************************************************)
(* Of a child and its replacements one works at a time, however many calls *)
(* recover and whoever dies (README.md:1714): the claim is never given to  *)
(* a second call once a replacement may be launched.                       *)
(***************************************************************************)
THEOREM ReplacementAloneHolds == SteeringSpec => []ReplacementAlone
<1>1. SteeringInv => ReplacementAlone
  <2> SUFFICES ASSUME SteeringInv PROVE ReplacementAlone
    OBVIOUS
  <2>1. CASE replacements = {}
    BY <2>1, FS_EmptySet DEF ReplacementAlone
  <2>2. CASE replacements # {}
    <3>1. PICK s : s \in replacements /\ steerFiles.claim = {s}
      BY <2>2 DEF SteeringInv, ClaimHeld
    <3>2. replacements = {s}
      BY <3>1 DEF SteeringInv, ClaimHeld
    <3>3. Cardinality(replacements) = 1
      BY <3>2, FS_Singleton
    <3>4. agent.pc # "up"
      BY <2>2 DEF SteeringInv, ClaimHeld, PauseIsLast
    <3> QED
      BY <3>3, <3>4 DEF ReplacementAlone
  <2> QED
    BY <2>1, <2>2
<1> QED
  BY <1>1, SteeringInvInit, SteeringInvNext, PTL DEF SteeringSpec

(***************************************************************************)
(* A runner that has ended leaves no request unanswered: its last reading  *)
(* fails what is open, and a request written after that is withdrawn by    *)
(* its call (the mark of a closed inbox).                                  *)
(***************************************************************************)
THEOREM EndedRunAnswered == SteeringSpec => []EndedRunAnswers
<1>1. SteeringInv => EndedRunAnswers
  BY DEF SteeringInv, InboxAnswered
<1> QED
  BY <1>1, SteeringInvInit, SteeringInvNext, PTL DEF SteeringSpec
================================================================================
