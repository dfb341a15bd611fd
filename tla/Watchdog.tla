------------------------------- MODULE Watchdog -------------------------------
(***************************************************************************)
(* The main watchdog (src/watchdog/runtime.ts): it reviews the edits of a  *)
(* turn when the turn ends, and every so many tool results while it runs   *)
(* ("cadence" or mid-run reviews, which nobody awaits). A blocker shown at *)
(* the end of a turn is sent to the agent as a follow-up prompt.           *)
(*                                                                         *)
(* One session in a git repository. Pi awaits agent_end before it starts   *)
(* another turn, and compacts between turns. The text of deltas, scope and *)
(* warnings, the severity threshold, maxWarnings (null by default) and the *)
(* ledger of diagnostics are left out: any answer may carry any warning.   *)
(***************************************************************************)
EXTENDS Naturals, Sequences, FiniteSets

CONSTANTS
    Signature,          \* the contents the repository may have
    Finding,            \* what a warning may be about
    MaxAttempts,        \* autoFollow.maxAttempts
    StalemateRepeats,   \* autoFollow.stalemateRepeats
    Slots,              \* bound of the model: reviews in flight at once
    QueueCap            \* bound of the model: follow-ups that wait when a user prompts

ASSUME WatchdogAssumption ==
    /\ "clean" \in Signature
    /\ {MaxAttempts, StalemateRepeats, QueueCap} \subseteq Nat \ {0}
    /\ Slots \in Nat \ {0, 1}

VARIABLES
    dog,        \* the fields of MainWatchdogRuntime
    review,     \* the reviews in flight, by slot
    ending,     \* the agent_end handler that is awaited
    follow,     \* the follow-ups: counters, prompts to be recognised, prompts not yet started,
                \* and, as history, how many were sent since a user's prompt
    turn,       \* Pi's turn: idle, running or ending
    repo,       \* the change signature of the repository
    late        \* history: whether a superseded review has shown a warning

watchdogVars == <<dog, review, ending, follow, turn, repo, late>>

Nothing == "none"
Slot == 1..Slots
Warning == [finding : Finding, severity : {"concern", "blocker"}]
NoWarning == [finding |-> Nothing, severity |-> Nothing]

\* The last warning: a candidate, or displayed.
Candidate(w) == [warning |-> w, displayed |-> FALSE]
Shown(w) == [warning |-> w, displayed |-> TRUE]

\* The emission guard: the severity last accepted of each finding, and the one of this update.
FreshGuard == [severity |-> [f \in Finding |-> Nothing], update |-> Nothing]

NoReview == [flies |-> FALSE, mid |-> FALSE, current |-> FALSE, latest |-> FALSE,
             alone |-> FALSE, superseded |-> FALSE]
NoEnding == [stage |-> "none", current |-> FALSE, key |-> Nothing, slot |-> 0, displayed |-> FALSE]
NoFollow == [attempts |-> 0, identity |-> Nothing, repeats |-> 0]

WatchdogInit ==
    /\ repo = "clean"
    /\ \E on \in BOOLEAN :
          LET key == IF on THEN repo ELSE Nothing
          IN  dog = [enabled |-> on, disposed |-> FALSE, status |-> "idle", waiting |-> FALSE,
                     reviewing |-> FALSE, midRun |-> FALSE, active |-> 0, candidate |-> NoWarning,
                     guard |-> FreshGuard, last |-> Candidate(NoWarning),
                     turnStart |-> key, reviewed |-> key]
    /\ review = [i \in Slot |-> NoReview]
    /\ ending = NoEnding
    /\ follow = [count |-> NoFollow, pending |-> <<>>, queue |-> <<>>, sent |-> 0]
    /\ turn = "idle"
    /\ late = FALSE

Flying == {i \in Slot : review[i].flies}
FreeSlot == CHOOSE i \in Slot : ~ review[i].flies

(***************************************************************************)
(* A new epoch: what runs under the old one is no longer current.          *)
(***************************************************************************)
Outdated(reviews) ==
    [i \in Slot |-> [reviews[i] EXCEPT !.current = FALSE, !.superseded = reviews[i].flies]]

NewEpoch ==
    /\ review' = Outdated(review)
    /\ ending' = [ending EXCEPT !.current = FALSE]

invalidateActiveReview(d) ==
    [d EXCEPT !.status = "idle", !.reviewing = FALSE, !.waiting = FALSE,
              !.active = 0, !.candidate = NoWarning]

reset(d) == [invalidateActiveReview(d) EXCEPT !.midRun = FALSE, !.guard = FreshGuard]

(***************************************************************************)
(* before_agent_start, with a prompt of the user or with the follow-up     *)
(* that was sent first. It is taken for a follow-up if its text is still   *)
(* among the pending ones. The baseline of the turn's edits is taken.      *)
(***************************************************************************)
WithBaseline(d) ==
    LET now == IF d.enabled THEN repo ELSE Nothing
    IN  [d EXCEPT !.turnStart = now,
                  !.reviewed = IF d.reviewed = Nothing THEN now ELSE d.reviewed]

PromptStarts ==
    /\ turn = "idle" /\ ~ dog.disposed
    /\ turn' = "running"
    /\ dog' = WithBaseline(reset(dog))
    /\ NewEpoch
    /\ UNCHANGED <<repo, late>>

UserPrompts ==
    /\ Len(follow.queue) < QueueCap
    /\ PromptStarts
    /\ follow' = [follow EXCEPT !.count = NoFollow, !.sent = 0]

Without(s, k) == SubSeq(s, 1, k - 1) \o SubSeq(s, k + 1, Len(s))
FirstAt(s, x) == CHOOSE k \in DOMAIN s : s[k] = x /\ \A j \in 1..(k - 1) : s[j] # x

FollowUpStarts ==
    /\ follow.queue # <<>>
    /\ PromptStarts
    /\ LET prompt == Head(follow.queue)
           known == \E k \in DOMAIN follow.pending : follow.pending[k] = prompt
       IN  \/ /\ known
              /\ follow' = [follow EXCEPT !.queue = Tail(@),
                                          !.pending = Without(@, FirstAt(@, prompt))]
           \/ ~ known /\ follow' = [follow EXCEPT !.queue = Tail(@), !.count = NoFollow]

\* The agent, or a child that writes, changes the repository.
AgentEdits ==
    /\ turn = "running" /\ ~ dog.disposed
    /\ \E key \in Signature \ {repo} : repo' = key
    /\ UNCHANGED <<dog, review, ending, follow, turn, late>>

(***************************************************************************)
(* A review starts: reviewDelta up to its await. A mid-run one is counted  *)
(* as alone if no other mid-run review is in flight.                       *)
(***************************************************************************)
Reviewing(d, i) == [d EXCEPT !.reviewing = TRUE, !.active = i, !.candidate = NoWarning,
                             !.status = "reviewing"]

Started(mid) == [flies |-> TRUE, mid |-> mid, current |-> TRUE, latest |-> mid,
                 alone |-> \A i \in Flying : ~ review[i].mid, superseded |-> FALSE]

ToolResult ==
    /\ turn = "running" /\ ~ dog.disposed
    /\ dog.enabled /\ ~ dog.reviewing /\ ~ dog.waiting /\ ~ dog.midRun
    /\ Cardinality(Flying) < Slots - 1
    /\ dog' = [Reviewing(dog, FreeSlot) EXCEPT !.midRun = TRUE]
    /\ review' = [review EXCEPT ![FreeSlot] = Started(TRUE)]
    /\ UNCHANGED <<ending, follow, turn, repo, late>>

(***************************************************************************)
(* agent_end: nothing to review, or the mid-run review is cancelled and    *)
(* the diagnostics of the changed files are awaited.                       *)
(***************************************************************************)
Unchanged == repo \in {dog.turnStart, "clean"}

EndsUnreviewed ==
    /\ turn = "running" /\ ~ dog.disposed
    /\ turn' = "idle"
    /\ \/ (~ dog.enabled \/ Unchanged) /\ UNCHANGED dog
       \/ dog.enabled /\ ~ Unchanged /\ repo = dog.reviewed /\ dog' = [dog EXCEPT !.status = "idle"]
    /\ UNCHANGED <<review, ending, follow, repo, late>>

\* Bug: the review stays the one that `reviewing` speaks of.
cancelMidRunReviewHalf(d) ==
    IF ~ d.midRun THEN d
    ELSE [d EXCEPT !.midRun = FALSE, !.active = 0, !.candidate = NoWarning]

cancelMidRunReview(d) ==
    IF ~ d.midRun THEN d
    ELSE [d EXCEPT !.reviewing = FALSE, !.midRun = FALSE, !.active = 0, !.candidate = NoWarning]

EndsReviewed ==
    /\ turn = "running" /\ ~ dog.disposed
    /\ dog.enabled /\ ~ Unchanged /\ repo # dog.reviewed
    /\ turn' = "ending"
    /\ dog' = [cancelMidRunReview(dog) EXCEPT !.waiting = TRUE, !.guard.update = Nothing]
    /\ review' = IF dog.midRun THEN [i \in Slot |-> [review[i] EXCEPT !.latest = FALSE]] ELSE review
    /\ ending' = [NoEnding EXCEPT !.stage = "lsp", !.current = TRUE, !.key = repo]
    /\ UNCHANGED <<follow, repo, late>>

(***************************************************************************)
(* The emission guard accepts a warning: one for each update, each finding *)
(* once, and a concern may grow to a blocker.                              *)
(***************************************************************************)
Accepts(guard, w) ==
    LET grows == guard.severity[w.finding] = "concern" /\ w.severity = "blocker"
    IN  \/ guard.update = Nothing /\ guard.severity[w.finding] = Nothing
        \/ guard.update \in {Nothing, w.finding} /\ grows

Evaluated(guard, w) == [severity |-> [guard.severity EXCEPT ![w.finding] = w.severity],
                        update |-> w.finding]

(***************************************************************************)
(* An agent_end that has run to its end: a completed review settles the    *)
(* signature, and a blocker shown while it was awaited is followed up.     *)
(* Repeats are not counted further than the stalemate.                     *)
(***************************************************************************)
Settled(d, outcome) ==
    IF outcome = "completed" /\ d.status \notin {"failed", "stale"}
    THEN [d EXCEPT !.waiting = FALSE, !.reviewed = ending.key, !.status = "idle"]
    ELSE [d EXCEPT !.waiting = FALSE]

Counted(f) ==
    LET again == IF follow.count.identity # f THEN 1
                 ELSE IF follow.count.repeats = StalemateRepeats THEN StalemateRepeats
                 ELSE follow.count.repeats + 1
    IN  [follow.count EXCEPT !.identity = f, !.repeats = again]

FollowsUp(f) ==
    LET count == Counted(f)
    IN  IF count.repeats >= StalemateRepeats \/ count.attempts >= MaxAttempts
        THEN follow' = [follow EXCEPT !.count = count]
        ELSE \E prompts \in {<<f>>, <<>>} :
               follow' = [count   |-> [count EXCEPT !.attempts = @ + 1],
                          pending |-> follow.pending \o prompts,
                          queue   |-> follow.queue \o prompts,
                          sent    |-> IF follow.sent > MaxAttempts THEN follow.sent
                                      ELSE follow.sent + Len(prompts)]

queueAutoFollowIfNeeded(d, displayed) ==
    IF displayed /\ d.enabled /\ d.last.warning.severity = "blocker"
    THEN FollowsUp(d.last.warning.finding)
    ELSE UNCHANGED follow

AgentEndReturns(d, outcome, displayed) ==
    /\ dog' = Settled(d, outcome)
    /\ queueAutoFollowIfNeeded(d, displayed)
    /\ ending' = NoEnding
    /\ turn' = "idle"

(***************************************************************************)
(* The diagnostics arrive, with a warning or without, and the review of    *)
(* the turn starts, unless another one is thought to run.                  *)
(***************************************************************************)
LspIgnored ==
    /\ ending.stage = "lsp" /\ ~ (ending.current /\ dog.enabled)
    /\ ending' = NoEnding
    /\ turn' = "idle"
    /\ UNCHANGED <<dog, review, follow, repo, late>>

Diagnosed(w) ==
    IF w # NoWarning /\ Accepts(dog.guard, w)
    THEN [dog EXCEPT !.guard = Evaluated(dog.guard, w), !.last = Shown(w)]
    ELSE dog

LspAnswers(w) ==
    /\ ending.stage = "lsp" /\ ending.current /\ dog.enabled
    /\ LET displayed == w # NoWarning /\ Accepts(dog.guard, w)
           d == Diagnosed(w)
       IN  \/ /\ d.reviewing
              /\ AgentEndReturns(d, "stale", displayed)
              /\ UNCHANGED review
           \/ /\ ~ d.reviewing
              /\ dog' = Reviewing(d, FreeSlot)
              /\ review' = [i \in Slot |-> IF i = FreeSlot THEN Started(FALSE)
                                           ELSE [review[i] EXCEPT !.superseded = review[i].flies]]
              /\ ending' = [ending EXCEPT !.stage = "review", !.slot = FreeSlot, !.displayed = displayed]
              /\ UNCHANGED <<follow, turn>>
    /\ UNCHANGED <<repo, late>>

(***************************************************************************)
(* The model of a review emits a warning; only the current one is heard.   *)
(***************************************************************************)
\* Bug: the review's id is not compared.
isCurrentByEpoch(i) == ~ dog.disposed /\ review[i].current

isCurrent(i) == ~ dog.disposed /\ review[i].current /\ dog.active = i

ReviewEmits(i, w) ==
    /\ review[i].flies /\ isCurrent(i)
    /\ dog.enabled /\ Accepts(dog.guard, w)
    /\ dog' = [dog EXCEPT !.guard = Evaluated(dog.guard, w), !.last = Candidate(w), !.candidate = w]
    /\ UNCHANGED <<review, ending, follow, turn, repo, late>>

(***************************************************************************)
(* A review ends: it answers, it fails (a bad stop reason, or a throw), or *)
(* its time is over. A current answer shows the warning it was left with.  *)
(***************************************************************************)
Displays(i, how) == how = "answered" /\ isCurrent(i) /\ dog.candidate # NoWarning

Outcome(i, how) ==
    IF how = "timeout" THEN "timeout" ELSE IF isCurrent(i) THEN "completed" ELSE "stale"

\* What its answer and the finally of reviewDelta leave.
Reviewed(i, how) ==
    LET heard == IF Displays(i, how) THEN [dog EXCEPT !.last = Shown(dog.candidate)]
                 ELSE IF how = "failed" /\ isCurrent(i) THEN [dog EXCEPT !.status = "failed"]
                 ELSE dog
    IN  IF review[i].current /\ dog.active = i
        THEN [heard EXCEPT !.reviewing = FALSE, !.active = 0, !.candidate = NoWarning]
        ELSE heard

\* A warning that was not shown is stale, and no follow-up is made of it.
markLastWarningStale(d) ==
    IF d.last.displayed THEN d ELSE [d EXCEPT !.last = Candidate(NoWarning)]

MidRunEnded(i, how) ==
    LET d == Reviewed(i, how)
        told == IF how = "timeout" THEN [markLastWarningStale(d) EXCEPT !.status = "stale"] ELSE d
    IN  IF ~ review[i].latest THEN d
        ELSE [told EXCEPT !.midRun = FALSE, !.status = IF @ = "reviewing" THEN "idle" ELSE @]

ShowsLate(i, how) == late' = (late \/ (Displays(i, how) /\ review[i].superseded))

MidRunReviewEnds(i, how) ==
    /\ review[i].flies /\ review[i].mid
    /\ dog' = MidRunEnded(i, how)
    /\ review' = [review EXCEPT ![i] = NoReview]
    /\ ending' = IF ending.stage # "none" /\ Displays(i, how)
                 THEN [ending EXCEPT !.displayed = TRUE] ELSE ending
    /\ ShowsLate(i, how)
    /\ UNCHANGED <<follow, turn, repo>>

BoundaryReviewAnswers(i, how) ==
    /\ review[i].flies /\ ~ review[i].mid
    /\ how # "timeout"
    /\ review' = [review EXCEPT ![i] = NoReview]
    /\ AgentEndReturns(Reviewed(i, how), Outcome(i, how), ending.displayed \/ Displays(i, how))
    /\ ShowsLate(i, how)
    /\ UNCHANGED repo

BoundaryReviewTimesOut(i) ==
    /\ review[i].flies /\ ~ review[i].mid
    /\ dog' = markLastWarningStale([invalidateActiveReview(Reviewed(i, "timeout")) EXCEPT !.status = "stale"])
    /\ review' = Outdated([review EXCEPT ![i] = NoReview])
    /\ ending' = NoEnding
    /\ turn' = "idle"
    /\ UNCHANGED <<follow, repo, late>>

(***************************************************************************)
(* The session's override of the watchdog or of its model, the settings    *)
(* (read again by every handler), a compaction, and the session's end.     *)
(***************************************************************************)
SessionOverride ==
    /\ ~ dog.disposed
    /\ \E on \in BOOLEAN : dog' = [reset(dog) EXCEPT !.enabled = on]
    /\ NewEpoch
    /\ UNCHANGED <<follow, turn, repo, late>>

SettingsDisable ==
    /\ ~ dog.disposed /\ dog.enabled
    /\ dog' = [invalidateActiveReview(dog) EXCEPT !.enabled = FALSE]
    /\ NewEpoch
    /\ UNCHANGED <<follow, turn, repo, late>>

SettingsEnable ==
    /\ ~ dog.disposed /\ ~ dog.enabled
    /\ dog' = [dog EXCEPT !.enabled = TRUE]
    /\ UNCHANGED <<review, ending, follow, turn, repo, late>>

SessionCompacts ==
    /\ ~ dog.disposed /\ turn = "idle"
    /\ dog' = reset(dog)
    /\ NewEpoch
    /\ follow' = [follow EXCEPT !.pending = <<>>]
    /\ UNCHANGED <<turn, repo, late>>

SessionShutsDown ==
    /\ ~ dog.disposed
    /\ dog' = [invalidateActiveReview(dog) EXCEPT !.disposed = TRUE, !.midRun = FALSE]
    /\ NewEpoch
    /\ UNCHANGED <<follow, turn, repo, late>>

Ending == {"answered", "failed", "timeout"}

WatchdogNext ==
    \/ UserPrompts \/ FollowUpStarts \/ AgentEdits \/ ToolResult
    \/ EndsUnreviewed \/ EndsReviewed
    \/ LspIgnored
    \/ \E w \in Warning \cup {NoWarning} : LspAnswers(w)
    \/ \E i \in Slot, w \in Warning : ReviewEmits(i, w)
    \/ \E i \in Slot, how \in Ending : MidRunReviewEnds(i, how) \/ BoundaryReviewAnswers(i, how)
    \/ \E i \in Slot : BoundaryReviewTimesOut(i)
    \/ SessionOverride \/ SettingsDisable \/ SettingsEnable
    \/ SessionCompacts \/ SessionShutsDown

WatchdogSpec == WatchdogInit /\ [][WatchdogNext]_watchdogVars

(***************************************************************************)
(* A review that was superseded, by a prompt, a reset, a timeout, the      *)
(* watchdog's being switched off, the session's end or the review of the   *)
(* turn, never shows a warning, however late it answers (isCurrent).       *)
(***************************************************************************)
SupersededReviewSilent == ~ late

(***************************************************************************)
(* "The agent-end boundary review is authoritative; an in-flight cadence   *)
(* review is superseded" (runtime.ts:560): once the diagnostics of a turn  *)
(* have come, the turn is reviewed, whatever reviews are in flight.        *)
(***************************************************************************)
BoundaryReviewStarts ==
    ending.stage = "lsp" /\ ending.current /\ dog.enabled /\ ending'.stage # "lsp"
        => ending'.stage = "review"

(***************************************************************************)
(* The same as long as each cadence review in flight was the only one when *)
(* it started (cancelMidRunReview). What this leaves out does go wrong: a  *)
(* cadence review that a reset outdated keeps its generation, and as it    *)
(* ends it clears midRunReviewing of the next one (runtime.ts:552-553), so *)
(* that nobody cancels that one at the end of the turn.                    *)
(***************************************************************************)
BoundaryReviewRuns ==
    [][(\A i \in Flying : review[i].alone) => BoundaryReviewStarts]_watchdogVars

(***************************************************************************)
(* Between two prompts of the user the watchdog sends at most maxAttempts  *)
(* follow-ups (README.md:500: "respects `maxAttempts`").                   *)
(***************************************************************************)
FollowUpsBounded == follow.sent <= MaxAttempts
===============================================================================
