---------------------------- MODULE ComponentProofs ----------------------------
(***************************************************************************)
(* Proofs about the components that share no state with others: the        *)
(* delegation of a node to a child, the foreground group, the watchdog.    *)
(***************************************************************************)
EXTENDS Delegation, ForegroundGroup, Watchdog, FiniteSetTheorems, WellFoundedInduction, TLAPS

\* A set all of whose elements are the same has at most one.
LEMMA AtMostOne ==
    ASSUME NEW S, \A x, y \in S : x = y
    PROVE  Cardinality(S) <= 1
<1>1. CASE S = {}
  BY <1>1, FS_EmptySet
<1>2. CASE S # {}
  <2>1. PICK x : S = {x}
    BY <1>2
  <2> QED
    BY <2>1, FS_Singleton
<1> QED
  BY <1>1, <1>2

-----------------------------------------------------------------------------
(***************************************************************************)
(* Delegation. The bridge has a controller for the active request only,    *)
(* none once it is closed, and for every child that nobody has told to     *)
(* stop.                                                                   *)
(***************************************************************************)
Status == {"completed", "malformed", "failed", "detached"}
Answer == Status \cup {"none", "preflight", "transport", "cancelled", "unavailable_context", "duplicate_node"}

Calling == [pc : {"idle", "dispatch", "waiting", "done"}, steer : 0..MaxSteer, aborted : BOOLEAN, answer : Answer]

Bridges == [up : BOOLEAN, context : BOOLEAN, controllers : SUBSET Request,
            active : Request \cup {NoRequest}, settled : SUBSET Request, saturated : BOOLEAN]

DelegationTypeOK ==
    /\ adapter \in [Attempt -> Calling]
    /\ worker \in [Request -> Status \cup {"none", "running"}]
    /\ cancelled \subseteq Request
    /\ bridge \in Bridges

ChildControlled ==
    /\ bridge.controllers \subseteq {bridge.active}
    /\ ~ bridge.up => bridge.controllers = {}
    /\ \A r \in Request : worker[r] = "running" /\ r \notin cancelled => r \in bridge.controllers

DelegationInv == DelegationTypeOK /\ ChildControlled /\ AbortReachesChild

\* A request has an attempt; a call that has not begun, or waits, sends one.
LEMMA RequestFacts ==
    /\ NoRequest \notin Request
    /\ \A a \in Attempt, s \in 0..MaxSteer : <<a, s>> \in Request
    /\ \A r \in Request : r[1] \in Attempt /\ r[2] \in 0..MaxSteer /\ r = <<r[1], r[2]>>
  BY DelegationAssumption DEF NoRequest, Request, Attempt

\* What an attempt sends is a request of its own.
LEMMA SentFacts ==
    ASSUME DelegationTypeOK
    PROVE  /\ \A a \in Attempt : Sent(a) \in Request
           /\ \A a, b \in Attempt : Sent(a) = Sent(b) => a = b
  BY RequestFacts DEF DelegationTypeOK, Calling, Sent

\* The invariant holds where a behaviour begins.
LEMMA DelegationInvInit == DelegationInit => DelegationInv
  BY DelegationAssumption, RequestFacts
     DEF DelegationInit, DelegationInv, DelegationTypeOK, ChildControlled, AbortReachesChild,
         Calling, Bridges, Status, Answer

\* An attempt goes on without the bridge's taking a request: it starts, is refused, or is
\* told something, and no attempt but this one moves.
LEMMA CallMoves ==
    ASSUME DelegationTypeOK, NEW a \in Attempt, NEW next \in Calling,
           adapter' = [adapter EXCEPT ![a] = next]
    PROVE  /\ adapter' \in [Attempt -> Calling]
           /\ adapter'[a] = next
           /\ \A b \in Attempt \ {a} : adapter'[b] = adapter[b] /\ Sent(b)' = Sent(b)
  BY DEF DelegationTypeOK, Sent

\* The call of an attempt moves while the bridge, the children and the cancellations stay, and
\* does not come to wait, or comes to wait for a bridge that is closed.
LEMMA CallAlone ==
    ASSUME DelegationInv, NEW a \in Attempt, NEW next \in Calling,
           adapter' = [adapter EXCEPT ![a] = next],
           next.pc = "waiting" => ~ bridge.up,
           UNCHANGED <<worker, cancelled, bridge>>
    PROVE  DelegationInv'
<1>1. DelegationTypeOK' /\ ChildControlled'
  BY CallMoves DEF DelegationInv, DelegationTypeOK, ChildControlled
<1>2. AbortReachesChild'
  <2> SUFFICES ASSUME NEW b \in Attempt, adapter'[b].aborted, adapter'[b].pc = "waiting"
               PROVE  Sent(b)' \notin Unhindered'
    BY DEF AbortReachesChild
  <2>1. Unhindered' = Unhindered
    BY DEF Unhindered
  <2>2. CASE b = a
    BY <2>1, <2>2, CallMoves DEF DelegationInv, ChildControlled, Unhindered
  <2>3. CASE b # a
    BY <2>1, <2>3, CallMoves DEF DelegationInv, AbortReachesChild
  <2> QED
    BY <2>2, <2>3
<1> QED
  BY <1>1, <1>2 DEF DelegationInv

\* An attempt starts, is refused by its preflight, waits in vain or gives up.
LEMMA CallAloneSteps ==
    ASSUME DelegationInv, NEW a \in Attempt,
           AttemptStarts(a) \/ PreflightRefuses(a) \/ RequestUnheard(a) \/ ResponseTimesOut(a)
    PROVE  DelegationInv'
<1> USE DEF DelegationInv, DelegationTypeOK
<1>1. adapter[a] \in Calling
  OBVIOUS
<1>2. CASE AttemptStarts(a)
  <2> DEFINE next == [adapter[a] EXCEPT !.pc = "dispatch"]
  <2>1. next \in Calling /\ next.pc = "dispatch" /\ adapter' = [adapter EXCEPT ![a] = next]
    BY <1>1, <1>2 DEF AttemptStarts, Calling
  <2> QED
    BY <1>2, <2>1, CallAlone DEF AttemptStarts
<1>3. CASE PreflightRefuses(a)
  <2> DEFINE next == [adapter[a] EXCEPT !.pc = "done", !.answer = "preflight"]
  <2>1. next \in Calling /\ next.pc = "done" /\ adapter' = [adapter EXCEPT ![a] = next]
    BY <1>1, <1>3 DEF PreflightRefuses, Calling, Answer
  <2> QED
    BY <1>3, <2>1, CallAlone DEF PreflightRefuses
<1>4. CASE RequestUnheard(a)
  <2> DEFINE next == [adapter[a] EXCEPT !.pc = "waiting"]
  <2>1. next \in Calling /\ adapter' = [adapter EXCEPT ![a] = next] /\ ~ bridge.up
    BY <1>1, <1>4 DEF RequestUnheard, Calling
  <2> QED
    BY <1>4, <2>1, CallAlone DEF RequestUnheard
<1>5. CASE ResponseTimesOut(a)
  <2> DEFINE next == [adapter[a] EXCEPT !.pc = "done", !.answer = "transport"]
  <2>1. next \in Calling /\ next.pc = "done" /\ adapter' = [adapter EXCEPT ![a] = next]
    BY <1>1, <1>5 DEF ResponseTimesOut, Calling, Answer
  <2> QED
    BY <1>5, <2>1, CallAlone DEF ResponseTimesOut
<1> QED
  BY <1>2, <1>3, <1>4, <1>5

\* emitTerminal touches only what it remembers.
LEMMA RememberedFacts ==
    ASSUME NEW b \in Bridges, NEW r \in Request
    PROVE  /\ Remembered(b, r) \in Bridges
           /\ Remembered(b, r).up = b.up
           /\ Remembered(b, r).controllers = b.controllers
           /\ Remembered(b, r).active = b.active
<1>1. (Cardinality(b.settled \cup {r}) >= IdentityCap) \in BOOLEAN
  OBVIOUS
<1> QED
  BY <1>1 DEF Remembered, Bridges

\* A request is refused at once.
LEMMA RefusedInv ==
    ASSUME DelegationInv, NEW a \in Attempt, RequestRefused(a)
    PROVE  DelegationInv'
<1> USE DEF DelegationInv, DelegationTypeOK
<1> DEFINE next == [adapter[a] EXCEPT !.pc = "done", !.answer = Refusal(bridge)]
<1>1. Refusal(bridge) \in Answer
  BY DEF Refusal, Answer
<1>2. next \in Calling /\ next.pc = "done" /\ adapter' = [adapter EXCEPT ![a] = next]
  BY <1>1 DEF RequestRefused, Calling
<1> HIDE DEF next
<1>3. /\ bridge' \in Bridges /\ bridge'.up = bridge.up
      /\ bridge'.controllers = bridge.controllers /\ bridge'.active = bridge.active
      /\ UNCHANGED <<worker, cancelled>>
  BY RememberedFacts, SentFacts DEF RequestRefused
<1>4. DelegationTypeOK' /\ ChildControlled'
  BY <1>2, <1>3, CallMoves DEF ChildControlled
<1>5. AbortReachesChild'
  <2>1. Unhindered' = Unhindered
    BY <1>3 DEF Unhindered
  <2>2. /\ adapter'[a] = next
        /\ \A b \in Attempt \ {a} : adapter'[b] = adapter[b] /\ Sent(b)' = Sent(b)
    BY <1>2, CallMoves
  <2> QED
    BY <1>2, <2>1, <2>2 DEF AbortReachesChild
<1> QED
  BY <1>4, <1>5

\* A request is taken: nobody is active, so no child is unhindered but this one; and it is
\* told at once if its attempt was aborted before.
LEMMA TakenInv ==
    ASSUME DelegationInv, NEW a \in Attempt, RequestTaken(a)
    PROVE  DelegationInv'
<1> USE DEF DelegationInv, DelegationTypeOK
<1> DEFINE next == [adapter[a] EXCEPT !.pc = "waiting"]
           r == Sent(a)
<1>1. /\ next \in Calling /\ next.aborted = adapter[a].aborted /\ next.steer = adapter[a].steer
      /\ adapter' = [adapter EXCEPT ![a] = next]
  BY DEF RequestTaken, Calling
<1> HIDE DEF next
<1>2. r \in Request /\ Sent(a)' = r
  BY <1>1, CallMoves, SentFacts DEF Sent
<1> HIDE DEF r
<1>3. bridge.up /\ bridge.active = NoRequest
  BY DEF RequestTaken, Refusal
<1>4. bridge.controllers = {}
  BY <1>3, RequestFacts DEF ChildControlled, Bridges
<1>5. /\ worker' = [worker EXCEPT ![r] = "running"]
      /\ bridge' = [bridge EXCEPT !.controllers = {r}, !.active = r]
      /\ cancelled' = IF adapter[a].aborted THEN cancelled \cup {r} ELSE cancelled
  BY <1>4 DEF RequestTaken, BridgeStarts, CancelledWith, r, Bridges
<1>6. /\ bridge' \in Bridges /\ bridge'.controllers = {r} /\ bridge'.active = r
      /\ bridge'.up
  BY <1>2, <1>3, <1>5 DEF Bridges
<1>7. DelegationTypeOK'
  BY <1>1, <1>2, <1>5, <1>6, CallMoves
<1>8. \A q \in Request : q \in Unhindered' => q = r /\ ~ adapter[a].aborted
  BY <1>2, <1>4, <1>5 DEF Unhindered, ChildControlled
<1>9. ChildControlled'
  BY <1>6, <1>8 DEF ChildControlled, Unhindered
<1>10. AbortReachesChild'
  <2> SUFFICES ASSUME NEW b \in Attempt, adapter'[b].aborted, Sent(b)' \in Unhindered'
               PROVE  FALSE
    BY DEF AbortReachesChild
  <2>1. Sent(b)' = r /\ ~ adapter[a].aborted
    BY <1>8 DEF Unhindered
  <2>2. b # a => Sent(b)' = Sent(b)
    BY <1>1, CallMoves
  <2>3. b # a => Sent(b) # Sent(a)
    BY SentFacts
  <2>4. b = a
    BY <2>1, <2>2, <2>3 DEF r
  <2> QED
    BY <1>1, <2>1, <2>4, CallMoves
<1> QED
  BY <1>7, <1>9, <1>10

\* The signal of an attempt: if it waits, either its child is known to the bridge and told, or
\* somebody has told it already.
LEMMA SignalInv ==
    ASSUME DelegationInv, NEW a \in Attempt, SignalAborts(a)
    PROVE  DelegationInv'
<1> USE DEF DelegationInv, DelegationTypeOK
<1> DEFINE next == [adapter[a] EXCEPT !.aborted = TRUE]
<1>1. /\ next \in Calling /\ next.pc = adapter[a].pc /\ next.steer = adapter[a].steer
      /\ adapter' = [adapter EXCEPT ![a] = next]
  BY DEF SignalAborts, Calling
<1> HIDE DEF next
<1>2. /\ adapter' \in [Attempt -> Calling] /\ adapter'[a] = next
      /\ \A b \in Attempt \ {a} : adapter'[b] = adapter[b]
      /\ \A b \in Attempt : Sent(b)' = Sent(b)
  BY <1>1, CallMoves DEF Sent
<1>3. /\ UNCHANGED <<worker, bridge>>
      /\ cancelled' = IF adapter[a].pc = "waiting" /\ Sent(a) \in bridge.controllers
                      THEN cancelled \cup {Sent(a)} ELSE cancelled
  BY DEF SignalAborts
<1>4. DelegationTypeOK'
  BY <1>2, <1>3, SentFacts
<1>5. ChildControlled'
  BY <1>3 DEF ChildControlled
<1>6. Unhindered' \subseteq Unhindered
  BY <1>3 DEF Unhindered
<1>7. adapter[a].pc = "waiting" => Sent(a) \notin Unhindered'
  BY <1>3, SentFacts DEF Unhindered, ChildControlled
<1>8. AbortReachesChild'
  BY <1>1, <1>2, <1>6, <1>7 DEF AbortReachesChild
<1> QED
  BY <1>4, <1>5, <1>8

\* A child answers. The attempt that waits for it goes on, and the bridge forgets it.
LEMMA AnswersInv ==
    ASSUME DelegationInv, NEW r \in Request, WorkerAnswers(r)
    PROVE  DelegationInv'
<1> USE DEF DelegationInv, DelegationTypeOK
<1>1. PICK status \in Status :
        LET told == IF r \in cancelled THEN "cancelled" ELSE status IN
        /\ worker' = [worker EXCEPT ![r] = status]
        /\ IF r \in bridge.controllers
           THEN /\ Responds(r, told)
                /\ bridge' = Forgotten(Remembered(bridge, r), r)
           ELSE UNCHANGED <<adapter, bridge>>
  BY DEF WorkerAnswers, Status
<1> DEFINE told == IF r \in cancelled THEN "cancelled" ELSE status
<1>2. told \in Answer
  BY DEF Answer
<1>3. status # "running" /\ worker' \in [Request -> Status \cup {"none", "running"}] /\ worker'[r] # "running"
      /\ \A q \in Request \ {r} : worker'[q] = worker[q]
  BY <1>1 DEF Status
<1>4. UNCHANGED cancelled
  BY DEF WorkerAnswers
<1>5. Unhindered' \subseteq Unhindered \ {r}
  BY <1>3, <1>4 DEF Unhindered
<1>6. CASE r \notin bridge.controllers
  <2>1. UNCHANGED <<adapter, bridge>>
    BY <1>1, <1>6
  <2>2. DelegationTypeOK' /\ ChildControlled'
    BY <1>3, <1>4, <2>1 DEF ChildControlled
  <2>3. AbortReachesChild'
    BY <1>5, <2>1 DEF AbortReachesChild, Sent
  <2> QED
    BY <2>2, <2>3
<1>7. CASE r \in bridge.controllers
  <2>1. Responds(r, told) /\ bridge' = Forgotten(Remembered(bridge, r), r)
    BY <1>1, <1>7
  <2> HIDE DEF told
  <2>2. bridge.controllers = {r} /\ bridge.active = r
    BY <1>7 DEF ChildControlled
  <2>3. bridge' \in Bridges /\ bridge'.controllers = {} /\ bridge'.up = bridge.up
    <3> DEFINE b == Remembered(bridge, r)
    <3>1. b \in Bridges /\ b.up = bridge.up /\ b.controllers = {r} /\ b.active = r
      BY <2>2, RememberedFacts
    <3> HIDE DEF b
    <3>2. bridge' = [b EXCEPT !.controllers = {}, !.active = NoRequest]
      BY <2>1, <3>1 DEF Forgotten, b, Bridges
    <3> QED
      BY <3>1, <3>2 DEF Bridges
  <2>4. Unhindered' = {}
    BY <1>5, <2>2 DEF ChildControlled, Unhindered
  <2>5. adapter' \in [Attempt -> Calling]
    <3>1. Told(r[1], told) \in [Attempt -> Calling]
      <4> DEFINE a == r[1]
      <4>1. a \in Attempt /\ adapter[a] \in Calling
        BY RequestFacts
      <4>2. [adapter[a] EXCEPT !.pc = "done", !.answer = told] \in Calling
        BY <1>2, <4>1 DEF Calling
      <4>3. adapter[a].steer < MaxSteer => adapter[a].steer + 1 \in 0..MaxSteer
        BY <4>1, DelegationAssumption DEF Calling
      <4>4. adapter[a].steer < MaxSteer =>
                [adapter[a] EXCEPT !.steer = @ + 1, !.pc = "dispatch"] \in Calling
        BY <4>1, <4>3 DEF Calling
      <4>5. [adapter EXCEPT ![a].steer = @ + 1, ![a].pc = "dispatch"]
              = [adapter EXCEPT ![a] = [adapter[a] EXCEPT !.steer = @ + 1, !.pc = "dispatch"]]
        BY <4>1 DEF Calling
      <4>6. [adapter EXCEPT ![a].pc = "done", ![a].answer = told]
              = [adapter EXCEPT ![a] = [adapter[a] EXCEPT !.pc = "done", !.answer = told]]
        BY <4>1 DEF Calling
      <4> HIDE DEF a
      <4> QED
        BY <4>1, <4>2, <4>4, <4>5, <4>6 DEF Told, a
    <3> QED
      BY <2>1, <3>1 DEF Responds
  <2>6. DelegationTypeOK'
    BY <1>3, <1>4, <2>3, <2>5
  <2>7. ChildControlled' /\ AbortReachesChild'
    BY <2>3, <2>4 DEF ChildControlled, AbortReachesChild, Unhindered
  <2> QED
    BY <2>6, <2>7
<1> QED
  BY <1>6, <1>7

\* The session becomes known, or shuts down, and tells every child that the bridge knows.
LEMMA BridgeInv ==
    ASSUME DelegationInv, ContextKnown \/ BridgeCloses
    PROVE  DelegationInv'
<1> USE DEF DelegationInv, DelegationTypeOK
<1>1. CASE ContextKnown
  <2>1. /\ bridge' \in Bridges /\ bridge'.up = bridge.up
        /\ bridge'.controllers = bridge.controllers /\ bridge'.active = bridge.active
        /\ UNCHANGED <<adapter, worker, cancelled>>
    BY <1>1 DEF ContextKnown, Bridges
  <2> QED
    BY <2>1 DEF ChildControlled, AbortReachesChild, Unhindered, Sent
<1>2. CASE BridgeCloses
  <2>1. /\ bridge' \in Bridges /\ bridge'.controllers = {}
        /\ cancelled' = cancelled \cup bridge.controllers /\ cancelled' \subseteq Request
        /\ UNCHANGED <<adapter, worker>>
    BY <1>2 DEF BridgeCloses, Bridges
  <2>2. Unhindered' = {}
    BY <2>1 DEF ChildControlled, Unhindered
  <2> QED
    BY <2>1, <2>2 DEF ChildControlled, AbortReachesChild, Unhindered
<1> QED
  BY <1>1, <1>2

\* The invariant is inductive.
LEMMA DelegationInvNext == DelegationInv /\ [DelegationNext]_delegationVars => DelegationInv'
<1> SUFFICES ASSUME DelegationInv, [DelegationNext]_delegationVars PROVE DelegationInv'
  OBVIOUS
<1>1. CASE UNCHANGED delegationVars
  BY <1>1 DEF delegationVars, DelegationInv, DelegationTypeOK, ChildControlled, AbortReachesChild,
              Unhindered, Sent
<1> QED
  BY <1>1, CallAloneSteps, RefusedInv, TakenInv, SignalInv, AnswersInv, BridgeInv DEF DelegationNext

(***************************************************************************)
(* A node has one child at a time that nobody has told to stop             *)
(* (prompt-template-bridge.ts, activeNodes), for any number of attempts,   *)
(* whatever times out, is aborted or retried.                              *)
(***************************************************************************)
THEOREM OneChildPerNodeHolds == DelegationSpec => []OneChildPerNode
<1>1. DelegationInv => OneChildPerNode
  <2> SUFFICES ASSUME DelegationInv PROVE OneChildPerNode
    OBVIOUS
  <2>1. \A q, r \in Unhindered : q = r
    BY DEF DelegationInv, ChildControlled, Unhindered
  <2> QED
    BY <2>1, AtMostOne DEF OneChildPerNode
<1> QED
  BY <1>1, DelegationInvInit, DelegationInvNext, PTL DEF DelegationSpec

(***************************************************************************)
(* The child that an aborted attempt waits for has been told               *)
(* (delegation-adapter.ts, waitForResponse).                               *)
(***************************************************************************)
THEOREM AbortReaches == DelegationSpec => []AbortReachesChild
<1>1. DelegationInv => AbortReachesChild
  BY DEF DelegationInv
<1> QED
  BY <1>1, DelegationInvInit, DelegationInvNext, PTL DEF DelegationSpec

-----------------------------------------------------------------------------
(***************************************************************************)
(* The foreground group. The children that are active are those that work; *)
(* each worker that lives has one that is attached; the call and its       *)
(* workers own the control, and with the last owner and the last active    *)
(* child it goes.                                                          *)
(***************************************************************************)
Calls == [state : {"running", "answering", "over"}, aborted : BOOLEAN, workers : Nat]
Controls == [there : BOOLEAN, active : SUBSET Index, owners : Nat]
Kids == [pc : {"queued", "up", "closing", "over"}, handed : BOOLEAN,
         gave : {"nothing", "result", "receipt", "error"}]

GroupTypeOK ==
    /\ call \in Calls
    /\ control \in Controls
    /\ child \in [Index -> Kids]
    /\ killed \subseteq Index
    /\ remembered \in [Index -> {"none", "detached", "ended"}]

Attached == {i \in Index : Working(i) /\ ~ child[i].handed}

Owners(workers, state) == (IF workers > 0 THEN 1 ELSE 0) + (IF state # "over" THEN 1 ELSE 0)

ControlKept ==
    /\ control.active = {i \in Index : Working(i)}
    /\ call.workers = Cardinality(Attached)
    /\ control.owners = Owners(call.workers, call.state)
    /\ control.there <=> control.owners > 0 \/ control.active # {}

HandedOver ==
    /\ killed # {} => call.aborted
    /\ \A i \in killed : ~ child[i].handed
    /\ \A i \in Index :
          /\ child[i].pc = "queued" => ~ child[i].handed
          /\ child[i].handed <=> child[i].gave = "receipt"
          /\ child[i].handed /\ child[i].pc = "over" => remembered[i] = "ended"
          /\ remembered[i] = "detached" => child[i].handed /\ Working(i)

GroupInv == GroupTypeOK /\ ControlKept /\ HandedOver

\* A set of natural numbers that is not empty has a least element.
LEMMA LeastNatural ==
    ASSUME NEW S, S \subseteq Nat, S # {}
    PROVE  \E i \in S : \A j \in S : i <= j
<1> DEFINE R == {p \in Nat \X Nat : p[1] < p[2]}
<1>1. IsWellFoundedOn(R, Nat)
  BY NatLessThanWellFounded DEF OpToRel
<1>2. \A x, y \in Nat : <<x, y>> \in R <=> x < y
  OBVIOUS
<1> HIDE DEF R
<1>3. PICK i \in S : \A j \in S : <<j, i>> \notin R
  BY <1>1, WFMin
<1>4. \A j \in S : ~ (j < i)
  BY <1>2, <1>3
<1> QED
  BY <1>4

\* The tasks are finitely many, and so are those that are attached.
LEMMA GroupFinite ==
    /\ Index \subseteq Nat
    /\ \A S \in SUBSET Index : IsFiniteSet(S) /\ Cardinality(S) \in Nat
<1>1. IsFiniteSet(Index)
  BY GroupAssumption, FS_Interval DEF Index
<1>2. Index \subseteq Nat
  BY GroupAssumption DEF Index
<1>3. ASSUME NEW S \in SUBSET Index
      PROVE  IsFiniteSet(S) /\ Cardinality(S) \in Nat
  BY <1>1, FS_Subset, FS_CardinalityType
<1> QED
  BY <1>2, <1>3

\* The task that a worker takes next is one that waits.
LEMMA NextTaskQueued == Queued # {} => NextTask \in Queued
<1>1. Queued \subseteq Nat
  BY GroupFinite DEF Queued
<1> QED
  BY <1>1, LeastNatural DEF NextTask

\* The invariant holds where a behaviour begins: each worker has a child.
LEMMA GroupInvInit == GroupInit => GroupInv
<1> SUFFICES ASSUME GroupInit PROVE GroupInv
  OBVIOUS
<1>1. 0..(Workers - 1) \subseteq Index /\ Cardinality(0..(Workers - 1)) = Workers
  BY GroupAssumption, FS_Interval DEF Index
<1>2. GroupTypeOK
  BY <1>1, GroupAssumption DEF GroupInit, GroupTypeOK, Calls, Controls, Kids
<1>3. \A i \in Index : (Working(i) <=> i < Workers) /\ child[i].handed = FALSE /\ child[i].gave = "nothing"
  BY DEF GroupInit, Working
<1>4. {i \in Index : Working(i)} = 0..(Workers - 1) /\ Attached = 0..(Workers - 1)
  <2>1. \A i : i \in 0..(Workers - 1) <=> i \in Index /\ i < Workers
    BY GroupAssumption DEF Index
  <2> QED
    BY <1>3, <2>1 DEF Attached
<1>5. ControlKept
  BY <1>1, <1>4, GroupAssumption DEF GroupInit, ControlKept, Owners
<1>6. HandedOver
  BY <1>3 DEF GroupInit, HandedOver
<1> QED
  BY <1>2, <1>5, <1>6 DEF GroupInv

\* A worker that got a result, an error or a receipt: its child is attached no longer, and the
\* next one is if the worker goes on.
LEMMA AnsweredInv ==
    ASSUME GroupInv, NEW i \in Attached, NEW what \in {"result", "error", "receipt"},
           what = "receipt" => ~ call.aborted,
           Answered(i, what)
    PROVE  GroupInv'
<1> USE DEF GroupInv
<1>1. PICK skips \in BOOLEAN :
        LET goesOn == TakesNext(what, skips)
            active == StillActive(i, what) \cup (IF goesOn THEN {NextTask} ELSE {})
            workers == IF goesOn THEN call.workers ELSE call.workers - 1
            fails == what = "error" /\ call.state = "running"
            gave == [j \in Index |-> ChildrenAfter(i, what, skips)[j].gave]
            complete == call.state = "running" /\ \A j \in Index : gave[j] \notin {"nothing", "error"}
            owners == (IF workers = 0 THEN 1 ELSE 0) + (IF fails THEN 1 ELSE 0)
        IN
        /\ skips => Queued # {} /\ what # "error"
        /\ child' = ChildrenAfter(i, what, skips)
        /\ killed' = IF goesOn /\ call.aborted THEN killed \cup {NextTask} ELSE killed
        /\ control' = RemovedIfIdle([OwnersLeft(owners) EXCEPT !.active = active])
        /\ call' = [call EXCEPT !.workers = workers,
                                !.state = IF fails THEN "over" ELSE IF complete THEN "answering" ELSE @]
        /\ remembered' = IF complete THEN RememberedAll(gave) ELSE remembered
  BY DEF Answered
<1> DEFINE goesOn == TakesNext(what, skips)
           next == IF goesOn THEN {NextTask} ELSE {}
           active == StillActive(i, what) \cup next
           workers == IF goesOn THEN call.workers ELSE call.workers - 1
           fails == what = "error" /\ call.state = "running"
           gave == [j \in Index |-> child'[j].gave]
           complete == call.state = "running" /\ \A j \in Index : gave[j] \notin {"nothing", "error"}
           owners == (IF workers = 0 THEN 1 ELSE 0) + (IF fails THEN 1 ELSE 0)
<1>2. /\ i \in Index /\ Working(i) /\ ~ child[i].handed /\ child \in [Index -> Kids]
      /\ next \subseteq Queued /\ Queued \subseteq Index /\ i \notin Queued
      /\ (goesOn => ~ skips)
  BY NextTaskQueued DEF Attached, Working, Queued, TakesNext, GroupTypeOK
\* The children.
<1>3. /\ child' \in [Index -> Kids]
      /\ child'[i].gave = what
      /\ child'[i].handed <=> what = "receipt"
      /\ child'[i].pc = IF what = "receipt" THEN child[i].pc ELSE "over"
      /\ \A j \in next : child'[j].pc = "up" /\ child'[j].handed = child[j].handed
                           /\ child'[j].gave = child[j].gave
      /\ \A j \in Index \ {i} : j \notin next =>
            \/ child'[j] = child[j]
            \/ /\ j \in Queued /\ child'[j].pc = "over"
               /\ child'[j].handed = child[j].handed /\ child'[j].gave = "result"
  <2>1. \A j \in Index : child[j] \in Kids
    BY <1>2
  <2>2. /\ [child[i] EXCEPT !.gave = what, !.handed = what = "receipt",
                            !.pc = IF what = "receipt" THEN @ ELSE "over"] \in Kids
        /\ \A j \in Index : [child[j] EXCEPT !.pc = "over", !.gave = "result"] \in Kids
        /\ \A j \in Index : [child[j] EXCEPT !.pc = "up"] \in Kids
    BY <1>2, <2>1 DEF Kids
  <2>3. child' = ChildrenAfter(i, what, skips)
    BY <1>1
  <2>4. child' \in [Index -> Kids]
    BY <2>1, <2>2, <2>3 DEF ChildrenAfter
  <2>5. child'[i] = [child[i] EXCEPT !.gave = what, !.handed = what = "receipt",
                                     !.pc = IF what = "receipt" THEN @ ELSE "over"]
    BY <1>2, <2>3 DEF ChildrenAfter
  <2>6. \A j \in next : child'[j] = [child[j] EXCEPT !.pc = "up"]
    BY <1>2, <2>3 DEF ChildrenAfter
  <2>7. \A j \in Index \ {i} : j \notin next =>
            \/ child'[j] = child[j]
            \/ j \in Queued /\ child'[j] = [child[j] EXCEPT !.pc = "over", !.gave = "result"]
    BY <1>2, <2>3 DEF ChildrenAfter
  <2>8. \A k \in Kids :
          /\ [k EXCEPT !.pc = "up"].pc = "up"
          /\ [k EXCEPT !.pc = "up"].handed = k.handed
          /\ [k EXCEPT !.pc = "up"].gave = k.gave
          /\ [k EXCEPT !.pc = "over", !.gave = "result"].pc = "over"
          /\ [k EXCEPT !.pc = "over", !.gave = "result"].handed = k.handed
          /\ [k EXCEPT !.pc = "over", !.gave = "result"].gave = "result"
    BY DEF Kids
  <2>9. /\ child'[i].gave = what
        /\ child'[i].handed <=> what = "receipt"
        /\ child'[i].pc = IF what = "receipt" THEN child[i].pc ELSE "over"
    BY <1>2, <2>1, <2>5 DEF Kids
  <2>10. ASSUME NEW j \in next
         PROVE  /\ child'[j].pc = "up" /\ child'[j].handed = child[j].handed
                /\ child'[j].gave = child[j].gave
    <3>1. child[j] \in Kids /\ child'[j] = [child[j] EXCEPT !.pc = "up"]
      BY <1>2, <2>1, <2>6
    <3> QED
      BY <2>8, <3>1
  <2>11. ASSUME NEW j \in Index \ {i}, j \notin next, child'[j] # child[j]
         PROVE  /\ j \in Queued /\ child'[j].pc = "over"
                /\ child'[j].handed = child[j].handed /\ child'[j].gave = "result"
    <3>1. /\ child[j] \in Kids /\ j \in Queued
          /\ child'[j] = [child[j] EXCEPT !.pc = "over", !.gave = "result"]
      BY <2>1, <2>7, <2>11
    <3> QED
      BY <2>8, <3>1
  <2> HIDE DEF next
  <2> QED
    BY <2>4, <2>9, <2>10, <2>11
\* The rest.
<1>4. /\ killed' \in {killed, killed \cup next}
      /\ killed' # {} => call.aborted
      /\ control' = RemovedIfIdle([OwnersLeft(owners) EXCEPT !.active = active])
      /\ call' = [call EXCEPT !.workers = workers,
                              !.state = IF fails THEN "over" ELSE IF complete THEN "answering" ELSE @]
      /\ remembered' = IF complete THEN RememberedAll(gave) ELSE remembered
  BY <1>1 DEF HandedOver
<1> HIDE DEF goesOn
<1>5. /\ Attached' = (Attached \ {i}) \cup next
      /\ {j \in Index : Working(j)}' = active
  <2>1. Working(i)' <=> what = "receipt"
    BY <1>2, <1>3 DEF Working
  <2>2. \A j \in next : ~ Working(j) /\ Working(j)' /\ ~ child'[j].handed
    BY <1>2, <1>3 DEF Working, Queued, HandedOver
  <2>3. \A j \in Index \ {i} : j \notin next =>
            (Working(j)' <=> Working(j)) /\ (child'[j].handed <=> child[j].handed)
    BY <1>2, <1>3 DEF Working, Queued
  <2>4. StillActive(i, what) = {j \in Index : Working(j)} \ (IF what = "receipt" THEN {} ELSE {i})
    BY DEF StillActive, ControlKept
  <2> HIDE DEF next
  <2>5. Attached' = (Attached \ {i}) \cup next
    BY <1>2, <1>3, <2>1, <2>2, <2>3 DEF Attached
  <2>6. {j \in Index : Working(j)}' = active
    BY <1>2, <2>1, <2>2, <2>3, <2>4
  <2> QED
    BY <2>5, <2>6
<1>6. /\ call.workers \in Nat \ {0} /\ workers \in Nat
      /\ workers = Cardinality(Attached')
  <2>1. IsFiniteSet(Attached) /\ IsFiniteSet(Attached \ {i}) /\ Cardinality(Attached \ {i}) \in Nat
    BY GroupFinite DEF Attached
  <2>2. Cardinality(Attached \ {i}) = call.workers - 1 /\ call.workers \in Nat
    BY <2>1, FS_RemoveElement DEF ControlKept, GroupTypeOK, Calls
  <2>3. CASE goesOn
    <3>1. next = {NextTask} /\ NextTask \notin Attached
      BY <1>2, <2>3 DEF Queued, Attached, Working
    <3>2. Cardinality((Attached \ {i}) \cup {NextTask}) = call.workers - 1 + 1
      BY <2>1, <2>2, <3>1, FS_AddElement
    <3> QED
      BY <1>5, <2>1, <2>2, <2>3, <3>1, <3>2
  <2>4. CASE ~ goesOn
    BY <1>5, <2>1, <2>2, <2>4
  <2> QED
    BY <2>3, <2>4
<1> HIDE DEF next
<1>7. active \in SUBSET Index
  BY <1>2 DEF StillActive, ControlKept, GroupTypeOK, Controls
<1>8. /\ call' \in Calls /\ call'.workers = workers /\ call'.aborted = call.aborted
      /\ call'.state = IF fails THEN "over" ELSE IF complete THEN "answering" ELSE call.state
  BY <1>4, <1>6 DEF GroupTypeOK, Calls
<1> HIDE DEF active, workers, complete
<1>9. control.owners - owners = Owners(call'.workers, call'.state)
  BY <1>6, <1>8 DEF Owners, ControlKept, complete, workers
<1>10. /\ control' \in Controls /\ control'.active = active
       /\ control'.owners = control.owners - owners
       /\ control'.there <=> control.there /\ (control'.owners > 0 \/ active # {})
  <2> DEFINE c == [OwnersLeft(owners) EXCEPT !.active = active]
  <2>1. control.owners - owners \in Nat
    BY <1>6, <1>8, <1>9 DEF Owners
  <2> HIDE DEF owners
  <2>2. /\ c \in Controls /\ c.active = active /\ c.owners = control.owners - owners
        /\ c.there = control.there
    BY <1>7, <2>1 DEF OwnersLeft, GroupTypeOK, Controls
  <2>3. control' = RemovedIfIdle(c)
    BY <1>4
  <2> HIDE DEF c
  <2> QED
    BY <2>2, <2>3 DEF RemovedIfIdle, Controls
<1>11. ControlKept'
  <2>1. control.there
    BY <1>2 DEF ControlKept
  <2> QED
    BY <1>5, <1>6, <1>8, <1>9, <1>10, <2>1 DEF ControlKept
<1>12. /\ remembered' \in [Index -> {"none", "detached", "ended"}]
       /\ \A j \in Index : remembered'[j] = "detached" =>
             \/ remembered[j] = "detached"
             \/ child'[j].gave = "receipt" /\ remembered[j] # "ended"
       /\ \A j \in Index : remembered[j] = "ended" => remembered'[j] = "ended"
  BY <1>4 DEF RememberedAll, GroupTypeOK
<1>13. GroupTypeOK'
  <2>1. killed' \subseteq Index
    BY <1>2, <1>4 DEF GroupTypeOK
  <2> QED
    BY <1>3, <1>8, <1>10, <1>12, <2>1 DEF GroupTypeOK
<1>14. HandedOver'
  <2>1. \A j \in killed' : ~ child'[j].handed
    <3>1. i \notin killed \/ what # "receipt"
      BY DEF HandedOver
    <3>2. \A j \in Index \ {i} : child'[j].handed => child[j].handed
      BY <1>3
    <3>3. \A j \in next : ~ child[j].handed
      BY <1>2 DEF HandedOver, Queued
    <3> QED
      BY <1>2, <1>3, <1>4, <3>1, <3>2, <3>3 DEF HandedOver, GroupTypeOK
  <2>2. \A j \in Index :
          /\ child'[j].pc = "queued" => ~ child'[j].handed
          /\ child'[j].handed <=> child'[j].gave = "receipt"
    BY <1>2, <1>3 DEF HandedOver, Queued, Working
  <2>3. \A j \in Index :
          child'[j].handed => (child[j].handed /\ child'[j].pc = child[j].pc) \/ Working(j)'
    BY <1>2, <1>3 DEF HandedOver, Queued, Working
  <2>4. \A j \in Index : child'[j].handed /\ child'[j].pc = "over" => remembered'[j] = "ended"
    BY <1>12, <2>3 DEF HandedOver, Working
  <2>5. \A j \in Index : remembered[j] = "detached" => child'[j] = child[j]
    BY <1>2, <1>3 DEF HandedOver, Queued, Working
  <2>6. \A j \in Index : remembered'[j] = "detached" => child'[j].handed /\ Working(j)'
    BY <1>12, <2>2, <2>3, <2>4, <2>5 DEF HandedOver, Working, GroupTypeOK, Kids
  <2> QED
    BY <1>4, <1>8, <2>1, <2>2, <2>4, <2>6 DEF HandedOver
<1> QED
  BY <1>11, <1>13, <1>14

\* A child closes, attached or not, and works until its end has been dealt with.
LEMMA ClosesInv ==
    ASSUME GroupInv, NEW i \in Index, ChildCloses(i)
    PROVE  GroupInv'
<1> USE DEF GroupInv
<1> DEFINE next == [child[i] EXCEPT !.pc = "closing"]
<1>1. /\ child' = [child EXCEPT ![i] = next] /\ child[i].pc = "up"
      /\ UNCHANGED <<call, control, killed, remembered>>
  BY DEF ChildCloses, Up
<1>2. child[i] \in Kids
  BY DEF GroupTypeOK
<1>3. next \in Kids /\ next.pc = "closing" /\ next.handed = child[i].handed /\ next.gave = child[i].gave
  BY <1>2 DEF Kids
<1> HIDE DEF next
<1>4. /\ child' \in [Index -> Kids] /\ child'[i] = next
      /\ \A j \in Index \ {i} : child'[j] = child[j]
  BY <1>1, <1>3 DEF GroupTypeOK
<1>5. \A j \in Index : (Working(j)' <=> Working(j)) /\ (child'[j].handed <=> child[j].handed)
                         /\ child'[j].gave = child[j].gave
  BY <1>1, <1>3, <1>4 DEF Working
<1>6. Attached' = Attached /\ {j \in Index : Working(j)}' = {j \in Index : Working(j)}
  BY <1>5 DEF Attached
<1>7. GroupTypeOK' /\ ControlKept'
  BY <1>1, <1>4, <1>6 DEF GroupTypeOK, ControlKept
<1>8. HandedOver'
  <2>1. \A j \in Index : child'[j].pc \in {"queued", "over"} => child'[j] = child[j]
    BY <1>3, <1>4
  <2> QED
    BY <1>1, <1>5, <2>1 DEF HandedOver, GroupTypeOK
<1> QED
  BY <1>7, <1>8

\* A detached child's end: it is remembered, and is active no longer.
LEMMA DetachedEndsInv ==
    ASSUME GroupInv, NEW i \in Index, DetachedEnds(i)
    PROVE  GroupInv'
<1> USE DEF GroupInv
<1> DEFINE next == [child[i] EXCEPT !.pc = "over"]
           c == [control EXCEPT !.active = @ \ {i}]
<1>1. /\ child' = [child EXCEPT ![i] = next] /\ child[i].pc = "closing" /\ child[i].handed
      /\ remembered' = [remembered EXCEPT ![i] = "ended"]
      /\ control' = RemovedIfIdle(c)
      /\ UNCHANGED <<call, killed>>
  BY DEF DetachedEnds
<1>2. child[i] \in Kids
  BY DEF GroupTypeOK
<1>3. next \in Kids /\ next.pc = "over" /\ next.handed = child[i].handed /\ next.gave = child[i].gave
  BY <1>2 DEF Kids
<1> HIDE DEF next
<1>4. /\ child' \in [Index -> Kids] /\ child'[i] = next
      /\ \A j \in Index \ {i} : child'[j] = child[j]
  BY <1>1, <1>3 DEF GroupTypeOK
<1>5. /\ c \in Controls /\ c.active = control.active \ {i} /\ c.owners = control.owners
      /\ c.there = control.there
  BY DEF GroupTypeOK, Controls
<1> HIDE DEF c
<1>6. /\ control' \in Controls /\ control'.active = control.active \ {i}
      /\ control'.owners = control.owners
      /\ control'.there <=> control.there /\ (control.owners > 0 \/ control'.active # {})
  BY <1>1, <1>5 DEF RemovedIfIdle, Controls
<1>7. Attached' = Attached
  BY <1>1, <1>3, <1>4 DEF Attached, Working
<1>8. {j \in Index : Working(j)}' = {j \in Index : Working(j)} \ {i}
  BY <1>1, <1>3, <1>4 DEF Working
<1>9. GroupTypeOK' /\ ControlKept'
  BY <1>1, <1>4, <1>6, <1>7, <1>8 DEF GroupTypeOK, ControlKept
<1>10. remembered' \in [Index -> {"none", "detached", "ended"}] /\ remembered'[i] = "ended"
       /\ \A j \in Index \ {i} : remembered'[j] = remembered[j]
  BY <1>1 DEF GroupTypeOK
<1>11. \A j \in killed : ~ child'[j].handed
  BY <1>1, <1>4 DEF HandedOver, GroupTypeOK
<1>12. HandedOver'
  <2>1. ASSUME NEW j \in Index
        PROVE  /\ child'[j].pc = "queued" => ~ child'[j].handed
               /\ child'[j].handed <=> child'[j].gave = "receipt"
               /\ child'[j].handed /\ child'[j].pc = "over" => remembered'[j] = "ended"
               /\ remembered'[j] = "detached" => child'[j].handed /\ Working(j)'
    BY <1>1, <1>3, <1>4, <1>10 DEF HandedOver, Working
  <2> QED
    BY <1>1, <1>11, <2>1 DEF HandedOver
<1> QED
  BY <1>9, <1>12

\* The call returns, and gives up its part of the control.
LEMMA ReturnsInv ==
    ASSUME GroupInv, CallReturns
    PROVE  GroupInv'
<1> USE DEF GroupInv
<1> DEFINE c == OwnersLeft(1)
<1>1. /\ call.state = "answering" /\ call' = [call EXCEPT !.state = "over"]
      /\ control' = RemovedIfIdle(c) /\ UNCHANGED <<child, killed, remembered>>
  BY DEF CallReturns
<1>2. /\ call' \in Calls /\ call'.state = "over" /\ call'.workers = call.workers
      /\ call'.aborted = call.aborted
  BY <1>1 DEF GroupTypeOK, Calls
<1>3. control.owners - 1 \in Nat
  BY <1>1 DEF ControlKept, Owners
<1>4. /\ c \in Controls /\ c.active = control.active /\ c.owners = control.owners - 1
      /\ c.there = control.there
  BY <1>3 DEF OwnersLeft, GroupTypeOK, Controls
<1> HIDE DEF c
<1>5. /\ control' \in Controls /\ control'.active = control.active
      /\ control'.owners = control.owners - 1
      /\ control'.there <=> control.there /\ (control'.owners > 0 \/ control.active # {})
  BY <1>1, <1>4 DEF RemovedIfIdle, Controls
<1>6. Attached' = Attached /\ {j \in Index : Working(j)}' = {j \in Index : Working(j)}
  BY <1>1 DEF Attached, Working
<1>7. GroupTypeOK'
  BY <1>1, <1>2, <1>5 DEF GroupTypeOK
<1>8. ControlKept'
  BY <1>1, <1>2, <1>3, <1>5, <1>6 DEF ControlKept, Owners
<1>9. HandedOver'
  BY <1>1, <1>2 DEF HandedOver, Working
<1> QED
  BY <1>7, <1>8, <1>9

\* The abort of the turn reaches the children that are attached, and a child that is launched
\* again while they are.
LEMMA AbortsInv ==
    ASSUME GroupInv, TurnAborts \/ \E i \in Index : ChildRelaunched(i)
    PROVE  GroupInv'
<1> USE DEF GroupInv
<1>1. /\ call' \in Calls /\ call'.state = call.state /\ call'.workers = call.workers
      /\ killed' # {} => call'.aborted
      /\ killed' \subseteq Index /\ \A i \in killed' : ~ child[i].handed
      /\ UNCHANGED <<control, child, remembered>>
  <2>1. CASE TurnAborts
    BY <2>1 DEF TurnAborts, GroupTypeOK, Calls, HandedOver, Forwarded
  <2>2. CASE \E i \in Index : ChildRelaunched(i)
    <3>1. PICK i \in Index : ChildRelaunched(i)
      BY <2>2
    <3>2. /\ ~ child[i].handed /\ UNCHANGED <<call, control, child, remembered>>
          /\ killed' = IF call.aborted THEN killed \cup {i} ELSE killed
      BY <3>1 DEF ChildRelaunched
    <3> QED
      BY <3>2 DEF GroupTypeOK, HandedOver
  <2> QED
    BY <2>1, <2>2
<1>2. Attached' = Attached /\ {j \in Index : Working(j)}' = {j \in Index : Working(j)}
  BY <1>1 DEF Attached, Working
<1> QED
  BY <1>1, <1>2 DEF GroupTypeOK, ControlKept, HandedOver, Working

\* Nothing but the requests changes.
LEMMA GroupStays ==
    ASSUME GroupInv, UNCHANGED <<call, control, child, killed, remembered>>
    PROVE  GroupInv'
  BY DEF GroupInv, GroupTypeOK, ControlKept, HandedOver, Attached, Working

\* The invariant is inductive.
LEMMA GroupInvNext == GroupInv /\ [GroupNext]_groupVars => GroupInv'
<1> SUFFICES ASSUME GroupInv, [GroupNext]_groupVars PROVE GroupInv'
  OBVIOUS
<1>1. ASSUME NEW i \in Index, AttachedEnds(i)
      PROVE  GroupInv'
  BY <1>1, AnsweredInv DEF AttachedEnds, Attached, Working
<1>2. ASSUME NEW i \in Index, PollTakes(i)
      PROVE  GroupInv'
  BY <1>2, AnsweredInv, GroupStays DEF PollTakes, Detachable, Up, Attached, Working
<1>3. ASSUME NEW i \in Index, ChildAsks(i) \/ ParentReplies(i) \/ AskEnds(i)
      PROVE  GroupInv'
  BY <1>3, GroupStays DEF ChildAsks, ParentReplies, AskEnds
<1>4. CASE UNCHANGED groupVars
  BY <1>4, GroupStays DEF groupVars
<1> QED
  BY <1>1, <1>2, <1>3, <1>4, ClosesInv, DetachedEndsInv, ReturnsInv, AbortsInv DEF GroupNext

(***************************************************************************)
(* A child can be reached through its run's control for as long as it      *)
(* works, and the control goes with the last child, worker and the call    *)
(* (removeForegroundControlIfIdle), for any number of tasks and workers.   *)
(***************************************************************************)
THEOREM ControlHeldAlways == GroupSpec => []ControlHeld
<1>1. GroupInv => ControlHeld
  <2> SUFFICES ASSUME GroupInv PROVE ControlHeld
    OBVIOUS
  <2>1. \A i \in Index : Working(i) => control.there /\ i \in control.active
    BY DEF GroupInv, ControlKept
  <2>2. control.there => call.state # "over" \/ call.workers > 0 \/ \E i \in Index : Working(i)
    BY DEF GroupInv, ControlKept, Owners
  <2> QED
    BY <2>1, <2>2 DEF ControlHeld
<1> QED
  BY <1>1, GroupInvInit, GroupInvNext, PTL DEF GroupSpec

(***************************************************************************)
(* Only a child that works is shown as detached (README:954).              *)
(***************************************************************************)
THEOREM EndedShownEnded == GroupSpec => []EndedNotDetached
<1>1. GroupInv => EndedNotDetached
  BY DEF GroupInv, HandedOver, EndedNotDetached
<1> QED
  BY <1>1, GroupInvInit, GroupInvNext, PTL DEF GroupSpec

(***************************************************************************)
(* The abort of the turn never signals a child that was handed over to the *)
(* supervisor, whichever comes first (runSync, forwardOriginAbort).        *)
(***************************************************************************)
THEOREM DetachedSparedAlways == GroupSpec => []DetachedSpared
<1>1. GroupInv => DetachedSpared
  BY DEF GroupInv, HandedOver, DetachedSpared
<1> QED
  BY <1>1, GroupInvInit, GroupInvNext, PTL DEF GroupSpec
-----------------------------------------------------------------------------
(***************************************************************************)
(* The watchdog. The review it hears is in flight, current and never       *)
(* superseded; a mid-run review that is heard, and was the only one when   *)
(* it started, still is, and can be cancelled when the turn ends. The      *)
(* review of a turn is awaited, so a slot is left for it.                  *)
(***************************************************************************)
MaybeWarning == Warning \cup {NoWarning}

Guards == [severity : [Finding -> {Nothing, "concern", "blocker"}], update : Finding \cup {Nothing}]

Lasts == [warning : MaybeWarning, displayed : BOOLEAN]

Dogs == [enabled : BOOLEAN, disposed : BOOLEAN, status : {"idle", "reviewing", "failed", "stale"},
         waiting : BOOLEAN, reviewing : BOOLEAN, midRun : BOOLEAN, active : 0..Slots,
         candidate : MaybeWarning, guard : Guards, last : Lasts,
         turnStart : Signature \cup {Nothing}, reviewed : Signature \cup {Nothing}]

Reviews == [flies : BOOLEAN, mid : BOOLEAN, current : BOOLEAN, latest : BOOLEAN,
            alone : BOOLEAN, superseded : BOOLEAN]

Endings == [stage : {"none", "lsp", "review"}, current : BOOLEAN, key : Signature \cup {Nothing},
            slot : 0..Slots, displayed : BOOLEAN]

WatchdogTypeOK ==
    /\ dog \in Dogs
    /\ review \in [Slot -> Reviews]
    /\ ending \in Endings
    /\ turn \in {"idle", "running", "ending"}
    /\ repo \in Signature

MidRuns == {i \in Flying : review[i].mid}

TurnAwaited ==
    /\ ending.stage = "none" <=> turn # "ending"
    /\ \A i \in Slot : review[i].flies /\ ~ review[i].mid => ending.stage = "review" /\ ending.slot = i
    /\ Cardinality(MidRuns) <= Slots - 1

Heard(i) ==
    /\ review[i].flies /\ review[i].current /\ ~ review[i].superseded
    /\ review[i].mid /\ review[i].alone =>
         /\ \A j \in MidRuns : j = i
         /\ dog.midRun /\ turn # "ending"

HeardKept ==
    /\ dog.reviewing <=> dog.active # 0
    /\ dog.active # 0 => Heard(dog.active)

WatchdogInv == WatchdogTypeOK /\ TurnAwaited /\ HeardKept /\ ~ late

\* What the review that is heard depends on stays as it is.
SameHeard(d) ==
    d \in Dogs /\ (d.reviewing <=> dog.reviewing) /\ d.active = dog.active /\ (d.midRun <=> dog.midRun)

\* The slots are finite, and the initial state has no review in them.
LEMMA MidRunsFinite == WatchdogTypeOK => IsFiniteSet(Slot) /\ Cardinality(Slot) = Slots /\ MidRuns \subseteq Slot
<1>1. 1 \in Int /\ Slots \in Int /\ Slots - 1 + 1 = Slots /\ ~ 1 > Slots
  BY WatchdogAssumption
<1>2. IsFiniteSet(Slot) /\ Cardinality(Slot) = Slots
  BY <1>1, FS_Interval DEF Slot
<1> QED
  BY <1>2 DEF MidRuns, Flying

\* Before the first review the invariant holds.
LEMMA WatchdogInvInit == WatchdogInit => WatchdogInv
<1> SUFFICES ASSUME WatchdogInit PROVE WatchdogInv
  OBVIOUS
<1>1. NoWarning \in MaybeWarning
  BY DEF MaybeWarning
<1>2. FreshGuard \in Guards /\ Candidate(NoWarning) \in Lasts
  BY <1>1 DEF FreshGuard, Guards, Nothing, Candidate, Lasts
<1>3. PICK on \in BOOLEAN :
        LET key == IF on THEN repo ELSE Nothing
        IN  dog = [enabled |-> on, disposed |-> FALSE, status |-> "idle", waiting |-> FALSE,
                   reviewing |-> FALSE, midRun |-> FALSE, active |-> 0, candidate |-> NoWarning,
                   guard |-> FreshGuard, last |-> Candidate(NoWarning),
                   turnStart |-> key, reviewed |-> key]
  BY DEF WatchdogInit
<1>4. repo \in Signature /\ turn = "idle" /\ ~ late /\ ending = NoEnding /\ review = [i \in Slot |-> NoReview]
  BY WatchdogAssumption DEF WatchdogInit
<1>5. dog \in Dogs /\ ~ dog.reviewing /\ dog.active = 0
  BY <1>1, <1>2, <1>3, <1>4, WatchdogAssumption DEF Dogs
<1>6. review \in [Slot -> Reviews] /\ \A i \in Slot : ~ review[i].flies
  BY <1>4 DEF NoReview, Reviews
<1>7. ending \in Endings /\ ending.stage = "none"
  BY <1>4, WatchdogAssumption DEF NoEnding, Endings
<1>8. MidRuns = {}
  BY <1>6 DEF MidRuns, Flying
<1>9. Cardinality(MidRuns) <= Slots - 1
  BY <1>8, FS_EmptySet, WatchdogAssumption
<1> QED
  BY <1>4, <1>5, <1>6, <1>7, <1>9 DEF WatchdogInv, WatchdogTypeOK, TurnAwaited, HeardKept

\* A slot is free when not all of them fly.
LEMMA SlotLeft ==
    ASSUME WatchdogTypeOK, Cardinality(Flying) <= Slots - 1
    PROVE  FreeSlot \in Slot /\ ~ review[FreeSlot].flies
<1>1. \E i \in Slot : ~ review[i].flies
  <2> SUFFICES ASSUME \A i \in Slot : review[i].flies PROVE FALSE
    OBVIOUS
  <2>1. Flying = Slot
    BY DEF Flying
  <2> QED
    BY <2>1, MidRunsFinite, WatchdogAssumption
<1> QED
  BY <1>1 DEF FreeSlot

\* The guard and the last warning keep their types when a warning is taken.
LEMMA WarningTypes ==
    ASSUME NEW guard \in Guards, NEW w \in Warning
    PROVE  Evaluated(guard, w) \in Guards /\ Shown(w) \in Lasts /\ Candidate(w) \in Lasts
<1>1. w.finding \in Finding /\ w.severity \in {"concern", "blocker"} /\ w \in MaybeWarning
  BY DEF Warning, MaybeWarning
<1> QED
  BY <1>1 DEF Evaluated, Guards, Shown, Candidate, Lasts

\* A new epoch: no review is heard any more.
LEMMA EpochInv ==
    ASSUME WatchdogInv, dog' \in Dogs, dog'.active = 0, ~ dog'.reviewing,
           NewEpoch, UNCHANGED <<repo, late>>,
           turn' \in IF turn = "idle" THEN {"idle", "running"} ELSE {turn}
    PROVE  WatchdogInv'
<1> USE DEF WatchdogInv
<1>1. /\ review' = Outdated(review) /\ ending' = [ending EXCEPT !.current = FALSE]
      /\ review \in [Slot -> Reviews] /\ ending \in Endings
  BY DEF NewEpoch, WatchdogTypeOK
<1>2. ending' \in Endings /\ ending'.stage = ending.stage /\ ending'.slot = ending.slot
  BY <1>1 DEF Endings
<1>3. /\ review' \in [Slot -> Reviews]
      /\ \A i \in Slot : (review'[i].flies <=> review[i].flies) /\ (review'[i].mid <=> review[i].mid)
  BY <1>1 DEF Outdated, Reviews
<1>4. MidRuns' = MidRuns
  BY <1>3 DEF MidRuns, Flying
<1>5. WatchdogTypeOK'
  BY <1>2, <1>3 DEF WatchdogTypeOK
<1>6. TurnAwaited'
  BY <1>2, <1>3, <1>4 DEF TurnAwaited
<1> QED
  BY <1>5, <1>6 DEF HeardKept

\* Nothing happens to the reviews.
LEMMA HeardStays ==
    ASSUME WatchdogInv, SameHeard(dog'), ending' \in Endings, turn' \in {"idle", "running", "ending"},
           repo' \in Signature, UNCHANGED <<review, late>>,
           ending'.stage = "none" <=> turn' # "ending",
           turn' = "ending" => turn = "ending",
           ending.stage = "review" => ending'.stage = "review" /\ ending'.slot = ending.slot
    PROVE  WatchdogInv'
<1> USE DEF WatchdogInv
<1>1. MidRuns' = MidRuns
  BY DEF MidRuns, Flying
<1>2. WatchdogTypeOK'
  BY DEF WatchdogTypeOK, SameHeard
<1>3. TurnAwaited'
  BY <1>1 DEF TurnAwaited
<1>4. HeardKept'
  <2>1. ASSUME Heard(dog.active)
        PROVE  Heard(dog.active)'
    BY <1>1, <2>1 DEF Heard, SameHeard
  <2> QED
    BY <2>1 DEF HeardKept, SameHeard, Heard
<1> QED
  BY <1>2, <1>3, <1>4

\* A mid-run review starts, and leaves a slot for the one of the turn.
LEMMA ToolResultInv ==
    ASSUME WatchdogInv, ToolResult
    PROVE  WatchdogInv'
<1> USE DEF WatchdogInv
<1> PICK k : k = FreeSlot
  OBVIOUS
<1> PICK r : r = Started(TRUE)
  OBVIOUS
<1>1. /\ turn = "running" /\ ~ dog.reviewing
      /\ dog' = [Reviewing(dog, k) EXCEPT !.midRun = TRUE]
      /\ review' = [review EXCEPT ![k] = r]
      /\ UNCHANGED <<ending, turn, repo, late>>
  BY DEF ToolResult
<1>2. Flying \subseteq Slot /\ IsFiniteSet(Flying) /\ Cardinality(Flying) \in Nat
  BY MidRunsFinite, FS_Subset, FS_CardinalityType DEF Flying
<1>3. Cardinality(Flying) < Slots - 1
  BY DEF ToolResult
<1>4. k \in Slot /\ ~ review[k].flies
  BY <1>2, <1>3, SlotLeft, WatchdogAssumption
<1>5. r \in Reviews /\ r.flies /\ r.mid /\ r.current /\ ~ r.superseded
      /\ (r.alone => \A i \in Flying : ~ review[i].mid)
  BY DEF Started, Reviews
<1>6. /\ review' \in [Slot -> Reviews] /\ review'[k] = r
      /\ \A i \in Slot \ {k} : review'[i] = review[i]
  BY <1>1, <1>4, <1>5 DEF WatchdogTypeOK
<1>7. dog' \in Dogs /\ dog'.reviewing /\ dog'.active = k /\ dog'.midRun /\ k # 0
  <2>1. k \in 0..Slots /\ k # 0
    BY <1>4 DEF Slot
  <2>2. dog \in Dogs /\ NoWarning \in MaybeWarning
    BY DEF WatchdogTypeOK, MaybeWarning
  <2> QED
    BY <1>1, <2>1, <2>2 DEF Reviewing, Dogs
<1>8. MidRuns' \subseteq Flying \cup {k}
  BY <1>6 DEF MidRuns, Flying
<1>9. Cardinality(MidRuns') <= Slots - 1
  <2>1. k \notin Flying
    BY <1>4 DEF Flying
  <2>2. Cardinality(Flying \cup {k}) = Cardinality(Flying) + 1 /\ IsFiniteSet(Flying \cup {k})
    BY <1>2, <2>1, FS_AddElement
  <2>3. Cardinality(MidRuns') <= Cardinality(Flying \cup {k}) /\ Cardinality(MidRuns') \in Nat
    BY <1>8, <2>2, FS_Subset, FS_CardinalityType
  <2> QED
    BY <1>2, <1>3, <2>2, <2>3, WatchdogAssumption
<1>10. WatchdogTypeOK'
  BY <1>1, <1>6, <1>7 DEF WatchdogTypeOK
<1>11. TurnAwaited'
  <2>1. \A i \in Slot : review'[i].flies /\ ~ review'[i].mid => ending'.stage = "review" /\ ending'.slot = i
    BY <1>1, <1>5, <1>6 DEF TurnAwaited
  <2> QED
    BY <1>1, <1>9, <2>1 DEF TurnAwaited
<1>12. HeardKept'
  <2>1. r.alone => \A j \in MidRuns' : j = k
    BY <1>5, <1>6 DEF MidRuns, Flying
  <2>2. Heard(k)'
    BY <1>1, <1>5, <1>6, <1>7, <2>1 DEF Heard
  <2> QED
    BY <1>7, <2>2 DEF HeardKept
<1> QED
  BY <1>1, <1>10, <1>11, <1>12

\* The turn ends, and the mid-run review that can be cancelled is.
LEMMA EndsReviewedInv ==
    ASSUME WatchdogInv, EndsReviewed
    PROVE  WatchdogInv'
<1> USE DEF WatchdogInv
<1>1. /\ turn = "running" /\ turn' = "ending"
      /\ dog' = [cancelMidRunReview(dog) EXCEPT !.waiting = TRUE, !.guard.update = Nothing]
      /\ review' = IF dog.midRun THEN [i \in Slot |-> [review[i] EXCEPT !.latest = FALSE]] ELSE review
      /\ ending' = [NoEnding EXCEPT !.stage = "lsp", !.current = TRUE, !.key = repo]
      /\ UNCHANGED <<repo, late>>
  BY DEF EndsReviewed
<1>2. dog \in Dogs /\ review \in [Slot -> Reviews] /\ repo \in Signature
  BY DEF WatchdogTypeOK
<1>3. /\ dog' \in Dogs
      /\ ~ dog.midRun => (dog'.reviewing <=> dog.reviewing) /\ dog'.active = dog.active
      /\ dog.midRun => ~ dog'.reviewing /\ dog'.active = 0
  <2>1. NoWarning \in MaybeWarning /\ 0 \in 0..Slots
    BY WatchdogAssumption DEF MaybeWarning
  <2>2. /\ cancelMidRunReview(dog) \in Dogs
        /\ ~ dog.midRun => cancelMidRunReview(dog) = dog
        /\ dog.midRun => ~ cancelMidRunReview(dog).reviewing /\ cancelMidRunReview(dog).active = 0
    BY <1>2, <2>1 DEF cancelMidRunReview, Dogs
  <2>3. \A d \in Dogs : LET e == [d EXCEPT !.waiting = TRUE, !.guard.update = Nothing]
                        IN  e \in Dogs /\ e.reviewing = d.reviewing /\ e.active = d.active
    <3> SUFFICES ASSUME NEW d \in Dogs
                 PROVE  LET e == [d EXCEPT !.waiting = TRUE, !.guard.update = Nothing]
                        IN  e \in Dogs /\ e.reviewing = d.reviewing /\ e.active = d.active
      OBVIOUS
    <3>1. d.guard \in Guards
      BY DEF Dogs
    <3>2. [d.guard EXCEPT !.update = Nothing] \in Guards
      BY <3>1 DEF Guards
    <3> QED
      BY <3>2 DEF Dogs
  <2> QED
    BY <1>1, <2>2, <2>3
<1>4. /\ review' \in [Slot -> Reviews]
      /\ \A i \in Slot : /\ (review'[i].flies <=> review[i].flies) /\ (review'[i].mid <=> review[i].mid)
                         /\ (review'[i].current <=> review[i].current) /\ (review'[i].alone <=> review[i].alone)
                         /\ (review'[i].superseded <=> review[i].superseded)
  BY <1>1, <1>2 DEF Reviews
<1>5. ending' \in Endings /\ ending'.stage = "lsp"
  <2>1. NoEnding \in Endings
    BY WatchdogAssumption DEF NoEnding, Endings
  <2> QED
    BY <1>1, <1>2, <2>1 DEF Endings
<1>6. MidRuns' = MidRuns
  BY <1>4 DEF MidRuns, Flying
<1>7. WatchdogTypeOK'
  BY <1>1, <1>2, <1>3, <1>4, <1>5 DEF WatchdogTypeOK
<1>8. TurnAwaited'
  BY <1>1, <1>4, <1>5, <1>6 DEF TurnAwaited
<1>9. HeardKept'
  <2>1. CASE dog.midRun
    BY <1>3, <2>1 DEF HeardKept
  <2>2. CASE ~ dog.midRun
    <3> PICK k : k = dog.active
      OBVIOUS
    <3>1. ASSUME k # 0
          PROVE  Heard(k)'
      <4>1. k \in Slot /\ Heard(k)
        BY <1>2, <3>1, WatchdogAssumption DEF HeardKept, Dogs, Slot
      <4>2. ~ (review[k].mid /\ review[k].alone)
        BY <2>2, <4>1 DEF Heard
      <4> QED
        BY <1>4, <4>1, <4>2 DEF Heard
    <3> QED
      BY <1>3, <2>2, <3>1 DEF HeardKept
  <2> QED
    BY <2>1, <2>2
<1> QED
  BY <1>1, <1>7, <1>8, <1>9

\* The diagnostics arrive.
LEMMA DiagnosedDog ==
    ASSUME WatchdogInv, NEW w \in MaybeWarning
    PROVE  SameHeard(Diagnosed(w))
<1>1. dog \in Dogs /\ dog.guard \in Guards
  BY DEF WatchdogInv, WatchdogTypeOK, Dogs
<1>2. CASE w # NoWarning /\ Accepts(dog.guard, w)
  <2>1. w \in Warning
    BY <1>2 DEF MaybeWarning
  <2>2. Evaluated(dog.guard, w) \in Guards /\ Shown(w) \in Lasts
    BY <1>1, <2>1, WarningTypes
  <2> HIDE DEF NoWarning
  <2> QED
    BY <1>1, <1>2, <2>2 DEF Diagnosed, SameHeard, Dogs
<1>3. CASE ~ (w # NoWarning /\ Accepts(dog.guard, w))
  BY <1>1, <1>3 DEF Diagnosed, SameHeard
<1> QED
  BY <1>2, <1>3

\* An agent_end that returns settles what it reviewed.
LEMMA SettledDog ==
    ASSUME WatchdogInv, NEW d \in Dogs, NEW outcome
    PROVE  /\ Settled(d, outcome) \in Dogs
           /\ Settled(d, outcome).reviewing = d.reviewing /\ Settled(d, outcome).active = d.active
           /\ Settled(d, outcome).midRun = d.midRun
<1>1. ending.key \in Signature \cup {Nothing}
  BY DEF WatchdogInv, WatchdogTypeOK, Endings
<1> QED
  BY <1>1 DEF Settled, Dogs

\* The review of the turn starts: it is the one that is heard, whatever flies.
LEMMA LspAnswersInv ==
    ASSUME WatchdogInv, NEW w \in MaybeWarning, LspAnswers(w)
    PROVE  WatchdogInv'
<1> USE DEF WatchdogInv
<1> PICK d : d = Diagnosed(w)
  OBVIOUS
<1> PICK displayed : displayed = (w # NoWarning /\ Accepts(dog.guard, w))
  OBVIOUS
<1>1. ending.stage = "lsp" /\ turn = "ending" /\ UNCHANGED <<repo, late>>
  BY DEF LspAnswers, TurnAwaited
<1>2. SameHeard(d)
  BY DiagnosedDog
<1>3. displayed \in BOOLEAN
  OBVIOUS
<1>4. CASE d.reviewing /\ AgentEndReturns(d, "stale", displayed) /\ UNCHANGED review
  <2>1. dog' = Settled(d, "stale") /\ ending' = NoEnding /\ turn' = "idle"
    BY <1>4 DEF AgentEndReturns
  <2>2. SameHeard(dog')
    BY <1>2, <2>1, SettledDog DEF SameHeard
  <2>3. NoEnding \in Endings /\ ending'.stage = "none"
    BY <2>1, WatchdogAssumption DEF NoEnding, Endings
  <2> QED
    BY <1>1, <1>4, <2>1, <2>2, <2>3, HeardStays DEF WatchdogTypeOK
<1>5. CASE /\ ~ d.reviewing
           /\ dog' = Reviewing(d, FreeSlot)
           /\ review' = [i \in Slot |-> IF i = FreeSlot THEN Started(FALSE)
                                        ELSE [review[i] EXCEPT !.superseded = review[i].flies]]
           /\ ending' = [ending EXCEPT !.stage = "review", !.slot = FreeSlot, !.displayed = displayed]
           /\ UNCHANGED <<follow, turn>>
  <2> PICK k : k = FreeSlot
    OBVIOUS
  <2> PICK r : r = Started(FALSE)
    OBVIOUS
  <2>1. Flying = MidRuns
    BY <1>1 DEF TurnAwaited, MidRuns, Flying
  <2>2. k \in Slot /\ ~ review[k].flies
    BY <2>1, SlotLeft DEF TurnAwaited
  <2>3. k \in 0..Slots /\ k # 0
    BY <2>2 DEF Slot
  <2>4. r \in Reviews /\ r.flies /\ ~ r.mid /\ r.current /\ ~ r.superseded
    BY DEF Started, Reviews
  <2>5. /\ review' \in [Slot -> Reviews] /\ review'[k] = r
        /\ \A i \in Slot \ {k} : (review'[i].flies <=> review[i].flies) /\ (review'[i].mid <=> review[i].mid)
    BY <1>5, <2>2, <2>4 DEF WatchdogTypeOK, Reviews
  <2>6. dog' \in Dogs /\ dog'.reviewing /\ dog'.active = k
    <3>1. NoWarning \in MaybeWarning
      BY DEF MaybeWarning
    <3> QED
      BY <1>2, <1>5, <2>3, <3>1 DEF SameHeard, Reviewing, Dogs
  <2>7. ending' \in Endings /\ ending'.stage = "review" /\ ending'.slot = k
    BY <1>3, <1>5, <2>3 DEF WatchdogTypeOK, Endings
  <2>8. MidRuns' = MidRuns
    BY <2>2, <2>4, <2>5 DEF MidRuns, Flying
  <2>9. WatchdogTypeOK'
    BY <1>1, <1>5, <2>5, <2>6, <2>7 DEF WatchdogTypeOK
  <2>10. TurnAwaited'
    <3>1. \A i \in Slot : review'[i].flies /\ ~ review'[i].mid => i = k
      BY <1>1, <2>5 DEF TurnAwaited
    <3> QED
      BY <1>1, <1>5, <2>7, <2>8, <3>1 DEF TurnAwaited
  <2>11. HeardKept'
    <3>1. Heard(k)'
      BY <2>4, <2>5 DEF Heard
    <3> QED
      BY <2>3, <2>6, <3>1 DEF HeardKept
  <2> QED
    BY <1>1, <2>9, <2>10, <2>11
<1> QED
  BY <1>4, <1>5 DEF LspAnswers

\* What a review leaves when it ends: the one that is heard gives up its place.
LEMMA ReviewedDog ==
    ASSUME WatchdogInv, NEW i \in Slot, NEW how
    PROVE  /\ Reviewed(i, how) \in Dogs
           /\ Reviewed(i, how).midRun = dog.midRun
           /\ dog.active = i => ~ Reviewed(i, how).reviewing /\ Reviewed(i, how).active = 0
           /\ dog.active # i => /\ Reviewed(i, how).reviewing = dog.reviewing
                                /\ Reviewed(i, how).active = dog.active
<1> DEFINE heard == IF Displays(i, how) THEN [dog EXCEPT !.last = Shown(dog.candidate)]
                    ELSE IF how = "failed" /\ isCurrent(i) THEN [dog EXCEPT !.status = "failed"]
                    ELSE dog
<1>1. dog \in Dogs /\ dog.candidate \in MaybeWarning /\ NoWarning \in MaybeWarning /\ 0 \in 0..Slots
  BY WatchdogAssumption DEF WatchdogInv, WatchdogTypeOK, Dogs, MaybeWarning
<1>2. Shown(dog.candidate) \in Lasts
  BY <1>1 DEF Shown, Lasts
<1>3. /\ heard \in Dogs /\ heard.midRun = dog.midRun /\ heard.reviewing = dog.reviewing
      /\ heard.active = dog.active
  BY <1>1, <1>2 DEF Dogs
<1>4. Reviewed(i, how) = IF review[i].current /\ dog.active = i
                         THEN [heard EXCEPT !.reviewing = FALSE, !.active = 0, !.candidate = NoWarning]
                         ELSE heard
  BY DEF Reviewed
<1>5. dog.active = i => review[i].current
  BY WatchdogAssumption DEF WatchdogInv, HeardKept, Heard, Slot
<1> HIDE DEF heard
<1> DEFINE left == [heard EXCEPT !.reviewing = FALSE, !.active = 0, !.candidate = NoWarning]
<1>6. left \in Dogs /\ left.midRun = heard.midRun /\ left.reviewing = FALSE /\ left.active = 0
  BY <1>1, <1>3 DEF Dogs
<1>7. Reviewed(i, how) = left \/ (Reviewed(i, how) = heard /\ dog.active # i)
  BY <1>4, <1>5
<1>8. dog.active # i => Reviewed(i, how) = heard
  BY <1>4
<1> HIDE DEF left
<1> QED
  BY <1>3, <1>6, <1>7, <1>8

\* A review that is superseded does not show its warning.
LEMMA NotLate ==
    ASSUME WatchdogInv, NEW i \in Slot, NEW how, ShowsLate(i, how)
    PROVE  ~ late'
<1>1. isCurrent(i) => ~ review[i].superseded
  BY WatchdogAssumption DEF isCurrent, WatchdogInv, HeardKept, Heard, Slot
<1> QED
  BY <1>1 DEF ShowsLate, Displays, WatchdogInv

\* The slot of a review that ends is free.
LEMMA SlotFreed ==
    ASSUME WatchdogInv, NEW i \in Slot, review' = [review EXCEPT ![i] = NoReview]
    PROVE  /\ review' \in [Slot -> Reviews] /\ ~ review'[i].flies
           /\ \A j \in Slot \ {i} : review'[j] = review[j]
           /\ MidRuns' = MidRuns \ {i} /\ Cardinality(MidRuns') <= Slots - 1
<1>1. /\ review' \in [Slot -> Reviews] /\ ~ review'[i].flies
      /\ \A j \in Slot \ {i} : review'[j] = review[j]
  <2>1. NoReview \in Reviews /\ ~ NoReview.flies
    BY DEF NoReview, Reviews
  <2> QED
    BY <2>1 DEF WatchdogInv, WatchdogTypeOK
<1>2. MidRuns' = MidRuns \ {i}
  BY <1>1 DEF MidRuns, Flying
<1>3. IsFiniteSet(MidRuns)
  BY MidRunsFinite, FS_Subset DEF WatchdogInv
<1>4. Cardinality(MidRuns') <= Cardinality(MidRuns) /\ Cardinality(MidRuns) \in Nat /\ Cardinality(MidRuns') \in Nat
  BY <1>2, <1>3, FS_Subset, FS_CardinalityType
<1> QED
  BY <1>1, <1>2, <1>4, WatchdogAssumption DEF WatchdogInv, TurnAwaited

\* A mid-run review ends.
LEMMA MidRunEndsInv ==
    ASSUME WatchdogInv, NEW i \in Slot, NEW how, MidRunReviewEnds(i, how)
    PROVE  WatchdogInv'
<1> USE DEF WatchdogInv
<1> PICK d : d = Reviewed(i, how)
  OBVIOUS
<1>1. /\ review[i].flies /\ review[i].mid /\ dog' = MidRunEnded(i, how)
      /\ review' = [review EXCEPT ![i] = NoReview]
      /\ UNCHANGED <<turn, repo>>
  BY DEF MidRunReviewEnds
<1>2. /\ d \in Dogs /\ d.midRun = dog.midRun
      /\ dog.active = i => ~ d.reviewing /\ d.active = 0
      /\ dog.active # i => d.reviewing = dog.reviewing /\ d.active = dog.active
  BY ReviewedDog
<1>3. dog' \in Dogs /\ dog'.reviewing = d.reviewing /\ dog'.active = d.active
  <2> DEFINE told == IF how = "timeout" THEN [markLastWarningStale(d) EXCEPT !.status = "stale"] ELSE d
  <2>1. Candidate(NoWarning) \in Lasts
    BY DEF Candidate, Lasts, MaybeWarning
  <2>2. told \in Dogs /\ told.reviewing = d.reviewing /\ told.active = d.active
    BY <1>2, <2>1 DEF markLastWarningStale, Dogs
  <2>3. dog' = IF ~ review[i].latest THEN d
               ELSE [told EXCEPT !.midRun = FALSE, !.status = IF @ = "reviewing" THEN "idle" ELSE @]
    BY <1>1 DEF MidRunEnded
  <2> HIDE DEF told
  <2>4. \A e \in Dogs : LET f == [e EXCEPT !.midRun = FALSE, !.status = IF @ = "reviewing" THEN "idle" ELSE @]
                        IN  f \in Dogs /\ f.reviewing = e.reviewing /\ f.active = e.active
    <3> SUFFICES ASSUME NEW e \in Dogs,
                        NEW f, f = [e EXCEPT !.midRun = FALSE,
                                             !.status = IF @ = "reviewing" THEN "idle" ELSE @]
                 PROVE  f \in Dogs /\ f.reviewing = e.reviewing /\ f.active = e.active
      OBVIOUS
    <3>1. ASSUME NEW state \in {"idle", "reviewing", "failed", "stale"},
                 f = [e EXCEPT !.midRun = FALSE, !.status = state]
          PROVE  f \in Dogs /\ f.reviewing = e.reviewing /\ f.active = e.active
      BY <3>1 DEF Dogs
    <3>2. e.status \in {"idle", "reviewing", "failed", "stale"}
      BY DEF Dogs
    <3> QED
      BY <3>1, <3>2
  <2> QED
    BY <1>2, <2>2, <2>3, <2>4
<1>4. ending' \in Endings /\ ending'.stage = ending.stage /\ ending'.slot = ending.slot
  BY DEF MidRunReviewEnds, WatchdogTypeOK, Endings
<1>5. /\ review' \in [Slot -> Reviews] /\ ~ review'[i].flies
      /\ \A j \in Slot \ {i} : review'[j] = review[j]
      /\ MidRuns' = MidRuns \ {i} /\ Cardinality(MidRuns') <= Slots - 1
  BY <1>1, SlotFreed
<1>6. ~ late'
  BY NotLate DEF MidRunReviewEnds
<1>7. WatchdogTypeOK'
  BY <1>1, <1>3, <1>4, <1>5 DEF WatchdogTypeOK
<1>8. TurnAwaited'
  <2>1. \A j \in Slot : review'[j].flies /\ ~ review'[j].mid => ending'.stage = "review" /\ ending'.slot = j
    BY <1>4, <1>5 DEF TurnAwaited
  <2> QED
    BY <1>1, <1>4, <1>5, <2>1 DEF TurnAwaited
<1>9. HeardKept'
  <2> PICK k : k = dog.active
    OBVIOUS
  <2>1. ASSUME k # 0, k # i
        PROVE  Heard(k)'
    <3>1. k \in Slot /\ Heard(k)
      BY <2>1, WatchdogAssumption DEF HeardKept, WatchdogTypeOK, Dogs, Slot
    <3>2. i \in MidRuns
      BY <1>1 DEF MidRuns, Flying
    <3>3. ~ (review[k].mid /\ review[k].alone)
      BY <2>1, <3>1, <3>2 DEF Heard
    <3> QED
      BY <1>5, <2>1, <3>1, <3>3 DEF Heard
  <2> QED
    BY <1>2, <1>3, <2>1, WatchdogAssumption DEF HeardKept, WatchdogTypeOK, Dogs, Slot
<1> QED
  BY <1>6, <1>7, <1>8, <1>9

\* The review of the turn answers or fails, and the turn is over.
LEMMA BoundaryAnswersInv ==
    ASSUME WatchdogInv, NEW i \in Slot, NEW how, BoundaryReviewAnswers(i, how)
    PROVE  WatchdogInv'
<1> USE DEF WatchdogInv
<1> PICK d : d = Reviewed(i, how)
  OBVIOUS
<1>1. /\ review[i].flies /\ ~ review[i].mid /\ dog' = Settled(d, Outcome(i, how))
      /\ review' = [review EXCEPT ![i] = NoReview] /\ UNCHANGED repo
      /\ ending' = NoEnding /\ turn' = "idle"
  BY DEF BoundaryReviewAnswers, AgentEndReturns
<1>2. /\ d \in Dogs /\ d.midRun = dog.midRun
      /\ dog.active = i => ~ d.reviewing /\ d.active = 0
      /\ dog.active # i => d.reviewing = dog.reviewing /\ d.active = dog.active
  BY ReviewedDog
<1>3. dog' \in Dogs /\ dog'.reviewing = d.reviewing /\ dog'.active = d.active /\ dog'.midRun = d.midRun
  BY <1>1, <1>2, SettledDog
<1>4. ending' \in Endings /\ ending'.stage = "none"
  BY <1>1, WatchdogAssumption DEF NoEnding, Endings
<1>5. /\ review' \in [Slot -> Reviews] /\ ~ review'[i].flies
      /\ \A j \in Slot \ {i} : review'[j] = review[j]
      /\ MidRuns' = MidRuns \ {i} /\ Cardinality(MidRuns') <= Slots - 1
  BY <1>1, SlotFreed
<1>6. ~ late'
  BY NotLate DEF BoundaryReviewAnswers
<1>7. WatchdogTypeOK'
  BY <1>1, <1>3, <1>4, <1>5 DEF WatchdogTypeOK
<1>8. TurnAwaited'
  <2>1. \A j \in Slot : ~ (review'[j].flies /\ ~ review'[j].mid)
    BY <1>1, <1>5 DEF TurnAwaited
  <2> QED
    BY <1>1, <1>4, <1>5, <2>1 DEF TurnAwaited
<1>9. HeardKept'
  <2> PICK k : k = dog.active
    OBVIOUS
  <2>1. ASSUME k # 0, k # i
        PROVE  Heard(k)'
    <3>1. k \in Slot /\ Heard(k)
      BY <2>1, WatchdogAssumption DEF HeardKept, WatchdogTypeOK, Dogs, Slot
    <3> QED
      BY <1>1, <1>2, <1>3, <1>5, <2>1, <3>1 DEF Heard
  <2> QED
    BY <1>2, <1>3, <2>1, WatchdogAssumption DEF HeardKept, WatchdogTypeOK, Dogs, Slot
<1> QED
  BY <1>6, <1>7, <1>8, <1>9

\* The two ways out of a review lead to a state in which none is heard.
LEMMA Invalidated ==
    ASSUME NEW d \in Dogs
    PROVE  /\ invalidateActiveReview(d) \in Dogs /\ reset(d) \in Dogs
           /\ ~ invalidateActiveReview(d).reviewing /\ invalidateActiveReview(d).active = 0
           /\ ~ reset(d).reviewing /\ reset(d).active = 0
<1>1. FreshGuard \in Guards /\ NoWarning \in MaybeWarning /\ 0 \in 0..Slots
  BY WatchdogAssumption DEF FreshGuard, Guards, MaybeWarning
<1>2. /\ invalidateActiveReview(d) \in Dogs /\ ~ invalidateActiveReview(d).reviewing
      /\ invalidateActiveReview(d).active = 0
  BY <1>1 DEF invalidateActiveReview, Dogs
<1> HIDE DEF FreshGuard
<1>3. \A e \in Dogs : LET f == [e EXCEPT !.midRun = FALSE, !.guard = FreshGuard]
                      IN  f \in Dogs /\ f.reviewing = e.reviewing /\ f.active = e.active
  BY <1>1 DEF Dogs
<1> QED
  BY <1>2, <1>3 DEF reset

\* Its time is over: nothing of the turn is heard any more.
LEMMA TimesOutInv ==
    ASSUME WatchdogInv, NEW i \in Slot, BoundaryReviewTimesOut(i)
    PROVE  WatchdogInv'
<1> USE DEF WatchdogInv
<1> PICK d : d = invalidateActiveReview(Reviewed(i, "timeout"))
  OBVIOUS
<1> PICK left : left = [review EXCEPT ![i] = NoReview]
  OBVIOUS
<1>1. /\ review[i].flies /\ ~ review[i].mid
      /\ dog' = markLastWarningStale([d EXCEPT !.status = "stale"])
      /\ review' = Outdated(left) /\ ending' = NoEnding /\ turn' = "idle"
      /\ UNCHANGED <<repo, late>>
  BY DEF BoundaryReviewTimesOut
<1>2. d \in Dogs /\ ~ d.reviewing /\ d.active = 0
  BY ReviewedDog, Invalidated
<1>3. dog' \in Dogs /\ ~ dog'.reviewing /\ dog'.active = 0
  <2>1. Candidate(NoWarning) \in Lasts
    BY DEF Candidate, Lasts, MaybeWarning
  <2> QED
    BY <1>1, <1>2, <2>1 DEF markLastWarningStale, Dogs
<1>4. NoReview \in Reviews /\ ~ NoReview.flies
  BY DEF NoReview, Reviews
<1>5. /\ review' \in [Slot -> Reviews] /\ ~ review'[i].flies
      /\ \A j \in Slot \ {i} : (review'[j].flies <=> review[j].flies) /\ (review'[j].mid <=> review[j].mid)
  <2>1. left \in [Slot -> Reviews] /\ left[i] = NoReview /\ \A j \in Slot \ {i} : left[j] = review[j]
    BY <1>4 DEF WatchdogTypeOK
  <2>2. \A v \in Reviews : LET w == [v EXCEPT !.current = FALSE, !.superseded = v.flies]
                           IN  w \in Reviews /\ w.flies = v.flies /\ w.mid = v.mid
    BY DEF Reviews
  <2>3. \A j \in Slot : /\ review'[j] \in Reviews
                        /\ review'[j].flies = left[j].flies /\ review'[j].mid = left[j].mid
    BY <1>1, <2>1, <2>2 DEF Outdated
  <2>4. review' \in [Slot -> Reviews]
    BY <1>1, <2>3 DEF Outdated
  <2> QED
    BY <1>4, <2>1, <2>3, <2>4
<1>6. MidRuns' = MidRuns
  BY <1>1, <1>5 DEF MidRuns, Flying
<1>7. ending' \in Endings /\ ending'.stage = "none"
  BY <1>1, WatchdogAssumption DEF NoEnding, Endings
<1>8. WatchdogTypeOK'
  BY <1>1, <1>3, <1>5, <1>7 DEF WatchdogTypeOK
<1>9. TurnAwaited'
  <2>1. \A j \in Slot : ~ (review'[j].flies /\ ~ review'[j].mid)
    BY <1>1, <1>5 DEF TurnAwaited
  <2> QED
    BY <1>1, <1>6, <1>7, <2>1 DEF TurnAwaited
<1> QED
  BY <1>1, <1>3, <1>8, <1>9 DEF HeardKept

\* The handlers of the session, each of which starts an epoch.
LEMMA SessionInv ==
    ASSUME WatchdogInv, PromptStarts \/ SessionOverride \/ SettingsDisable \/ SessionCompacts \/ SessionShutsDown
    PROVE  WatchdogInv'
<1>1. dog \in Dogs /\ repo \in Signature
  BY DEF WatchdogInv, WatchdogTypeOK
<1>2. /\ invalidateActiveReview(dog) \in Dogs /\ reset(dog) \in Dogs
      /\ ~ invalidateActiveReview(dog).reviewing /\ invalidateActiveReview(dog).active = 0
      /\ ~ reset(dog).reviewing /\ reset(dog).active = 0
  BY <1>1, Invalidated
<1>3. ASSUME NEW d \in Dogs
      PROVE  WithBaseline(d) \in Dogs /\ WithBaseline(d).reviewing = d.reviewing /\ WithBaseline(d).active = d.active
  BY <1>1 DEF WithBaseline, Dogs
<1>4. CASE PromptStarts
  BY <1>2, <1>3, <1>4, EpochInv DEF PromptStarts
<1>5. CASE SessionOverride
  <2>1. dog' \in Dogs /\ ~ dog'.reviewing /\ dog'.active = 0
    BY <1>2, <1>5 DEF SessionOverride, Dogs
  <2>2. NewEpoch /\ UNCHANGED <<turn, repo, late>>
    BY <1>5 DEF SessionOverride
  <2> QED
    BY <2>1, <2>2, EpochInv
<1>6. CASE SettingsDisable
  <2>1. dog' \in Dogs /\ ~ dog'.reviewing /\ dog'.active = 0
    BY <1>2, <1>6 DEF SettingsDisable, Dogs
  <2>2. NewEpoch /\ UNCHANGED <<turn, repo, late>>
    BY <1>6 DEF SettingsDisable
  <2> QED
    BY <2>1, <2>2, EpochInv
<1>7. CASE SessionCompacts
  <2>1. NewEpoch /\ UNCHANGED <<turn, repo, late>> /\ dog' = reset(dog)
    BY <1>7 DEF SessionCompacts
  <2> QED
    BY <1>2, <2>1, EpochInv
<1>8. CASE SessionShutsDown
  <2>1. dog' \in Dogs /\ ~ dog'.reviewing /\ dog'.active = 0
    BY <1>2, <1>8 DEF SessionShutsDown, Dogs
  <2>2. NewEpoch /\ UNCHANGED <<turn, repo, late>>
    BY <1>8 DEF SessionShutsDown
  <2> QED
    BY <2>1, <2>2, EpochInv
<1> QED
  BY <1>4, <1>5, <1>6, <1>7, <1>8

\* What leaves the reviews as they are.
LEMMA StaysInv ==
    ASSUME WatchdogInv,
           AgentEdits \/ EndsUnreviewed \/ LspIgnored \/ SettingsEnable \/ UNCHANGED watchdogVars
           \/ \E i \in Slot, w \in Warning : ReviewEmits(i, w)
    PROVE  WatchdogInv'
<1> USE DEF WatchdogInv
<1>1. dog \in Dogs /\ ending \in Endings /\ repo \in Signature /\ turn \in {"idle", "running", "ending"}
      /\ (ending.stage = "none" <=> turn # "ending")
  BY DEF WatchdogTypeOK, TurnAwaited
<1>2. SameHeard(dog)
  BY <1>1 DEF SameHeard
<1>3. CASE AgentEdits
  BY <1>1, <1>2, <1>3, HeardStays DEF AgentEdits
<1>4. CASE EndsUnreviewed
  <2>1. SameHeard(dog')
    BY <1>1, <1>4 DEF EndsUnreviewed, SameHeard, Dogs
  <2> QED
    BY <1>1, <1>4, <2>1, HeardStays DEF EndsUnreviewed
<1>5. CASE LspIgnored
  <2>1. NoEnding \in Endings /\ NoEnding.stage = "none"
    BY WatchdogAssumption DEF NoEnding, Endings
  <2> QED
    BY <1>1, <1>2, <1>5, <2>1, HeardStays DEF LspIgnored
<1>6. CASE SettingsEnable
  <2>1. SameHeard(dog')
    BY <1>1, <1>6 DEF SettingsEnable, SameHeard, Dogs
  <2> QED
    BY <1>1, <1>6, <2>1, HeardStays DEF SettingsEnable
<1>7. ASSUME NEW i \in Slot, NEW w \in Warning, ReviewEmits(i, w)
      PROVE  WatchdogInv'
  <2>1. Evaluated(dog.guard, w) \in Guards /\ Candidate(w) \in Lasts /\ w \in MaybeWarning
    BY <1>1, WarningTypes DEF Dogs, MaybeWarning
  <2>2. SameHeard(dog')
    BY <1>1, <1>7, <2>1 DEF ReviewEmits, SameHeard, Dogs
  <2> QED
    BY <1>1, <1>7, <2>2, HeardStays DEF ReviewEmits
<1>8. CASE UNCHANGED watchdogVars
  BY <1>1, <1>2, <1>8, HeardStays DEF watchdogVars
<1> QED
  BY <1>3, <1>4, <1>5, <1>6, <1>7, <1>8

\* The invariant is inductive.
LEMMA WatchdogInvNext == WatchdogInv /\ [WatchdogNext]_watchdogVars => WatchdogInv'
<1> SUFFICES ASSUME WatchdogInv, [WatchdogNext]_watchdogVars PROVE WatchdogInv'
  OBVIOUS
<1>1. CASE UserPrompts \/ FollowUpStarts
  BY <1>1, SessionInv DEF UserPrompts, FollowUpStarts
<1>2. ASSUME NEW w \in Warning \cup {NoWarning}, LspAnswers(w)
      PROVE  WatchdogInv'
  BY <1>2, LspAnswersInv DEF MaybeWarning
<1>3. ASSUME NEW i \in Slot, NEW how \in Ending, MidRunReviewEnds(i, how) \/ BoundaryReviewAnswers(i, how)
      PROVE  WatchdogInv'
  BY <1>3, MidRunEndsInv, BoundaryAnswersInv
<1> QED
  BY <1>1, <1>2, <1>3, SessionInv, StaysInv, ToolResultInv, EndsReviewedInv, TimesOutInv DEF WatchdogNext

(***************************************************************************)
(* A review that was superseded never shows a warning, however late it     *)
(* answers and however many are in flight (isCurrent).                     *)
(***************************************************************************)
THEOREM SupersededSilent == WatchdogSpec => []SupersededReviewSilent
<1>1. WatchdogInv => SupersededReviewSilent
  BY DEF WatchdogInv, SupersededReviewSilent
<1> QED
  BY <1>1, WatchdogInvInit, WatchdogInvNext, PTL DEF WatchdogSpec

\* The diagnostics of a turn lead to its review, unless the watchdog is told to forget it.
LEMMA ReviewFollows ==
    ASSUME WatchdogInv, WatchdogNext, ending.stage = "lsp", ending.current, dog.enabled,
           ending'.stage # "lsp", \A i \in Flying : review[i].alone
    PROVE  ending'.stage = "review"
<1>1. ~ dog.reviewing
  <2> SUFFICES ASSUME dog.reviewing PROVE FALSE
    OBVIOUS
  <2>1. dog.active # 0 /\ Heard(dog.active)
    BY DEF WatchdogInv, HeardKept
  <2>2. dog.active \in Slot
    BY <2>1, WatchdogAssumption DEF WatchdogInv, WatchdogTypeOK, Dogs, Slot
  <2>3. review[dog.active].mid /\ review[dog.active].alone
    BY <2>1, <2>2 DEF WatchdogInv, TurnAwaited, Heard, Flying
  <2> QED
    BY <2>1, <2>3 DEF Heard, WatchdogInv, TurnAwaited
<1>2. ending \in Endings /\ turn = "ending"
  BY DEF WatchdogInv, WatchdogTypeOK, TurnAwaited
<1>3. NewEpoch => ending'.stage = "lsp"
  BY <1>2 DEF NewEpoch, Endings
<1>4. ASSUME NEW w \in Warning \cup {NoWarning}, LspAnswers(w)
      PROVE  ending'.stage = "review"
  <2>1. ~ Diagnosed(w).reviewing
    BY <1>1, DiagnosedDog DEF SameHeard, MaybeWarning
  <2> QED
    BY <1>2, <1>4, <2>1 DEF LspAnswers, Endings
<1>5. ASSUME NEW i \in Slot, NEW how, MidRunReviewEnds(i, how)
      PROVE  FALSE
  BY <1>2, <1>5 DEF MidRunReviewEnds, Endings
<1>6. ASSUME NEW i \in Slot, review[i].flies, ~ review[i].mid
      PROVE  FALSE
  BY <1>6 DEF WatchdogInv, TurnAwaited
<1>7. /\ ~ (UserPrompts \/ FollowUpStarts \/ AgentEdits \/ ToolResult \/ EndsUnreviewed \/ EndsReviewed)
      /\ ~ (LspIgnored \/ SettingsEnable \/ SessionCompacts)
      /\ ~ \E i \in Slot, w \in Warning : ReviewEmits(i, w)
  BY <1>2 DEF UserPrompts, FollowUpStarts, PromptStarts, AgentEdits, ToolResult, EndsUnreviewed,
     EndsReviewed, LspIgnored, SettingsEnable, SessionCompacts, ReviewEmits
<1>8. ~ (SessionOverride \/ SettingsDisable \/ SessionShutsDown)
  BY <1>3 DEF SessionOverride, SettingsDisable, SessionShutsDown
<1>9. ~ \E i \in Slot : BoundaryReviewTimesOut(i) \/ \E how \in Ending : BoundaryReviewAnswers(i, how)
  BY <1>6 DEF BoundaryReviewTimesOut, BoundaryReviewAnswers
<1> QED
  BY <1>4, <1>5, <1>7, <1>8, <1>9 DEF WatchdogNext

(***************************************************************************)
(* With every cadence review in flight the only one when it started, the   *)
(* review of a turn's edits is never skipped for one (cancelMidRunReview), *)
(* for any number of them. The premise is needed: it excludes a cadence    *)
(* review that starts beside one which a reset outdated, whose end then    *)
(* clears midRunReviewing (runtime.ts:552-553), so that the next one is    *)
(* not cancelled and the turn goes unreviewed.                             *)
(***************************************************************************)
THEOREM BoundaryReviewNotSkipped == WatchdogSpec => BoundaryReviewRuns
<1>1. WatchdogInv /\ [WatchdogNext]_watchdogVars =>
        [(\A i \in Flying : review[i].alone) => BoundaryReviewStarts]_watchdogVars
  BY ReviewFollows DEF BoundaryReviewStarts
<1> QED
  BY <1>1, WatchdogInvInit, WatchdogInvNext, PTL DEF WatchdogSpec, BoundaryReviewRuns
===============================================================================
