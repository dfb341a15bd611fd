---------------------------- MODULE DeliveryProofs ----------------------------
(***************************************************************************)
(* Proofs about ResultDelivery, for any instances, sessions, results,      *)
(* owners and faults. The invariant carries what the watcher and the       *)
(* notifier remember (HandlingConsistent): that memory, not the messages,  *)
(* is what their guards read, so the promises follow only through it.      *)
(***************************************************************************)
EXTENDS DeliveryProperties, SequenceTheorems, TLAPS

Timers == [Instance -> [Result -> Mode \cup {"none"}]]

(***************************************************************************)
(* What posting a message does to the messages and to who was told.        *)
(***************************************************************************)
\* p is msgs with at most one message more, by i about items, if ok.
ExtendedBy(p, msgs, i, items, ok) ==
    /\ p \in Seq(Message)
    /\ Len(p) >= Len(msgs)
    /\ \A k \in 1..Len(msgs) : p[k] = msgs[k]
    /\ \A k \in 1..Len(p) : k > Len(msgs) => p[k].by = i /\ p[k].items = items /\ ok
    /\ Len(p) = IF ok /\ items # {} THEN Len(msgs) + 1 ELSE Len(msgs)

\* What a send adds to the messages.
LEMMA PostedType ==
    ASSUME NEW msgs \in Seq(Message), NEW i \in Instance, NEW items \in SUBSET Result,
           NEW modes, NEW ok \in BOOLEAN
    PROVE  ExtendedBy(Posted(msgs, i, items, modes, ok), msgs, i, items, ok)
<1> DEFINE e == [by |-> i, items |-> items, turn |-> \E f \in items : modes[f] = "turn"]
           p == Posted(msgs, i, items, modes, ok)
<1>1. e \in Message
  BY DEF Message
<1>2. CASE ok /\ items # {}
  <2>1. p = Append(msgs, e)
    BY <1>2 DEF Posted
  <2>2. e.by = i /\ e.items = items
    OBVIOUS
  <2> HIDE DEF e, p
  <2>3. /\ p \in Seq(Message)
        /\ Len(p) = Len(msgs) + 1
        /\ \A k \in 1..Len(msgs) : p[k] = msgs[k]
        /\ p[Len(msgs) + 1] = e
    BY <1>1, <2>1
  <2>4. \A k \in 1..Len(p) : k > Len(msgs) => k = Len(msgs) + 1
    BY <2>3
  <2>5. Len(msgs) \in Nat
    OBVIOUS
  <2>6. \A k \in 1..Len(p) : k > Len(msgs) => p[k] = e
    BY <2>3, <2>4
  <2>7. Len(p) >= Len(msgs)
    BY <2>3, <2>5
  <2>8. p = Posted(msgs, i, items, modes, ok)
    BY DEF p
  <2> QED BY <1>2, <2>2, <2>3, <2>6, <2>7, <2>8 DEF ExtendedBy
<1>3. CASE ~ (ok /\ items # {})
  <2>1. p = msgs
    BY <1>3 DEF Posted
  <2>2. Len(msgs) \in Nat
    OBVIOUS
  <2> HIDE DEF p
  <2>3. ExtendedBy(p, msgs, i, items, ok)
    BY <1>3, <2>1, <2>2 DEF ExtendedBy
  <2> QED BY <2>3 DEF p
<1> QED BY <1>2, <1>3

\* Whom a send notifies of what.
LEMMA PostedNotified ==
    ASSUME NEW msgs \in Seq(Message), NEW i \in Instance, NEW items \in SUBSET Result,
           NEW modes, NEW ok \in BOOLEAN, NEW j \in Instance
    PROVE  NotifiedIn(Posted(msgs, i, items, modes, ok), j)
             = NotifiedIn(msgs, j) \cup (IF j = i THEN Accepted(items, ok) ELSE {})
<1> DEFINE p == Posted(msgs, i, items, modes, ok)
<1>0. ExtendedBy(p, msgs, i, items, ok)
  BY PostedType
<1> HIDE DEF p
<1>1. /\ Len(p) \in Nat /\ Len(msgs) \in Nat /\ Len(p) >= Len(msgs)
      /\ \A k \in 1..Len(msgs) : p[k] = msgs[k]
      /\ \A k \in 1..Len(p) : k > Len(msgs) => p[k].by = i /\ p[k].items = items /\ ok
      /\ ok /\ items # {} => Len(p) = Len(msgs) + 1
  BY <1>0 DEF ExtendedBy
<1>2. ASSUME NEW f \in Result, f \in NotifiedIn(p, j)
      PROVE  f \in NotifiedIn(msgs, j) \/ (j = i /\ f \in Accepted(items, ok))
  <2>1. PICK k \in 1..Len(p) : p[k].by = j /\ f \in p[k].items
    BY <1>2 DEF NotifiedIn
  <2>2. CASE k > Len(msgs)
    BY <1>1, <2>1, <2>2 DEF Accepted
  <2>3. CASE k <= Len(msgs)
    BY <1>1, <2>1, <2>3 DEF NotifiedIn
  <2> QED BY <1>1, <2>2, <2>3
<1>3. ASSUME NEW f \in Result, f \in NotifiedIn(msgs, j)
      PROVE  f \in NotifiedIn(p, j)
  BY <1>1, <1>3 DEF NotifiedIn
<1>4. ASSUME NEW f \in Result, f \in Accepted(items, ok), j = i
      PROVE  f \in NotifiedIn(p, j)
  <2>1. ok /\ f \in items /\ Len(p) = Len(msgs) + 1
    BY <1>1, <1>4 DEF Accepted
  <2>2. Len(p) \in 1..Len(p) /\ p[Len(p)].by = i /\ p[Len(p)].items = items
    BY <1>1, <2>1
  <2> QED BY <1>4, <2>1, <2>2 DEF NotifiedIn
<1>5. NotifiedIn(p, j) \subseteq Result /\ NotifiedIn(msgs, j) \subseteq Result
  BY DEF NotifiedIn
<1>6. Accepted(items, ok) \subseteq Result
  BY DEF Accepted
<1> QED BY <1>2, <1>3, <1>4, <1>5, <1>6 DEF p

\* A send of what is new to its instance announces nothing twice.
LEMMA PostedOnce ==
    ASSUME NEW msgs \in Seq(Message), NEW i \in Instance, NEW items \in SUBSET Result,
           NEW modes, NEW ok \in BOOLEAN,
           OnceIn(msgs), ok => items \cap NotifiedIn(msgs, i) = {}
    PROVE  OnceIn(Posted(msgs, i, items, modes, ok))
<1> DEFINE p == Posted(msgs, i, items, modes, ok)
<1>0. ExtendedBy(p, msgs, i, items, ok)
  BY PostedType
<1> HIDE DEF p
<1>1. /\ Len(p) \in Nat /\ Len(msgs) \in Nat /\ Len(p) >= Len(msgs)
      /\ Len(p) > Len(msgs) => Len(p) = Len(msgs) + 1
      /\ \A k \in 1..Len(msgs) : p[k] = msgs[k]
      /\ \A k \in 1..Len(p) : k > Len(msgs) => p[k].by = i /\ p[k].items = items /\ ok
  BY <1>0 DEF ExtendedBy
<1>2. ASSUME NEW k \in 1..Len(msgs), msgs[k].by = i, ok
      PROVE  msgs[k].items \cap items = {}
  <2>1. \A f \in msgs[k].items \cap items : f \in NotifiedIn(msgs, i)
    BY <1>2 DEF NotifiedIn
  <2> QED BY <1>2, <2>1
<1>3. SUFFICES ASSUME NEW j \in 1..Len(p), NEW k \in 1..Len(p), j # k, p[j].by = p[k].by
               PROVE  p[j].items \cap p[k].items = {}
  BY DEF OnceIn, p
<1>4. CASE j <= Len(msgs) /\ k <= Len(msgs)
  BY <1>1, <1>3, <1>4 DEF OnceIn
<1>5. CASE j <= Len(msgs) /\ k > Len(msgs)
  BY <1>1, <1>2, <1>3, <1>5
<1>6. CASE j > Len(msgs) /\ k <= Len(msgs)
  BY <1>1, <1>2, <1>3, <1>6
<1>7. CASE j > Len(msgs) /\ k > Len(msgs)
  BY <1>1, <1>3, <1>7
<1> QED BY <1>1, <1>4, <1>5, <1>6, <1>7

(***************************************************************************)
(* Timers, and one step of the notifier of i, which f enters (F = {f}) or  *)
(* nobody (F = {}).                                                        *)
(***************************************************************************)
LEMMA ScheduledType ==
    ASSUME NEW t \in Timers, NEW i \in Instance, NEW files, NEW m
    PROVE  /\ Scheduled(t, i, files, m) \in Timers
           /\ \A j \in Instance : j # i => Scheduled(t, i, files, m)[j] = t[j]
<1>1. \A old \in Mode \cup {"none"} : MergedMode(old, m) \in Mode
  BY DEF MergedMode, Mode
<1>2. [f \in Result |-> IF f \in files THEN MergedMode(t[i][f], m) ELSE t[i][f]]
         \in [Result -> Mode \cup {"none"}]
  BY <1>1 DEF Timers
<1> QED BY <1>2 DEF Scheduled, Timers

\* Settled handlers have stages.
LEMMA SettledType ==
    ASSUME NEW stages \in [Result -> Stage], NEW items, NEW ok \in BOOLEAN
    PROVE  Settled(stages, items, ok) \in [Result -> Stage]
BY DEF Settled, Stage

(***************************************************************************)
(* The inductive invariant.                                                *)
(***************************************************************************)
NewHasNoSession == \A i \in Instance : phase[i] = "new" => session[i] = NoSession

IInv ==
    /\ TypeOK
    /\ NewHasNoSession
    /\ HandlingConsistent
    /\ NotifiedOnce
    /\ OnlyOwnerTold
    /\ DeletedOnlyWhenTold

NotifierStep(i, F) ==
    /\ stage' \in [Instance -> [Result -> Stage]]
    /\ seen' \in [Instance -> SUBSET Result]
    /\ messages' \in Seq(Message)
    /\ OnceIn(messages')
    /\ \A k \in 1..Len(messages') : k > Len(messages) => messages'[k].by = i
    /\ \A j \in Instance : NotifiedIn(messages', j) = seen'[j]
    /\ \A j \in Instance \ {i} : stage'[j] = stage[j] /\ seen'[j] = seen[j]
    /\ seen[i] \subseteq seen'[i]
    /\ seen'[i] \subseteq seen[i] \cup Held(i) \cup F
    /\ \A g \in Result :
         /\ stage'[i][g] = "held" => g \notin seen'[i]
         /\ stage'[i][g] = "accepted" =>
               g \in seen'[i] \cup acked'[i] \/ stage[i][g] = "accepted"
         /\ stage'[i][g] # "idle" => stage[i][g] # "idle" \/ g \in F

\* A batch that is emitted.
LEMMA EmitStep ==
    ASSUME IInv, NEW i \in Instance, NEW modes, NEW ok \in BOOLEAN,
           stage' = [stage EXCEPT ![i] = Settled(stage[i], Held(i), ok)],
           seen' = [seen EXCEPT ![i] = @ \cup Accepted(Held(i), ok)],
           messages' = Posted(messages, i, Held(i), modes, ok)
    PROVE  NotifierStep(i, {})
<1> DEFINE p == Posted(messages, i, Held(i), modes, ok)
<1>0. /\ TypeOK
      /\ \A j \in Instance : ConsistentInstance(j)
      /\ OnceIn(messages)
      /\ messages' = p
  BY DEF IInv, HandlingConsistent, NotifiedOnce
<1>1. stage[i] \in [Result -> Stage] /\ Held(i) \in SUBSET Result /\ messages \in Seq(Message)
  BY <1>0 DEF TypeOK, Held
<1>2. stage' \in [Instance -> [Result -> Stage]]
  BY <1>0, <1>1, SettledType DEF TypeOK
<1>3. seen' \in [Instance -> SUBSET Result]
  BY <1>0, <1>1 DEF TypeOK, Accepted
<1>4. /\ p \in Seq(Message)
      /\ \A k \in 1..Len(p) : k > Len(messages) => p[k].by = i
  <2>1. ExtendedBy(p, messages, i, Held(i), ok)
    BY <1>1, PostedType
  <2> HIDE DEF p
  <2> QED BY <2>1 DEF ExtendedBy
<1>5. \A j \in Instance : seen[j] = NotifiedIn(messages, j)
  BY <1>0 DEF ConsistentInstance, Notified
<1>6. Held(i) \cap seen[i] = {}
  BY <1>0 DEF ConsistentInstance
<1>7. OnceIn(p)
  BY <1>0, <1>1, <1>5, <1>6, PostedOnce
<1>8. \A j \in Instance : NotifiedIn(p, j) = seen'[j]
  <2>1. \A j \in Instance : NotifiedIn(p, j)
           = NotifiedIn(messages, j) \cup (IF j = i THEN Accepted(Held(i), ok) ELSE {})
    BY <1>1, PostedNotified
  <2> HIDE DEF p
  <2>2. \A j \in Instance \ {i} : NotifiedIn(p, j) = seen[j] /\ seen'[j] = seen[j]
    BY <1>0, <1>5, <2>1 DEF TypeOK
  <2>3. NotifiedIn(p, i) = seen[i] \cup Accepted(Held(i), ok)
    BY <1>5, <2>1
  <2>4. seen'[i] = seen[i] \cup Accepted(Held(i), ok)
    BY <1>0 DEF TypeOK
  <2> QED BY <2>2, <2>3, <2>4
<1>9. \A j \in Instance \ {i} : stage'[j] = stage[j] /\ seen'[j] = seen[j]
  BY <1>0 DEF TypeOK
<1>10. seen'[i] = seen[i] \cup Accepted(Held(i), ok)
  BY <1>0 DEF TypeOK
<1>11. stage'[i] = Settled(stage[i], Held(i), ok)
  BY <1>0 DEF TypeOK
<1>12. ASSUME NEW g \in Result
       PROVE  /\ stage'[i][g] = "held" => g \notin seen'[i]
              /\ stage'[i][g] = "accepted" => g \in seen'[i] \/ stage[i][g] = "accepted"
              /\ stage'[i][g] # "idle" => stage[i][g] # "idle"
  BY <1>10, <1>11 DEF Settled, Held, Accepted
<1>13. Accepted(Held(i), ok) \subseteq Held(i)
  BY DEF Accepted
<1> HIDE DEF p
<1> QED BY <1>0, <1>2, <1>3, <1>4, <1>7, <1>8, <1>9, <1>10, <1>12, <1>13 DEF NotifierStep

\* A result that enters the notifier.
LEMMA DeliverStep ==
    ASSUME IInv, NEW i \in Instance, NEW f \in Result, NEW modes,
           stage[i][f] # "held", Deliver(i, f, modes)
    PROVE  NotifierStep(i, {f})
<1>0. /\ TypeOK
      /\ \A j \in Instance : ConsistentInstance(j)
      /\ OnceIn(messages)
  BY DEF IInv, HandlingConsistent, NotifiedOnce
<1>1. /\ stage[i] \in [Result -> Stage] /\ Held(i) \in SUBSET Result
      /\ messages \in Seq(Message)
      /\ seen \in [Instance -> SUBSET Result] /\ stage \in [Instance -> [Result -> Stage]]
  BY <1>0 DEF TypeOK, Held
<1>2. /\ \A j \in Instance : NotifiedIn(messages, j) = seen[j]
      /\ Held(i) \cap seen[i] = {}
      /\ \A g \in Result : stage[i][g] = "accepted" => g \in seen[i] \cup acked[i]
  BY <1>0 DEF ConsistentInstance, Notified
<1>3. ASSUME NEW to \in {"accepted", "held"},
             stage' = [stage EXCEPT ![i][f] = to], UNCHANGED <<seen, messages>>,
             to = "accepted" => f \in seen[i], to = "held" => f \notin seen[i]
      PROVE  NotifierStep(i, {f})
  <2>1. stage' \in [Instance -> [Result -> Stage]]
    BY <1>1, <1>3 DEF Stage
  <2>2. /\ seen' = seen
        /\ messages' = messages
    BY <1>3
  <2>3. /\ stage'[i][f] = to
        /\ \A g \in Result \ {f} : stage'[i][g] = stage[i][g]
        /\ \A j \in Instance \ {i} : stage'[j] = stage[j]
    BY <1>1, <1>3
  <2>4. \A g \in Result \ {f} : stage[i][g] = "held" => g \notin seen[i]
    BY <1>2 DEF Held
  <2> QED BY <1>0, <1>1, <1>2, <1>3, <2>1, <2>2, <2>3, <2>4 DEF NotifierStep
<1>4. ASSUME NEW flushed \in BOOLEAN, NEW ok \in BOOLEAN, f \notin seen[i],
             stage' = [stage EXCEPT ![i] =
                         Settled(Settled(stage[i], Held(i), flushed), {f}, ok)],
             seen' = [seen EXCEPT ![i] = @ \cup Accepted(Held(i), flushed)
                                           \cup Accepted({f}, ok)],
             messages' = Posted(Posted(messages, i, Held(i), modes, flushed),
                                i, {f}, modes, ok)
      PROVE  NotifierStep(i, {f})
  <2> DEFINE p == Posted(messages, i, Held(i), modes, flushed)
             q == Posted(p, i, {f}, modes, ok)
             mid == seen[i] \cup Accepted(Held(i), flushed)
  <2>1. messages' = q
    BY <1>4
  <2>2. /\ p \in Seq(Message) /\ Len(p) >= Len(messages) /\ Len(p) \in Nat
        /\ \A k \in 1..Len(p) : k > Len(messages) => p[k].by = i
    <3>1. ExtendedBy(p, messages, i, Held(i), flushed)
      BY <1>1, PostedType
    <3>2. Len(messages) \in Nat
      BY <1>1
    <3> HIDE DEF p
    <3> QED BY <3>1, <3>2 DEF ExtendedBy
  <2>3. OnceIn(p)
    BY <1>0, <1>1, <1>2, PostedOnce
  <2>4. /\ NotifiedIn(p, i) = mid
        /\ \A j \in Instance \ {i} : NotifiedIn(p, j) = seen[j]
    <3>1. \A j \in Instance : NotifiedIn(p, j)
             = NotifiedIn(messages, j) \cup (IF j = i THEN Accepted(Held(i), flushed) ELSE {})
      BY <1>1, PostedNotified
    <3> HIDE DEF p
    <3> QED BY <1>2, <3>1
  <2>5. f \notin mid
    BY <1>4 DEF Accepted, Held
  <2>6. {f} \in SUBSET Result
    OBVIOUS
  <2> HIDE DEF p
  <2>7. /\ q \in Seq(Message)
        /\ \A k \in 1..Len(p) : q[k] = p[k]
        /\ \A k \in 1..Len(q) : k > Len(p) => q[k].by = i
    <3>1. PICK one \in SUBSET Result : one = {f}
      OBVIOUS
    <3>2. ExtendedBy(Posted(p, i, one, modes, ok), p, i, one, ok)
      BY <2>2, PostedType
    <3>3. ExtendedBy(q, p, i, one, ok)
      BY <3>1, <3>2
    <3> HIDE DEF q
    <3> QED BY <3>3 DEF ExtendedBy
  <2>8. OnceIn(q)
    BY <2>2, <2>3, <2>4, <2>5, <2>6, PostedOnce
  <2>9. /\ NotifiedIn(q, i) = mid \cup Accepted({f}, ok)
        /\ \A j \in Instance \ {i} : NotifiedIn(q, j) = seen[j]
    <3>1. \A j \in Instance : NotifiedIn(q, j)
             = NotifiedIn(p, j) \cup (IF j = i THEN Accepted({f}, ok) ELSE {})
      BY <2>2, <2>6, PostedNotified
    <3> HIDE DEF q, mid
    <3> QED BY <2>4, <3>1
  <2> HIDE DEF q
  <2>10. \A k \in 1..Len(q) : k > Len(messages) => q[k].by = i
    <3>1. Len(q) \in Nat /\ Len(messages) \in Nat
      BY <1>1, <2>7
    <3> QED BY <2>2, <2>7, <3>1
  <2>11. /\ seen'[i] = mid \cup Accepted({f}, ok)
         /\ \A j \in Instance \ {i} : seen'[j] = seen[j]
         /\ seen' \in [Instance -> SUBSET Result]
    BY <1>1, <1>4 DEF Accepted
  <2>12. /\ stage'[i] = Settled(Settled(stage[i], Held(i), flushed), {f}, ok)
         /\ \A j \in Instance \ {i} : stage'[j] = stage[j]
    BY <1>1, <1>4
  <2>13. stage' \in [Instance -> [Result -> Stage]]
    BY <1>1, <1>4, SettledType
  <2>14. ASSUME NEW g \in Result
         PROVE  /\ stage'[i][g] = "held" => g \notin seen'[i]
                /\ stage'[i][g] = "accepted" =>
                      g \in seen'[i] \/ (g \notin {f} /\ stage[i][g] = "accepted")
                /\ stage'[i][g] # "idle" => stage[i][g] # "idle" \/ g \in {f}
    BY <2>11, <2>12 DEF Settled, Held, Accepted
  <2>15. /\ seen[i] \subseteq seen'[i]
         /\ seen'[i] \subseteq seen[i] \cup Held(i) \cup {f}
    BY <2>11 DEF Accepted
  <2>16. \A j \in Instance : NotifiedIn(q, j) = seen'[j]
    BY <2>9, <2>11
  <2> HIDE DEF mid
  <2> QED BY <2>1, <2>7, <2>8, <2>10, <2>11, <2>12, <2>13, <2>14, <2>15, <2>16 DEF NotifierStep
<1>5. CASE f \in seen[i]
  BY <1>3, <1>5 DEF Deliver
<1>6. CASE f \notin seen[i] /\ f \notin Urgent
  BY <1>3, <1>6 DEF Deliver
<1>7. CASE f \notin seen[i] /\ f \in Urgent
  <2>1. SendOutcomes \subseteq BOOLEAN
    BY DEF SendOutcomes
  <2> QED BY <1>4, <1>7, <2>1 DEF Deliver
<1> QED BY <1>5, <1>6, <1>7

(***************************************************************************)
(* Preservation of the parts that tell who was told what.                  *)
(***************************************************************************)
SafelyGone(g) ==
    \/ writes[g] > 0 /\ g \notin disk
    \/ \E i \in Instance : session[i] = Owner[g] /\ g \in seen[i] \cup acked[i]

\* A step keeps DeletedOnlyWhenTold if what it deletes was told.
LEMMA DeletionsTold ==
    ASSUME IInv, session' = session,
           \A j \in Instance : seen[j] \subseteq Notified(j)' /\ acked[j] \subseteq acked'[j],
           \A g \in Result : writes'[g] > 0 /\ g \notin disk' => SafelyGone(g)
    PROVE  DeletedOnlyWhenTold'
<1>1. \A j \in Instance : seen[j] = Notified(j)
  BY DEF IInv, HandlingConsistent, ConsistentInstance
<1>2. ASSUME NEW g \in Result, SafelyGone(g)
      PROVE  \E i \in Instance : session[i] = Owner[g] /\ g \in seen[i] \cup acked[i]
  BY <1>1, <1>2 DEF SafelyGone, IInv, DeletedOnlyWhenTold, Told
<1> QED BY <1>2 DEF DeletedOnlyWhenTold, Told

\* A step keeps OnlyOwnerTold if what it tells belongs to the instance's session.
LEMMA OwnersTold ==
    ASSUME IInv, session' = session,
           \A j \in Instance : \A g \in Notified(j)' \cup acked'[j] :
               g \in seen[j] \cup acked[j] \/ Owner[g] = session[j]
    PROVE  OnlyOwnerTold'
<1>1. \A j \in Instance : seen[j] = Notified(j)
  BY DEF IInv, HandlingConsistent, ConsistentInstance
<1> QED BY <1>1 DEF IInv, OnlyOwnerTold

\* Steps that touch timers, watchers and files only.
LEMMA QuietStep ==
    ASSUME IInv, TypeOK',
           UNCHANGED <<phase, session, stage, completionSeen, seen, messages, acked>>,
           \A j \in Instance : watch'[j] # "off" => watch[j] # "off",
           \A j \in Instance : \A g \in Result :
               timer'[j][g] # "none" => timer[j][g] # "none" \/ phase[j] = "open",
           \A g \in Result : writes'[g] > 0 /\ g \notin disk' => SafelyGone(g)
    PROVE  IInv'
<1>1. \A j \in Instance : ConsistentInstance(j)
  BY DEF IInv, HandlingConsistent
<1>2. \A j \in Instance : Notified(j)' = Notified(j) /\ Held(j)' = Held(j)
  BY DEF Notified, NotifiedIn, Held
<1>3. ASSUME NEW j \in Instance
      PROVE  ConsistentInstance(j)'
  BY <1>1, <1>2, <1>3 DEF ConsistentInstance
<1>4. \A j \in Instance : seen[j] = Notified(j)
  BY <1>1 DEF ConsistentInstance
<1>5. DeletedOnlyWhenTold'
  BY <1>2, <1>4, DeletionsTold
<1>6. OnlyOwnerTold'
  BY <1>2, <1>4, OwnersTold
<1>7. NotifiedOnce' /\ NewHasNoSession'
  BY DEF IInv, NotifiedOnce, OnceIn, NewHasNoSession
<1> QED BY <1>3, <1>5, <1>6, <1>7 DEF IInv, HandlingConsistent

(***************************************************************************)
(* The actions, first those that touch timers, watchers and files only.    *)
(***************************************************************************)
LEMMA InitInv == Init => IInv
<1> SUFFICES ASSUME Init PROVE IInv
  OBVIOUS
<1>1. TypeOK
  BY DEF Init, TypeOK, Mode, Stage
<1>2. \A i \in Instance : Notified(i) = {}
  BY DEF Init, Notified, NotifiedIn
<1>3. HandlingConsistent
  BY <1>2 DEF Init, HandlingConsistent, ConsistentInstance, Held
<1>4. NotifiedOnce /\ NewHasNoSession
  BY DEF Init, NotifiedOnce, OnceIn, NewHasNoSession
<1>5. OnlyOwnerTold /\ DeletedOnlyWhenTold
  BY <1>2 DEF Init, OnlyOwnerTold, DeletedOnlyWhenTold
<1> QED BY <1>1, <1>3, <1>4, <1>5 DEF IInv

\* A timer that is taken leaves timers.
LEMMA TimerTakenType ==
    ASSUME timer \in Timers, NEW i \in Instance, NEW f \in Result
    PROVE  /\ TimerTaken(i, f) \in Timers
           /\ \A j \in Instance, g \in Result :
                 TimerTaken(i, f)[j][g] # "none" => timer[j][g] # "none"
BY DEF Timers, TimerTaken

\* A timer fires for a file that is gone or of another session.
LEMMA FiresInVainInv ==
    ASSUME IInv, NEW i \in Instance, NEW f \in Result, FiresInVain(i, f)
    PROVE  IInv'
<1>1. TypeOK
  BY DEF IInv
<1>2. /\ timer' \in Timers
      /\ \A j \in Instance, g \in Result : timer'[j][g] # "none" => timer[j][g] # "none"
  BY <1>1, TimerTakenType DEF FiresInVain, TypeOK, Timers
<1>3. TypeOK'
  BY <1>1, <1>2 DEF TypeOK, FiresInVain, Timers, diskVars, lifeVars
<1> QED BY <1>2, <1>3, QuietStep DEF FiresInVain, diskVars, lifeVars, SafelyGone

\* A deletion removes one file at most, or sets a timer to try again.
LEMMA UnlinkEffect ==
    ASSUME NEW i \in Instance, NEW f \in Result, NEW times \in Timers, NEW m,
           disk \subseteq Result, Unlink(i, f, times, m)
    PROVE  /\ disk' \subseteq Result
           /\ disk \ disk' \subseteq {f}
           /\ timer' \in Timers
           /\ \A j \in Instance, g \in Result :
                 timer'[j][g] # "none" => times[j][g] # "none" \/ j = i
<1>1. CASE disk' = disk \ {f} /\ timer' = times
  BY <1>1
<1>2. CASE disk' = disk /\ timer' = Scheduled(times, i, {f}, m)
  BY <1>2, ScheduledType
<1> QED BY <1>1, <1>2 DEF Unlink

\* A timer fires for a result that was told.
LEMMA FiresForSeenInv ==
    ASSUME IInv, NEW i \in Instance, NEW f \in Result, FiresForSeen(i, f)
    PROVE  IInv'
<1>1. TypeOK /\ ConsistentInstance(i)
  BY DEF IInv, HandlingConsistent
<1>2. /\ phase[i] = "open"
      /\ Owner[f] = session[i]
      /\ f \in completionSeen[i]
      /\ timer[i][f] \in Mode
  BY <1>1 DEF FiresForSeen, Handles, TypeOK
<1>3. /\ TimerTaken(i, f) \in Timers
      /\ \A j \in Instance, g \in Result :
            TimerTaken(i, f)[j][g] # "none" => timer[j][g] # "none"
  BY <1>1, TimerTakenType DEF TypeOK, Timers
<1>4. /\ disk' \subseteq Result
      /\ disk \ disk' \subseteq {f}
      /\ timer' \in Timers
      /\ \A j \in Instance, g \in Result :
            timer'[j][g] # "none" => TimerTaken(i, f)[j][g] # "none" \/ j = i
  BY <1>1, <1>2, <1>3, UnlinkEffect DEF FiresForSeen, TypeOK
<1>5. TypeOK'
  BY <1>1, <1>4 DEF TypeOK, FiresForSeen, Timers, lifeVars
<1>6. f \in seen[i] \cup acked[i]
  BY <1>1, <1>2 DEF ConsistentInstance
<1>7. \A g \in Result : writes'[g] > 0 /\ g \notin disk' => SafelyGone(g)
  BY <1>2, <1>4, <1>6 DEF SafelyGone, FiresForSeen
<1>8. \A j \in Instance, g \in Result :
         timer'[j][g] # "none" => timer[j][g] # "none" \/ phase[j] = "open"
  BY <1>2, <1>3, <1>4
<1> QED BY <1>5, <1>7, <1>8, QuietStep DEF FiresForSeen, lifeVars

\* Priming sets timers of its own instance only.
LEMMA PrimedIfPollingType ==
    ASSUME timer \in Timers, NEW i \in Instance, NEW w
    PROVE  /\ PrimedIfPolling(i, w) \in Timers
           /\ \A j \in Instance : j # i => PrimedIfPolling(i, w)[j] = timer[j]
<1>1. "turn" \in Mode
  BY DEF Mode
<1> QED BY <1>1, ScheduledType DEF PrimedIfPolling

\* What a watcher may become.
LEMMA WatchOutcomesType == WatchOutcomes \subseteq {"watching", "restarting", "polling"}
BY DEF WatchOutcomes

\* The watcher fails, restarts and polls.
LEMMA WatcherInv ==
    ASSUME IInv, NEW i \in Instance, WatcherFails(i) \/ WatcherRestarts(i) \/ Polls(i)
    PROVE  IInv'
<1>1. TypeOK /\ ConsistentInstance(i)
  BY DEF IInv, HandlingConsistent
<1>2. /\ phase[i] = "open"
      /\ watch[i] # "off"
  BY <1>1 DEF ConsistentInstance, WatcherFails, WatcherRestarts, Polls
<1>3. /\ timer' \in Timers
      /\ \A j \in Instance : j # i => timer'[j] = timer[j]
  <2>1. timer \in Timers /\ "turn" \in Mode
    BY <1>1 DEF TypeOK, Timers, Mode
  <2>2. CASE WatcherFails(i) \/ WatcherRestarts(i)
    BY <2>1, <2>2, PrimedIfPollingType DEF WatcherFails, WatcherRestarts
  <2>3. CASE Polls(i)
    BY <2>1, <2>3, ScheduledType DEF Polls
  <2> QED BY <2>2, <2>3
<1>4. /\ watch' \in [Instance -> {"off", "watching", "restarting", "polling"}]
      /\ \A j \in Instance : j # i => watch'[j] = watch[j]
  <2>1. CASE \E w \in WatchOutcomes : watch' = [watch EXCEPT ![i] = w]
    <3>1. PICK w \in WatchOutcomes : watch' = [watch EXCEPT ![i] = w]
      BY <2>1
    <3>2. w \in {"watching", "restarting", "polling"}
      BY WatchOutcomesType
    <3> QED BY <1>1, <3>1, <3>2 DEF TypeOK
  <2>2. CASE watch' = watch
    BY <1>1, <2>2 DEF TypeOK
  <2> QED BY <2>1, <2>2 DEF WatcherFails, WatcherRestarts, Polls
<1>5. stale' \in [Instance -> SUBSET Result]
  BY <1>1 DEF TypeOK, WatcherFails, WatcherRestarts, Polls
<1>6. UNCHANGED <<disk, writes, phase, session, backlog, stage, mode, completionSeen, seen,
                 messages, acked>>
  BY DEF WatcherFails, WatcherRestarts, Polls, diskVars, lifeVars
<1>7. TypeOK'
  BY <1>1, <1>3, <1>4, <1>5, <1>6 DEF TypeOK, Timers
<1>8. \A j \in Instance : watch'[j] # "off" => watch[j] # "off"
  BY <1>2, <1>4
<1>9. \A j \in Instance, g \in Result :
         timer'[j][g] # "none" => timer[j][g] # "none" \/ phase[j] = "open"
  BY <1>2, <1>3
<1>10. \A g \in Result : writes'[g] > 0 /\ g \notin disk' => SafelyGone(g)
  BY <1>6 DEF SafelyGone
<1> QED BY <1>6, <1>7, <1>8, <1>9, <1>10, QuietStep

\* A run writes its result.
LEMMA WriteInv ==
    ASSUME IInv, NEW f \in Result, Write(f)
    PROVE  IInv'
<1>1. TypeOK /\ \A j \in Instance : ConsistentInstance(j)
  BY DEF IInv, HandlingConsistent
<1>2. "turn" \in Mode /\ timer \in Timers
  BY <1>1 DEF TypeOK, Timers, Mode
<1>3. \A j \in Instance :
         /\ timer'[j] \in [Result -> Mode \cup {"none"}]
         /\ watch[j] # "watching" => timer'[j] = timer[j]
  BY <1>2, ScheduledType DEF Write, Timers
<1>4. timer' \in Timers
  BY <1>3 DEF Write, Timers
<1>5. \A j \in Instance : watch[j] = "watching" => phase[j] = "open"
  BY <1>1 DEF ConsistentInstance
<1>6. TypeOK'
  <2>1. writes' \in [Result -> Nat]
    <3>1. writes[f] + 1 \in Nat
      BY <1>1 DEF TypeOK
    <3> QED BY <1>1, <3>1 DEF TypeOK, Write
  <2>2. disk' \subseteq Result
    BY <1>1 DEF TypeOK, Write
  <2> QED BY <1>1, <1>4, <2>1, <2>2 DEF TypeOK, Write, Timers, lifeVars
<1>7. \A j \in Instance, g \in Result :
         timer'[j][g] # "none" => timer[j][g] # "none" \/ phase[j] = "open"
  BY <1>3, <1>5
<1>8. \A g \in Result : writes'[g] > 0 /\ g \notin disk' => SafelyGone(g)
  <2>1. \A g \in Result : g \notin disk' => g # f /\ g \notin disk
    BY DEF Write
  <2>2. \A g \in Result : g # f => writes'[g] = writes[g]
    BY <1>1 DEF Write, TypeOK
  <2> QED BY <2>1, <2>2 DEF SafelyGone
<1> QED BY <1>6, <1>7, <1>8, QuietStep DEF Write, lifeVars

(***************************************************************************)
(* The handlers.                                                           *)
(***************************************************************************)
\* A step of the notifier of i, and what the handler does to timers and files
\* besides, keeps the invariant.
LEMMA NotifierInv ==
    ASSUME IInv, TypeOK', NEW i \in Instance, NEW F \in SUBSET Result,
           NotifierStep(i, F), UNCHANGED <<phase, session, watch>>,
           \A g \in F : Owner[g] = session[i],
           \A g \in Result : stage'[i][g] = "held" => phase[i] = "open",
           \A j \in Instance : acked[j] \subseteq acked'[j],
           \A j \in Instance : \A g \in acked'[j] \ acked[j] : Owner[g] = session[j],
           \A j \in Instance : \A g \in Result :
               timer'[j][g] # "none" => timer[j][g] # "none" \/ phase[j] = "open",
           \A j \in Instance : completionSeen'[j] \subseteq seen'[j] \cup acked'[j],
           \A g \in Result : writes'[g] > 0 /\ g \notin disk' => SafelyGone(g)
    PROVE  IInv'
<1>0. /\ TypeOK
      /\ \A j \in Instance : ConsistentInstance(j)
      /\ NewHasNoSession
  BY DEF IInv, HandlingConsistent
<1>1. \A j \in Instance : Notified(j)' = seen'[j]
  BY DEF NotifierStep, Notified
<1>2. \A j \in Instance : seen[j] \subseteq seen'[j]
  BY DEF NotifierStep
<1>3. ASSUME NEW j \in Instance, j # i
      PROVE  ConsistentInstance(j)'
  <2>1. stage'[j] = stage[j] /\ seen'[j] = seen[j]
    BY <1>3 DEF NotifierStep
  <2>2. Held(j)' = Held(j)
    BY <2>1 DEF Held
  <2> QED BY <1>0, <1>1, <2>1, <2>2 DEF ConsistentInstance
<1>4. ConsistentInstance(i)'
  <2>1. ConsistentInstance(i)
    BY <1>0
  <2>2. ASSUME NEW g \in Result
        PROVE  /\ stage'[i][g] = "held" => g \notin seen'[i]
               /\ stage'[i][g] = "accepted" => g \in seen'[i] \cup acked'[i]
               /\ stage'[i][g] # "idle" => Owner[g] = session[i]
    BY <2>1, <1>2 DEF NotifierStep, ConsistentInstance
  <2>3. Held(i)' \cap seen'[i] = {}
    BY <2>2 DEF Held
  <2> QED BY <1>1, <2>1, <2>2, <2>3 DEF ConsistentInstance
<1>5. \A j \in Instance : \A g \in seen'[j] : g \in seen[j] \/ Owner[g] = session[j]
  <2>1. \A g \in Held(i) : Owner[g] = session[i]
    BY <1>0 DEF ConsistentInstance, Held
  <2> QED BY <2>1 DEF NotifierStep
<1>6. OnlyOwnerTold'
  BY <1>1, <1>5, OwnersTold
<1>8. DeletedOnlyWhenTold'
  BY <1>1, <1>2, DeletionsTold
<1>9. NotifiedOnce'
  BY DEF NotifierStep, NotifiedOnce
<1>10. NewHasNoSession'
  BY <1>0 DEF NewHasNoSession
<1> QED BY <1>3, <1>4, <1>6, <1>8, <1>9, <1>10 DEF IInv, HandlingConsistent

\* A handler that moves on without the notifier.
LEMMA MovesStep ==
    ASSUME IInv, NEW i \in Instance, NEW f \in Result,
           NEW to \in {"idle", "relaying", "accepted"},
           stage' = [stage EXCEPT ![i][f] = to], UNCHANGED <<seen, messages>>,
           to = "accepted" => f \in acked'[i]
    PROVE  NotifierStep(i, {f})
<1>1. /\ TypeOK
      /\ \A j \in Instance : ConsistentInstance(j)
      /\ OnceIn(messages)
  BY DEF IInv, HandlingConsistent, NotifiedOnce
<1>2. stage' \in [Instance -> [Result -> Stage]]
  BY <1>1 DEF TypeOK, Stage
<1>3. /\ stage'[i][f] = to
      /\ \A g \in Result \ {f} : stage'[i][g] = stage[i][g]
      /\ \A j \in Instance \ {i} : stage'[j] = stage[j]
  BY <1>1 DEF TypeOK
<1>4. \A g \in Result \ {f} : stage[i][g] = "held" => g \notin seen[i]
  BY <1>1 DEF ConsistentInstance, Held
<1>5. \A j \in Instance : NotifiedIn(messages, j) = seen[j]
  BY <1>1 DEF ConsistentInstance, Notified
<1>6. messages \in Seq(Message) /\ seen \in [Instance -> SUBSET Result]
  BY <1>1 DEF TypeOK
<1>7. seen' = seen /\ messages' = messages
  OBVIOUS
<1> QED BY <1>1, <1>2, <1>3, <1>4, <1>5, <1>6, <1>7 DEF NotifierStep

\* The urgency of a result, set.
LEMMA ModeTyped ==
    ASSUME TypeOK, NEW i \in Instance, NEW f \in Result, NEW m \in Mode \cup {"none"}
    PROVE  [mode EXCEPT ![i][f] = m] \in [Instance -> [Result -> Mode \cup {"none"}]]
BY DEF TypeOK

\* A timer fires.
LEMMA TimerFiresInv ==
    ASSUME IInv, NEW i \in Instance, NEW f \in Result,
           FiresToRelay(i, f) \/ FiresToNotify(i, f)
    PROVE  IInv'
<1>1. TypeOK /\ \A j \in Instance : ConsistentInstance(j)
  BY DEF IInv, HandlingConsistent
<1>2. /\ phase[i] = "open"
      /\ Owner[f] = session[i]
      /\ stage[i][f] = "idle"
      /\ timer[i][f] \in Mode \cup {"none"}
      /\ mode' = [mode EXCEPT ![i][f] = timer[i][f]]
      /\ timer' = TimerTaken(i, f)
      /\ UNCHANGED <<disk, writes, phase, session, backlog, watch, stale, completionSeen,
                     acked>>
  BY <1>1 DEF FiresToRelay, FiresToNotify, Handles, TypeOK, diskVars, lifeVars
<1>3. NotifierStep(i, {f})
  <2>1. CASE FiresToRelay(i, f)
    BY <2>1, MovesStep DEF FiresToRelay
  <2>2. CASE FiresToNotify(i, f)
    <3>1. PICK modes : Deliver(i, f, modes)
      BY <2>2 DEF FiresToNotify
    <3> QED BY <1>2, <3>1, DeliverStep
  <2> QED BY <2>1, <2>2
<1>4. /\ timer' \in Timers
      /\ \A j \in Instance, g \in Result : timer'[j][g] # "none" => timer[j][g] # "none"
  BY <1>1, <1>2, TimerTakenType DEF TypeOK, Timers
<1>5. TypeOK'
  BY <1>1, <1>2, <1>3, <1>4, ModeTyped DEF TypeOK, NotifierStep, Timers
<1>6. \A j \in Instance : completionSeen'[j] \subseteq seen'[j] \cup acked'[j]
  BY <1>1, <1>2, <1>3 DEF ConsistentInstance, NotifierStep
<1>7. \A g \in Result : writes'[g] > 0 /\ g \notin disk' => SafelyGone(g)
  BY <1>2 DEF SafelyGone
<1> DEFINE one == {f}
<1>8. one \in SUBSET Result /\ NotifierStep(i, one) /\ \A g \in one : Owner[g] = session[i]
  BY <1>2, <1>3
<1> HIDE DEF one
<1> QED BY <1>2, <1>4, <1>5, <1>6, <1>7, <1>8, NotifierInv

\* A batch is sent.
LEMMA BatchFiresInv ==
    ASSUME IInv, NEW i \in Instance, BatchFires(i)
    PROVE  IInv'
<1>1. TypeOK /\ \A j \in Instance : ConsistentInstance(j)
  BY DEF IInv, HandlingConsistent
<1>2. NotifierStep(i, {})
  <2>1. SendOutcomes \subseteq BOOLEAN
    BY DEF SendOutcomes
  <2> QED BY <2>1, EmitStep DEF BatchFires
<1>3. /\ phase[i] = "open"
      /\ UNCHANGED <<disk, writes, phase, session, backlog, watch, timer, mode, stale,
                     completionSeen, acked>>
  BY DEF BatchFires, diskVars, lifeVars
<1>4. TypeOK'
  BY <1>1, <1>2, <1>3 DEF TypeOK, NotifierStep
<1>5. \A j \in Instance : completionSeen'[j] \subseteq seen'[j] \cup acked'[j]
  BY <1>1, <1>2, <1>3 DEF ConsistentInstance, NotifierStep
<1>6. \A g \in Result : writes'[g] > 0 /\ g \notin disk' => SafelyGone(g)
  BY <1>3 DEF SafelyGone
<1> QED BY <1>2, <1>3, <1>4, <1>5, <1>6, NotifierInv

\* The intercom target answers, or times out.
LEMMA RelayAnsweredInv ==
    ASSUME IInv, NEW i \in Instance, NEW f \in Result, RelayAnswered(i, f)
    PROVE  IInv'
<1>1. TypeOK /\ \A j \in Instance : ConsistentInstance(j)
  BY DEF IInv, HandlingConsistent
<1>2. /\ stage[i][f] = "relaying"
      /\ Owner[f] = session[i]
      /\ UNCHANGED <<disk, writes, phase, session, backlog, watch, timer, completionSeen>>
  BY <1>1 DEF RelayAnswered, ConsistentInstance, diskVars, lifeVars
<1>3. PICK ack \in BOOLEAN :
         /\ acked' = IF ack THEN [acked EXCEPT ![i] = @ \cup {f}] ELSE acked
         /\ \/ /\ ~ Owns(i, f)
               /\ HandlerEnds(i, f)
               /\ UNCHANGED <<seen, messages>>
            \/ /\ Owns(i, f)
               /\ DeliverRelayed(i, f, ack)
               /\ UNCHANGED <<mode, stale>>
  BY DEF RelayAnswered
<1>4. /\ acked' \in [Instance -> SUBSET Result]
      /\ \A j \in Instance : acked[j] \subseteq acked'[j]
      /\ \A j \in Instance : \A g \in acked'[j] \ acked[j] : j = i /\ g = f
      /\ ack => f \in acked'[i]
  BY <1>1, <1>3 DEF TypeOK
<1>5. ASSUME ~ Owns(i, f), HandlerEnds(i, f), UNCHANGED <<seen, messages>>
      PROVE  /\ NotifierStep(i, {f})
             /\ \A g \in Result : stage'[i][g] = "held" => phase[i] = "open"
             /\ mode' \in [Instance -> [Result -> Mode \cup {"none"}]]
             /\ stale' \in [Instance -> SUBSET Result]
  <2>1. stage' = [stage EXCEPT ![i][f] = "idle"]
    BY <1>5 DEF HandlerEnds
  <2>2. NotifierStep(i, {f})
    BY <1>5, <2>1, MovesStep
  <2>3. \A g \in Result : stage'[i][g] = "held" => stage[i][g] = "held"
    BY <1>1, <2>1 DEF TypeOK
  <2>4. /\ mode' \in [Instance -> [Result -> Mode \cup {"none"}]]
        /\ stale' \in [Instance -> SUBSET Result]
    BY <1>1, <1>5, ModeTyped DEF TypeOK, HandlerEnds
  <2> QED BY <1>1, <2>2, <2>3, <2>4 DEF ConsistentInstance
<1>6. ASSUME Owns(i, f), DeliverRelayed(i, f, ack), UNCHANGED <<mode, stale>>
      PROVE  /\ NotifierStep(i, {f})
             /\ phase[i] = "open"
             /\ mode' \in [Instance -> [Result -> Mode \cup {"none"}]]
             /\ stale' \in [Instance -> SUBSET Result]
  <2>1. ASSUME ack
        PROVE  NotifierStep(i, {f})
    <3>1. stage' = [stage EXCEPT ![i][f] = "accepted"] /\ UNCHANGED <<seen, messages>>
      BY <1>6, <2>1 DEF DeliverRelayed
    <3> QED BY <1>4, <2>1, <3>1, MovesStep
  <2>2. ASSUME ~ ack
        PROVE  NotifierStep(i, {f})
    <3>1. PICK modes : Deliver(i, f, modes)
      BY <1>6, <2>2 DEF DeliverRelayed
    <3>2. stage[i][f] # "held"
      BY <1>2
    <3> QED BY <3>1, <3>2, DeliverStep
  <2>3. phase[i] = "open"
    BY <1>6 DEF Owns
  <2>4. /\ mode' \in [Instance -> [Result -> Mode \cup {"none"}]]
        /\ stale' \in [Instance -> SUBSET Result]
    BY <1>1, <1>6 DEF TypeOK
  <2> QED BY <2>1, <2>2, <2>3, <2>4
<1> DEFINE one == {f}
<1>7. /\ one \in SUBSET Result
      /\ NotifierStep(i, one)
      /\ \A g \in one : Owner[g] = session[i]
      /\ \A g \in Result : stage'[i][g] = "held" => phase[i] = "open"
      /\ mode' \in [Instance -> [Result -> Mode \cup {"none"}]]
      /\ stale' \in [Instance -> SUBSET Result]
  BY <1>2, <1>3, <1>5, <1>6
<1> HIDE DEF one
<1>8. TypeOK'
  BY <1>1, <1>2, <1>4, <1>7 DEF TypeOK, NotifierStep
<1>9. \A j \in Instance : completionSeen'[j] \subseteq seen'[j] \cup acked'[j]
  BY <1>1, <1>2, <1>4, <1>7 DEF ConsistentInstance, NotifierStep
<1>10. \A g \in Result : writes'[g] > 0 /\ g \notin disk' => SafelyGone(g)
  BY <1>2 DEF SafelyGone
<1>11. \A j \in Instance : \A g \in acked'[j] \ acked[j] : Owner[g] = session[j]
  BY <1>2, <1>4
<1> QED BY <1>2, <1>4, <1>7, <1>8, <1>9, <1>10, <1>11, NotifierInv

\* A handler goes on after its await.
LEMMA ConcludesInv ==
    ASSUME IInv, NEW i \in Instance, NEW f \in Result, Concludes(i, f)
    PROVE  IInv'
<1>1. TypeOK /\ \A j \in Instance : ConsistentInstance(j)
  BY DEF IInv, HandlingConsistent
<1>2. /\ Owner[f] = session[i]
      /\ stage' = [stage EXCEPT ![i][f] = "idle"]
      /\ UNCHANGED <<writes, phase, session, backlog, watch, seen, messages, acked>>
  BY <1>1 DEF Concludes, HandlerEnds, ConsistentInstance, lifeVars
<1>3. mode' \in [Instance -> [Result -> Mode \cup {"none"}]] /\ stale' \in [Instance -> SUBSET Result]
  BY <1>1, ModeTyped DEF Concludes, HandlerEnds, TypeOK
<1>4. NotifierStep(i, {f})
  BY <1>2, MovesStep
<1>5. \A g \in Result : stage'[i][g] = "held" => phase[i] = "open"
  BY <1>1, <1>2 DEF ConsistentInstance, TypeOK
<1>6. timer \in Timers /\ disk \subseteq Result
  BY <1>1 DEF TypeOK, Timers
<1>7. /\ disk' \subseteq Result
      /\ timer' \in Timers
      /\ \A g \in disk \ disk' : g = f /\ Owns(i, f) /\ stage[i][f] = "accepted"
      /\ \A j \in Instance, g \in Result :
            timer'[j][g] # "none" => timer[j][g] # "none" \/ (j = i /\ Owns(i, f))
  <2>1. CASE Unlink(i, f, timer, mode[i][f]) /\ Owns(i, f) /\ stage[i][f] = "accepted"
    <3>1. PICK m : Unlink(i, f, timer, m)
      BY <2>1
    <3>2. /\ disk' \subseteq Result
          /\ disk \ disk' \subseteq {f}
          /\ timer' \in Timers
          /\ \A j \in Instance, g \in Result :
                timer'[j][g] # "none" => timer[j][g] # "none" \/ j = i
      BY <1>6, <3>1, UnlinkEffect
    <3> QED BY <2>1, <3>2
  <2>2. CASE UNCHANGED <<disk, timer>>
    BY <1>6, <2>2
  <2>3. CASE disk' = disk /\ Owns(i, f) /\ timer' = Scheduled(timer, i, {f}, mode[i][f])
    BY <1>6, <2>3, ScheduledType
  <2> QED BY <2>1, <2>2, <2>3 DEF Concludes
<1>8. /\ completionSeen' \in [Instance -> SUBSET Result]
      /\ \A j \in Instance : completionSeen'[j] \subseteq seen[j] \cup acked[j]
  <2>1. CASE completionSeen' = completionSeen
    BY <1>1, <2>1 DEF TypeOK, ConsistentInstance
  <2>2. CASE /\ stage[i][f] = "accepted"
             /\ completionSeen' = [completionSeen EXCEPT ![i] = @ \cup {f}]
    BY <1>1, <2>2 DEF TypeOK, ConsistentInstance
  <2> QED BY <2>1, <2>2 DEF Concludes
<1>9. TypeOK'
  BY <1>1, <1>2, <1>3, <1>4, <1>6, <1>7, <1>8 DEF TypeOK, NotifierStep, Timers
<1>10. \A g \in Result : writes'[g] > 0 /\ g \notin disk' => SafelyGone(g)
  BY <1>1, <1>2, <1>7 DEF SafelyGone, ConsistentInstance
<1>11. \A j \in Instance, g \in Result :
          timer'[j][g] # "none" => timer[j][g] # "none" \/ phase[j] = "open"
  BY <1>7 DEF Owns
<1> DEFINE one == {f}
<1>12. /\ one \in SUBSET Result
       /\ NotifierStep(i, one)
       /\ \A g \in one : Owner[g] = session[i]
  BY <1>2, <1>4
<1> HIDE DEF one
<1> QED BY <1>2, <1>5, <1>8, <1>9, <1>10, <1>11, <1>12, NotifierInv

(***************************************************************************)
(* The life of an instance.                                                *)
(***************************************************************************)
LEMMA SessionStartInv ==
    ASSUME IInv, NEW i \in Instance, NEW s \in Session, NEW recovering \in BOOLEAN,
           SessionStart(i, s, recovering)
    PROVE  IInv'
<1>1. TypeOK /\ (\A j \in Instance : ConsistentInstance(j)) /\ NewHasNoSession
  BY DEF IInv, HandlingConsistent
<1>2. /\ phase' = [phase EXCEPT ![i] = "open"]
      /\ session' = [session EXCEPT ![i] = s]
      /\ session[i] = NoSession
      /\ UNCHANGED <<disk, writes, stage, mode, stale, completionSeen, seen, messages, acked>>
  BY <1>1 DEF SessionStart, NewHasNoSession, diskVars
<1>3. /\ timer' \in Timers
      /\ \A j \in Instance : j # i => timer'[j] = timer[j]
  <2> DEFINE m == IF recovering THEN "silent" ELSE "turn"
  <2>1. PICK w : timer' = Scheduled(PrimedIfPolling(i, w), i, disk, m)
    BY DEF SessionStart, Primed
  <2> HIDE DEF m
  <2>2. timer \in Timers
    BY <1>1 DEF TypeOK, Timers
  <2> QED BY <2>1, <2>2, PrimedIfPollingType, ScheduledType
<1>4. /\ watch' \in [Instance -> {"off", "watching", "restarting", "polling"}]
      /\ \A j \in Instance : j # i => watch'[j] = watch[j]
  <2>1. PICK w \in WatchOutcomes : watch' = [watch EXCEPT ![i] = w]
    BY DEF SessionStart
  <2>2. w \in {"watching", "restarting", "polling"}
    BY WatchOutcomesType
  <2> QED BY <1>1, <2>1, <2>2 DEF TypeOK
<1>5. backlog' \in [Instance -> SUBSET Result]
  BY <1>1 DEF TypeOK, SessionStart
<1>6. TypeOK'
  BY <1>1, <1>2, <1>3, <1>4, <1>5 DEF TypeOK, Timers
<1>7. \A j \in Instance : Notified(j)' = Notified(j) /\ Held(j)' = Held(j)
  BY <1>2 DEF Notified, NotifiedIn, Held
\* An instance of no session owns nothing: it has told and handled nothing.
<1>8. \A f \in Result : Owner[f] # session[i]
  BY <1>2, DeliveryAssumption
<1>9. /\ \A f \in Result : stage[i][f] = "idle"
      /\ Notified(i) \cup acked[i] = {}
  <2>1. Notified(i) \cup acked[i] \subseteq Result
    BY <1>1 DEF TypeOK, Notified, NotifiedIn
  <2> QED BY <1>1, <1>8, <2>1 DEF ConsistentInstance, IInv, OnlyOwnerTold
<1>10. ASSUME NEW j \in Instance
       PROVE  ConsistentInstance(j)'
  <2>1. /\ phase'[j] = IF j = i THEN "open" ELSE phase[j]
        /\ j # i => session'[j] = session[j] /\ timer'[j] = timer[j] /\ watch'[j] = watch[j]
    BY <1>1, <1>2, <1>3, <1>4 DEF TypeOK
  <2>2. CASE j = i
    BY <1>1, <1>2, <1>7, <1>9, <2>1, <2>2 DEF ConsistentInstance
  <2>3. CASE j # i
    BY <1>1, <1>2, <1>7, <2>1, <2>3 DEF ConsistentInstance
  <2> QED BY <2>2, <2>3
<1>11. \A j \in Instance : j # i => session'[j] = session[j] /\ phase'[j] = phase[j]
  BY <1>1, <1>2 DEF TypeOK
<1>12. OnlyOwnerTold'
  BY <1>2, <1>7, <1>9, <1>11 DEF IInv, OnlyOwnerTold
<1>13. DeletedOnlyWhenTold'
  BY <1>2, <1>7, <1>9, <1>11 DEF IInv, DeletedOnlyWhenTold, Told
<1>14. NotifiedOnce' /\ NewHasNoSession'
  BY <1>1, <1>2, <1>11 DEF IInv, NotifiedOnce, OnceIn, NewHasNoSession, TypeOK
<1> QED BY <1>6, <1>10, <1>12, <1>13, <1>14 DEF IInv, HandlingConsistent

\* A reload, a shutdown or a crash ends an instance.
LEMMA InstanceEndsInv ==
    ASSUME IInv, NEW i \in Instance, SessionShutdown(i) \/ Crash(i)
    PROVE  IInv'
<1>1. TypeOK /\ (\A j \in Instance : ConsistentInstance(j)) /\ NewHasNoSession
  BY DEF IInv, HandlingConsistent
<1>2. /\ phase' = [phase EXCEPT ![i] = "closed"]
      /\ watch' = [watch EXCEPT ![i] = "off"]
      /\ timer' = NoTimers(i)
      /\ UNCHANGED <<disk, writes, session, backlog, completionSeen, seen, messages, acked>>
  BY DEF SessionShutdown, Crash, diskVars
<1>3. PICK stages \in [Result -> Stage] :
         /\ stage' = [stage EXCEPT ![i] = stages]
         /\ \A f \in Result : /\ stages[f] # "held"
                              /\ stages[f] = "accepted" => stage[i][f] = "accepted"
                              /\ stages[f] # "idle" => stage[i][f] # "idle"
  <2>1. CASE SessionShutdown(i)
    <3>1. BatchGivenUp(i) \in [Result -> Stage]
      BY <1>1, SettledType DEF BatchGivenUp, TypeOK
    <3>2. stage' = [stage EXCEPT ![i] = BatchGivenUp(i)]
      BY <2>1 DEF SessionShutdown
    <3>3. \A f \in Result : /\ BatchGivenUp(i)[f] # "held"
                            /\ BatchGivenUp(i)[f] = "accepted" => stage[i][f] = "accepted"
                            /\ BatchGivenUp(i)[f] # "idle" => stage[i][f] # "idle"
      BY DEF BatchGivenUp, Settled, Held
    <3> WITNESS BatchGivenUp(i) \in [Result -> Stage]
    <3> QED BY <3>1, <3>2, <3>3
  <2>2. CASE Crash(i)
    <3> DEFINE allIdle == [f \in Result |-> "idle"]
    <3>1. allIdle \in [Result -> Stage] /\ \A f \in Result : allIdle[f] = "idle"
      BY DEF Stage
    <3>2. stage' = [stage EXCEPT ![i] = allIdle]
      BY <2>2 DEF Crash
    <3> HIDE DEF allIdle
    <3>3. \A f \in Result : allIdle[f] # "held" /\ allIdle[f] # "accepted"
      BY <3>1
    <3> QED BY <3>1, <3>2, <3>3
  <2> QED BY <2>1, <2>2
<1>4. /\ timer' \in Timers
      /\ \A f \in Result : timer'[i][f] = "none"
      /\ \A j \in Instance : j # i => timer'[j] = timer[j]
  BY <1>1, <1>2 DEF TypeOK, Timers, NoTimers
<1>5. /\ mode' \in [Instance -> [Result -> Mode \cup {"none"}]]
      /\ stale' \in [Instance -> SUBSET Result]
  <2>1. CASE SessionShutdown(i)
    BY <1>1, <2>1 DEF TypeOK, SessionShutdown
  <2>2. CASE Crash(i)
    <3>1. [f \in Result |-> "none"] \in [Result -> Mode \cup {"none"}]
      OBVIOUS
    <3> QED BY <1>1, <2>2, <3>1 DEF TypeOK, Crash
  <2> QED BY <2>1, <2>2
<1>6. /\ stage' \in [Instance -> [Result -> Stage]]
      /\ stage'[i] = stages
      /\ phase'[i] = "closed" /\ watch'[i] = "off"
      /\ \A j \in Instance : j # i => /\ stage'[j] = stage[j]
                                     /\ phase'[j] = phase[j]
                                     /\ watch'[j] = watch[j]
  BY <1>1, <1>2, <1>3 DEF TypeOK
<1>7. TypeOK'
  BY <1>1, <1>2, <1>4, <1>5, <1>6 DEF TypeOK, Timers
<1>8. \A j \in Instance : Notified(j)' = Notified(j)
  BY <1>2 DEF Notified, NotifiedIn
<1>9. ConsistentInstance(i)'
  <2>1. Held(i)' = {}
    BY <1>3, <1>6 DEF Held
  <2> QED BY <1>1, <1>2, <1>3, <1>4, <1>6, <1>8, <2>1 DEF ConsistentInstance
<1>10. ASSUME NEW j \in Instance, j # i
       PROVE  ConsistentInstance(j)'
  <2>1. Held(j)' = Held(j)
    BY <1>6, <1>10 DEF Held
  <2> QED BY <1>1, <1>2, <1>4, <1>6, <1>8, <1>10, <2>1 DEF ConsistentInstance
<1>11. OnlyOwnerTold' /\ DeletedOnlyWhenTold'
  BY <1>2, <1>8 DEF IInv, OnlyOwnerTold, DeletedOnlyWhenTold, Told
<1>12. NotifiedOnce'
  BY <1>2 DEF IInv, NotifiedOnce, OnceIn
<1>13. NewHasNoSession'
  BY <1>1, <1>2, <1>6 DEF NewHasNoSession
<1> QED BY <1>7, <1>9, <1>10, <1>11, <1>12, <1>13 DEF IInv, HandlingConsistent

\* The invariant is inductive.
LEMMA NextInv == IInv /\ [Next]_vars => IInv'
<1> SUFFICES ASSUME IInv, [Next]_vars
             PROVE  IInv'
  OBVIOUS
<1>1. ASSUME NEW f \in Result, Write(f)
      PROVE  IInv'
  BY <1>1, WriteInv
<1>2. ASSUME NEW i \in Instance, NEW s \in Session, NEW recovering \in BOOLEAN,
             SessionStart(i, s, recovering)
      PROVE  IInv'
  BY <1>2, SessionStartInv
<1>3. ASSUME NEW i \in Instance, NEW f \in Result, TimerFires(i, f)
      PROVE  IInv'
  BY <1>3, FiresInVainInv, FiresForSeenInv, TimerFiresInv DEF TimerFires
<1>4. ASSUME NEW i \in Instance, NEW f \in Result, RelayAnswered(i, f)
      PROVE  IInv'
  BY <1>4, RelayAnsweredInv
<1>5. ASSUME NEW i \in Instance, NEW f \in Result, Concludes(i, f)
      PROVE  IInv'
  BY <1>5, ConcludesInv
<1>6. ASSUME NEW i \in Instance, BatchFires(i)
      PROVE  IInv'
  BY <1>6, BatchFiresInv
<1>7. ASSUME NEW i \in Instance, WatcherFails(i) \/ WatcherRestarts(i) \/ Polls(i)
      PROVE  IInv'
  BY <1>7, WatcherInv
<1>8. ASSUME NEW i \in Instance, SessionShutdown(i) \/ Crash(i)
      PROVE  IInv'
  BY <1>8, InstanceEndsInv
<1>9. CASE UNCHANGED vars
  BY <1>9 DEF vars, IInv, TypeOK, NewHasNoSession, HandlingConsistent, ConsistentInstance,
              Held, Notified, NotifiedIn, NotifiedOnce, OnceIn, OnlyOwnerTold,
              DeletedOnlyWhenTold, Told
<1> QED BY <1>1, <1>2, <1>3, <1>4, <1>5, <1>6, <1>7, <1>8, <1>9 DEF Next

(***************************************************************************)
(* The invariant holds in every reachable state.                           *)
(***************************************************************************)
THEOREM Invariant == Spec => []IInv
<1>1. Init => IInv
  BY InitInv
<1>2. IInv /\ [Next]_vars => IInv'
  BY NextInv
<1> QED BY <1>1, <1>2, PTL DEF Spec

(***************************************************************************)
(* Every variable keeps its type.                                          *)
(***************************************************************************)
THEOREM TypeCorrect == Spec => []TypeOK
<1>1. IInv => TypeOK
  BY DEF IInv
<1> QED BY <1>1, Invariant, PTL

(***************************************************************************)
(* Watcher, notifier and messages never disagree, in any instance.         *)
(***************************************************************************)
THEOREM HandlingHolds == Spec => []HandlingConsistent
<1>1. IInv => HandlingConsistent
  BY DEF IInv
<1> QED BY <1>1, Invariant, PTL

(***************************************************************************)
(* notify.ts:4-6: a result file is gone only if its owner was told, for    *)
(* any number of instances, whichever of them crash, reload or fail.       *)
(***************************************************************************)
THEOREM NoResultLost == Spec => []DeletedOnlyWhenTold
<1>1. IInv => DeletedOnlyWhenTold
  BY DEF IInv
<1> QED BY <1>1, Invariant, PTL

(***************************************************************************)
(* Only the session that started a run is told of its result.              *)
(***************************************************************************)
THEOREM OwnerOnly == Spec => []OnlyOwnerTold
<1>1. IInv => OnlyOwnerTold
  BY DEF IInv
<1> QED BY <1>1, Invariant, PTL

(***************************************************************************)
(* An instance announces a result at most once.                            *)
(***************************************************************************)
THEOREM AnnouncedOnce == Spec => []NotifiedOnce
<1>1. IInv => NotifiedOnce
  BY DEF IInv
<1> QED BY <1>1, Invariant, PTL

\* A message comes from an instance that is open.
LEMMA OnlyOpenSpeaks ==
    ASSUME IInv, Next, NEW k \in 1..Len(messages'), k > Len(messages)
    PROVE  phase[messages'[k].by] = "open"
<1>1. ASSUME messages' = messages
      PROVE  FALSE
  <2>1. Len(messages) \in Nat
    BY DEF IInv, TypeOK
  <2> QED BY <1>1, <2>1
<1>2. ASSUME NEW i \in Instance, NEW F, NotifierStep(i, F), phase[i] = "open"
      PROVE  phase[messages'[k].by] = "open"
  BY <1>2 DEF NotifierStep
<1>3. ASSUME NEW i \in Instance, NEW f \in Result, TimerFires(i, f)
      PROVE  phase[messages'[k].by] = "open"
  <2>1. CASE FiresToNotify(i, f)
    <3>1. phase[i] = "open" /\ stage[i][f] # "held"
      BY <2>1 DEF FiresToNotify, Handles
    <3>2. PICK modes : Deliver(i, f, modes)
      BY <2>1 DEF FiresToNotify
    <3>3. NotifierStep(i, {f})
      BY <3>1, <3>2, DeliverStep
    <3> QED BY <1>2, <3>1, <3>3
  <2>2. CASE FiresInVain(i, f) \/ FiresForSeen(i, f) \/ FiresToRelay(i, f)
    BY <1>1, <2>2 DEF FiresInVain, FiresForSeen, FiresToRelay
  <2> QED BY <1>3, <2>1, <2>2 DEF TimerFires
<1>4. ASSUME NEW i \in Instance, NEW f \in Result, RelayAnswered(i, f)
      PROVE  phase[messages'[k].by] = "open"
  <2>1. stage[i][f] # "held"
    BY <1>4 DEF RelayAnswered
  <2>2. PICK ack \in BOOLEAN : Owns(i, f) /\ DeliverRelayed(i, f, ack)
    BY <1>1, <1>4 DEF RelayAnswered
  <2>3. ~ ack
    BY <1>1, <2>2 DEF DeliverRelayed
  <2>4. PICK modes : Deliver(i, f, modes)
    BY <2>2, <2>3 DEF DeliverRelayed
  <2>5. NotifierStep(i, {f})
    BY <2>1, <2>4, DeliverStep
  <2> QED BY <1>2, <2>2, <2>5 DEF Owns
<1>5. ASSUME NEW i \in Instance, BatchFires(i)
      PROVE  phase[messages'[k].by] = "open"
  <2>1. SendOutcomes \subseteq BOOLEAN
    BY DEF SendOutcomes
  <2>2. NotifierStep(i, {})
    BY <1>5, <2>1, EmitStep DEF BatchFires
  <2> QED BY <1>2, <1>5, <2>2 DEF BatchFires
<1>6. ASSUME NEW i \in Instance,
             \/ \E f \in Result : Write(f) \/ Concludes(i, f)
             \/ \E s \in Session, recovering \in BOOLEAN : SessionStart(i, s, recovering)
             \/ WatcherFails(i) \/ WatcherRestarts(i) \/ Polls(i)
             \/ SessionShutdown(i) \/ Crash(i)
      PROVE  phase[messages'[k].by] = "open"
  BY <1>1, <1>6 DEF Write, Concludes, SessionStart, WatcherFails, WatcherRestarts, Polls,
                    SessionShutdown, Crash
<1>7. ASSUME NEW f \in Result, Write(f)
      PROVE  phase[messages'[k].by] = "open"
  BY <1>1, <1>7 DEF Write
<1> QED BY <1>3, <1>4, <1>5, <1>6, <1>7 DEF Next

\* A file is deleted by an instance that told its result.
LEMMA OnlyTellersDelete ==
    ASSUME IInv, Next, NEW f \in disk \ disk'
    PROVE  \E i \in Instance : DeletedBy(i, f)
<1>1. TypeOK
  BY DEF IInv
<1>2. disk' # disk /\ f \in Result
  BY <1>1 DEF TypeOK
<1>3. ASSUME NEW i \in Instance, NEW g \in Result, FiresForSeen(i, g)
      PROVE  DeletedBy(i, f)
  <2>1. f = g
    BY <1>2, <1>3 DEF FiresForSeen, Unlink
  <2> QED BY <1>3, <2>1 DEF FiresForSeen, Handles, DeletedBy
<1>4. ASSUME NEW i \in Instance, NEW g \in Result, Concludes(i, g)
      PROVE  DeletedBy(i, f)
  <2>1. /\ Owns(i, g)
        /\ completionSeen' = [completionSeen EXCEPT ![i] = @ \cup {g}]
        /\ f = g
    BY <1>2, <1>4 DEF Concludes, Unlink
  <2>2. g \in completionSeen'[i]
    BY <1>1, <2>1 DEF TypeOK
  <2> QED BY <2>1, <2>2 DEF Owns, DeletedBy
<1>5. ASSUME NEW g \in Result, Write(g)
      PROVE  FALSE
  BY <1>2, <1>5 DEF Write
<1>6. ASSUME NEW i \in Instance,
             \/ \E g \in Result : \/ FiresInVain(i, g) \/ FiresToRelay(i, g)
                                 \/ FiresToNotify(i, g) \/ RelayAnswered(i, g)
             \/ \E s \in Session, recovering \in BOOLEAN : SessionStart(i, s, recovering)
             \/ BatchFires(i) \/ WatcherFails(i) \/ WatcherRestarts(i) \/ Polls(i)
             \/ SessionShutdown(i) \/ Crash(i)
      PROVE  FALSE
  BY <1>2, <1>6 DEF FiresInVain, FiresToRelay, FiresToNotify, RelayAnswered, SessionStart,
                    BatchFires, WatcherFails, WatcherRestarts, Polls, SessionShutdown, Crash,
                    diskVars
<1> QED BY <1>3, <1>4, <1>5, <1>6 DEF Next, TimerFires

(***************************************************************************)
(* result-watcher.ts:91-94: no closed instance sends, and only an open     *)
(* instance of the owner that has told a result deletes its file, whatever *)
(* a handler was waiting for when the session went away.                   *)
(***************************************************************************)
THEOREM RevocationHolds == Spec => RevokedInstanceInert
<1>1. IInv /\ [Next]_vars =>
        [/\ \A k \in 1..Len(messages') : k > Len(messages) => phase[messages'[k].by] = "open"
         /\ \A f \in disk \ disk' : \E i \in Instance : DeletedBy(i, f)]_vars
  BY OnlyOpenSpeaks, OnlyTellersDelete
<1> QED BY <1>1, Invariant, PTL DEF Spec, RevokedInstanceInert

(***************************************************************************)
(* While the watcher is never restarted, no handler is taken for stale: it *)
(* leaves its delivery to the watcher's memory (RelayOK), the session has  *)
(* one open instance, and what lay on disk at its start stays silent until *)
(* it is delivered (BacklogOK).                                            *)
(***************************************************************************)
NeverStale == \A i \in Instance : stale[i] = {} /\ watch[i] # "restarting"

SessionsExclusive ==
    \A i, j \in Instance :
        phase[i] = "open" /\ phase[j] = "open" /\ session[i] = session[j] => i = j

RelayOK(i) ==
    \A f \in Result :
        /\ stage[i][f] = "relaying" => f \notin seen[i] \cup acked[i]
        /\ f \notin seen[i] \/ f \notin acked[i]
        /\ phase[i] = "open" /\ f \in seen[i] \cup acked[i] =>
              stage[i][f] = "accepted" \/ (stage[i][f] = "idle" /\ f \in completionSeen[i])

Silenced(i, f) == OpenOwner(i, f) /\ f \in backlog[i] /\ f \notin completionSeen[i]

Hushed(i, f) ==
    /\ stage[i][f] = "idle" => timer[i][f] = "silent"
    /\ stage[i][f] \notin {"idle", "accepted"} => mode[i][f] = "silent"

BacklogOK(i) == \A f \in Result : Silenced(i, f) => f \in disk /\ Hushed(i, f)

Spoken == \A k \in 1..Len(messages) : phase[messages[k].by] # "new"

RelayInv ==
    /\ NeverStale
    /\ \A i \in Instance : RelayOK(i)

CalmInv ==
    /\ SessionsExclusive
    /\ \A i \in Instance : BacklogOK(i)
    /\ Spoken
    /\ BacklogQuiet

\* What a step of the notifier of i does to its results, those of F entering it.
NotifierMoves(i, F) ==
    \A g \in Result :
        /\ g \in F => stage'[i][g] \in {"accepted", "held", "refused"}
        /\ g \notin F => \/ stage'[i][g] = stage[i][g]
                         \/ stage[i][g] = "held" /\ stage'[i][g] \in {"accepted", "refused"}
        /\ g \in seen'[i] => g \in seen[i] \/ stage'[i][g] = "accepted"
        /\ g \in seen'[i] /\ g \in F => stage'[i][g] = "accepted"

\* What a delivery does to the handlers.
LEMMA DeliverMoves ==
    ASSUME TypeOK, NEW i \in Instance, NEW f \in Result, NEW modes,
           stage[i][f] # "held", Deliver(i, f, modes)
    PROVE  NotifierMoves(i, {f})
<1>1. stage \in [Instance -> [Result -> Stage]] /\ seen \in [Instance -> SUBSET Result]
  BY DEF TypeOK
<1>2. ASSUME NEW to \in {"accepted", "held"}, to = "accepted" <=> f \in seen[i],
             stage' = [stage EXCEPT ![i][f] = to], seen' = seen
      PROVE  NotifierMoves(i, {f})
  <2>1. /\ stage'[i][f] = to
        /\ \A g \in Result \ {f} : stage'[i][g] = stage[i][g]
    BY <1>1, <1>2
  <2> QED BY <1>2, <2>1 DEF NotifierMoves
<1>3. ASSUME NEW flushed \in BOOLEAN, NEW ok \in BOOLEAN, f \notin seen[i],
             stage' = [stage EXCEPT ![i] =
                         Settled(Settled(stage[i], Held(i), flushed), {f}, ok)],
             seen' = [seen EXCEPT ![i] = @ \cup Accepted(Held(i), flushed)
                                           \cup Accepted({f}, ok)]
      PROVE  NotifierMoves(i, {f})
  <2>1. /\ stage'[i] = Settled(Settled(stage[i], Held(i), flushed), {f}, ok)
        /\ seen'[i] = (seen[i] \cup Accepted(Held(i), flushed)) \cup Accepted({f}, ok)
    BY <1>1, <1>3
  <2>2. stage'[i][f] = IF ok THEN "accepted" ELSE "refused"
    BY <2>1 DEF Settled
  <2>3. \A g \in Result \ {f} :
           stage'[i][g] = IF g \in Held(i) THEN IF flushed THEN "accepted" ELSE "refused"
                                           ELSE stage[i][g]
    BY <2>1 DEF Settled
  <2>4. \A g \in Result : g \in Held(i) <=> stage[i][g] = "held"
    BY DEF Held
  <2>5. \A g \in Result :
           g \in seen'[i] => g \in seen[i] \/ (g \in Held(i) /\ flushed) \/ (g = f /\ ok)
    BY <2>1 DEF Accepted
  <2>6. f \in seen'[i] => ok
    BY <1>3, <2>4, <2>5
  <2>7. ASSUME NEW g \in Result, g # f
        PROVE  /\ \/ stage'[i][g] = stage[i][g]
                  \/ stage[i][g] = "held" /\ stage'[i][g] \in {"accepted", "refused"}
               /\ g \in seen'[i] => g \in seen[i] \/ stage'[i][g] = "accepted"
    BY <2>3, <2>4, <2>5, <2>7
  <2> QED BY <2>2, <2>6, <2>7 DEF NotifierMoves
<1>4. SendOutcomes \subseteq BOOLEAN
  BY DEF SendOutcomes
<1>5. CASE f \in seen[i]
  BY <1>2, <1>5 DEF Deliver
<1>6. CASE f \notin seen[i] /\ f \notin Urgent
  BY <1>2, <1>6 DEF Deliver
<1>7. CASE f \notin seen[i] /\ f \in Urgent
  BY <1>3, <1>4, <1>7 DEF Deliver
<1> QED BY <1>5, <1>6, <1>7

\* What a batch does to the handlers.
LEMMA EmitMoves ==
    ASSUME TypeOK, NEW i \in Instance, BatchFires(i)
    PROVE  NotifierMoves(i, {})
<1>1. stage \in [Instance -> [Result -> Stage]] /\ seen \in [Instance -> SUBSET Result]
  BY DEF TypeOK
<1>2. PICK ok \in BOOLEAN :
         /\ stage' = [stage EXCEPT ![i] = Settled(stage[i], Held(i), ok)]
         /\ seen' = [seen EXCEPT ![i] = @ \cup Accepted(Held(i), ok)]
  <2>1. SendOutcomes \subseteq BOOLEAN
    BY DEF SendOutcomes
  <2> QED BY <2>1 DEF BatchFires
<1>3. /\ stage'[i] = Settled(stage[i], Held(i), ok)
      /\ seen'[i] = seen[i] \cup Accepted(Held(i), ok)
  BY <1>1, <1>2
<1> QED BY <1>3 DEF NotifierMoves, Settled, Accepted, Held

(***************************************************************************)
(* A relayed result is not notified.                                       *)
(***************************************************************************)
LEMMA NotifierRelay ==
    ASSUME NEW i \in Instance, NEW F \in SUBSET Result, RelayOK(i), phase[i] = "open",
           NotifierStep(i, F), NotifierMoves(i, F), UNCHANGED <<phase, completionSeen, acked>>,
           F \cap acked[i] = {}
    PROVE  RelayOK(i)'
<1> SUFFICES ASSUME NEW g \in Result
             PROVE  /\ stage'[i][g] = "relaying" => g \notin seen'[i] \cup acked[i]
                    /\ g \notin seen'[i] \/ g \notin acked[i]
                    /\ g \in seen'[i] \cup acked[i] =>
                          \/ stage'[i][g] = "accepted"
                          \/ stage'[i][g] = "idle" /\ g \in completionSeen[i]
  BY DEF RelayOK
<1>1. /\ stage[i][g] = "relaying" => g \notin seen[i] \cup acked[i]
      /\ g \notin seen[i] \/ g \notin acked[i]
      /\ g \in seen[i] \cup acked[i] =>
            stage[i][g] = "accepted" \/ (stage[i][g] = "idle" /\ g \in completionSeen[i])
  BY DEF RelayOK
<1>2. g \in seen'[i] => g \in seen[i] \/ stage[i][g] = "held" \/ g \in F
  BY DEF NotifierStep, Held
<1>3. CASE g \in F
  BY <1>1, <1>2, <1>3 DEF NotifierMoves
<1>4. CASE g \notin F
  BY <1>1, <1>2, <1>4 DEF NotifierMoves
<1> QED BY <1>3, <1>4

\* A step that moves no handler of j and forgets nothing keeps RelayOK(j).
LEMMA RelayFrame ==
    ASSUME NEW j \in Instance, RelayOK(j), phase'[j] = "open" => phase[j] = "open",
           stage'[j] = stage[j], seen'[j] = seen[j], acked'[j] = acked[j],
           completionSeen[j] \subseteq completionSeen'[j]
    PROVE  RelayOK(j)'
BY DEF RelayOK

\* An instance that has not started has told nothing.
LEMMA NewIsBlank ==
    ASSUME IInv, NEW i \in Instance, phase[i] = "new"
    PROVE  /\ \A f \in Result : stage[i][f] = "idle"
           /\ Notified(i) = {} /\ seen[i] = {} /\ acked[i] = {}
<1>1. TypeOK /\ ConsistentInstance(i) /\ session[i] = NoSession
  BY DEF IInv, HandlingConsistent, NewHasNoSession
<1>2. \A f \in Result : Owner[f] # session[i]
  BY <1>1, DeliveryAssumption
<1>3. Notified(i) \cup acked[i] \subseteq Result
  BY <1>1 DEF TypeOK, Notified, NotifiedIn
<1> QED BY <1>1, <1>2, <1>3 DEF ConsistentInstance, IInv, OnlyOwnerTold

\* A handler under way belongs to the session of its instance.
LEMMA OwnsOnTime ==
    ASSUME IInv, NeverStale, NEW i \in Instance, NEW f \in Result, stage[i][f] # "idle",
           phase[i] = "open"
    PROVE  Owns(i, f)
BY DEF IInv, HandlingConsistent, ConsistentInstance, NeverStale, Owns

\* Without a failing watcher no handler is of an earlier session.
LEMMA NeverStaleStep ==
    ASSUME "watch" \notin Faults, IInv, NeverStale, [Next]_vars
    PROVE  NeverStale'
<1>1. TypeOK
  BY DEF IInv
<1>2. "restarting" \notin WatchOutcomes
  BY DEF WatchOutcomes
<1>3. watch' = watch \/ \E i \in Instance : \E w \in WatchOutcomes \cup {"off"} :
                          watch' = [watch EXCEPT ![i] = w]
  <2>1. CASE UNCHANGED vars \/ \E f \in Result : Write(f)
    BY <2>1 DEF Write, vars
  <2>2. CASE \E i \in Instance, f \in Result : TimerFires(i, f) \/ RelayAnswered(i, f) \/ Concludes(i, f)
    BY <2>2 DEF TimerFires, FiresInVain, FiresForSeen, FiresToRelay, FiresToNotify,
                RelayAnswered, Concludes
  <2>3. CASE \E i \in Instance : BatchFires(i) \/ WatcherFails(i) \/ WatcherRestarts(i) \/ Polls(i)
    BY <1>2, <2>3 DEF BatchFires, WatcherFails, WatcherRestarts, Polls, NeverStale
  <2>4. CASE \E i \in Instance : SessionShutdown(i) \/ Crash(i)
    BY <2>4 DEF SessionShutdown, Crash
  <2>5. CASE \E i \in Instance, s \in Session, recovering \in BOOLEAN : SessionStart(i, s, recovering)
    BY <2>5 DEF SessionStart
  <2> QED
    BY <2>1, <2>2, <2>3, <2>4, <2>5 DEF Next
<1>4. \A j \in Instance : watch'[j] # "restarting"
  BY <1>1, <1>2, <1>3 DEF NeverStale, TypeOK
<1>5. stale' = stale \/ \E i \in Instance : \/ stale' = [stale EXCEPT ![i] = {}]
                                           \/ \E f \in Result :
                                                stale' = [stale EXCEPT ![i] = @ \ {f}]
  <2>1. \A i \in Instance : ~ WatcherRestarts(i)
    BY DEF WatcherRestarts, NeverStale
  <2>2. CASE UNCHANGED vars \/ \E f \in Result : Write(f)
    BY <2>2 DEF Write, vars
  <2>3. CASE \E i \in Instance, f \in Result : TimerFires(i, f) \/ RelayAnswered(i, f) \/ Concludes(i, f)
    BY <2>3 DEF TimerFires, FiresInVain, FiresForSeen, FiresToRelay, FiresToNotify,
                RelayAnswered, HandlerEnds, Concludes
  <2>4. CASE \E i \in Instance : BatchFires(i) \/ WatcherFails(i) \/ Polls(i)
    BY <2>4 DEF BatchFires, WatcherFails, Polls
  <2>5. CASE \E i \in Instance : SessionShutdown(i) \/ Crash(i)
    BY <2>5 DEF SessionShutdown, Crash
  <2>6. CASE \E i \in Instance, s \in Session, recovering \in BOOLEAN : SessionStart(i, s, recovering)
    BY <2>6 DEF SessionStart
  <2> QED
    BY <2>1, <2>2, <2>3, <2>4, <2>5, <2>6 DEF Next
<1>6. \A j \in Instance : stale'[j] = {}
  <2>1. DOMAIN stale = Instance /\ \A j \in Instance : stale[j] = {}
    BY <1>1 DEF NeverStale, TypeOK
  <2>2. CASE stale' = stale
    BY <2>1, <2>2
  <2>3. ASSUME NEW i \in Instance, stale' = [stale EXCEPT ![i] = {}]
        PROVE  \A j \in Instance : stale'[j] = {}
    BY <2>1, <2>3
  <2>4. ASSUME NEW i \in Instance, NEW f, stale' = [stale EXCEPT ![i] = @ \ {f}]
        PROVE  \A j \in Instance : stale'[j] = {}
    <3>1. [stale EXCEPT ![i] = @ \ {f}][i] = {}
      BY <2>1
    <3> QED BY <2>1, <2>4, <3>1
  <2> QED BY <1>5, <2>2, <2>3, <2>4
<1> QED BY <1>4, <1>6 DEF NeverStale

\* Steps of i on f, and of nobody.
LEMMA RelayTimerFires ==
    ASSUME IInv, RelayInv, NEW i \in Instance, NEW f \in Result, TimerFires(i, f),
           NEW j \in Instance
    PROVE  RelayOK(j)'
<1>1. TypeOK /\ RelayOK(i) /\ RelayOK(j)
  BY DEF IInv, RelayInv
<1>2. CASE FiresInVain(i, f) \/ FiresForSeen(i, f)
  BY <1>1, <1>2, RelayFrame DEF FiresInVain, FiresForSeen, lifeVars
<1>3. ASSUME FiresToRelay(i, f) \/ FiresToNotify(i, f)
      PROVE  /\ f \notin seen[i] \cup acked[i]
             /\ phase[i] = "open" /\ stage[i][f] = "idle"
             /\ UNCHANGED <<phase, completionSeen, acked>>
  BY <1>1, <1>3 DEF RelayOK, FiresToRelay, FiresToNotify, Handles, lifeVars
<1>4. CASE FiresToRelay(i, f)
  <2>1. /\ stage' = [stage EXCEPT ![i][f] = "relaying"]
        /\ UNCHANGED <<phase, completionSeen, acked, seen>>
    BY <1>4 DEF FiresToRelay, lifeVars
  <2>2. /\ stage'[i][f] = "relaying"
        /\ \A g \in Result \ {f} : stage'[i][g] = stage[i][g]
        /\ \A k \in Instance \ {i} : stage'[k] = stage[k]
    BY <1>1, <2>1 DEF TypeOK
  <2>3. CASE j = i
    <3>1. ASSUME NEW g \in Result, g # f
          PROVE  /\ stage'[i][g] = "relaying" => g \notin seen[i] \cup acked[i]
                 /\ g \notin seen[i] \/ g \notin acked[i]
                 /\ phase[i] = "open" /\ g \in seen[i] \cup acked[i] =>
                       \/ stage'[i][g] = "accepted"
                       \/ stage'[i][g] = "idle" /\ g \in completionSeen[i]
      BY <1>1, <2>2, <3>1 DEF RelayOK
    <3> QED BY <1>3, <1>4, <2>1, <2>3, <3>1 DEF RelayOK
  <2>4. CASE j # i
    BY <1>1, <2>1, <2>2, <2>4, RelayFrame
  <2> QED BY <2>3, <2>4
<1>5. CASE FiresToNotify(i, f)
  <2>1. PICK modes : Deliver(i, f, modes)
    BY <1>5 DEF FiresToNotify
  <2>2. NotifierStep(i, {f}) /\ NotifierMoves(i, {f})
    BY <1>1, <1>3, <1>5, <2>1, DeliverStep, DeliverMoves
  <2>3. CASE j = i
    <3>1. PICK F \in SUBSET Result : F = {f}
      OBVIOUS
    <3>2. F \cap acked[i] = {} /\ NotifierStep(i, F) /\ NotifierMoves(i, F)
      BY <1>3, <1>5, <2>2, <3>1
    <3>3. RelayOK(i)'
      BY <1>1, <1>3, <1>5, <3>2, NotifierRelay
    <3> QED BY <2>3, <3>3
  <2>4. CASE j # i
    BY <1>1, <1>3, <1>5, <2>2, <2>4, RelayFrame DEF NotifierStep
  <2> QED BY <2>3, <2>4
<1> QED BY <1>2, <1>4, <1>5 DEF TimerFires

\* The intercom target answers, or times out.
LEMMA RelayRelayAnswered ==
    ASSUME IInv, RelayInv, NEW i \in Instance, NEW f \in Result, RelayAnswered(i, f),
           NEW j \in Instance
    PROVE  RelayOK(j)'
<1>1. TypeOK /\ RelayOK(i) /\ RelayOK(j)
  BY DEF IInv, RelayInv
<1>2. /\ stage[i][f] = "relaying"
      /\ f \notin seen[i] \cup acked[i]
      /\ UNCHANGED <<phase, completionSeen>>
  BY <1>1 DEF RelayAnswered, RelayOK, lifeVars
<1>3. PICK ack \in BOOLEAN :
         /\ acked' = IF ack THEN [acked EXCEPT ![i] = @ \cup {f}] ELSE acked
         /\ \/ /\ ~ Owns(i, f)
               /\ HandlerEnds(i, f)
               /\ UNCHANGED <<seen, messages>>
            \/ /\ Owns(i, f)
               /\ DeliverRelayed(i, f, ack)
  BY DEF RelayAnswered
<1>4. CASE Owns(i, f) /\ ~ ack
  <2>1. PICK modes : Deliver(i, f, modes)
    BY <1>3, <1>4 DEF DeliverRelayed
  <2>2. NotifierStep(i, {f}) /\ NotifierMoves(i, {f}) /\ acked' = acked
    BY <1>1, <1>2, <1>3, <1>4, <2>1, DeliverStep, DeliverMoves
  <2>3. CASE j = i
    <3>1. PICK F \in SUBSET Result : F = {f}
      OBVIOUS
    <3>2. F \cap acked[i] = {} /\ NotifierStep(i, F) /\ NotifierMoves(i, F)
      BY <1>2, <2>2, <3>1
    <3>3. RelayOK(i)'
      BY <1>1, <1>2, <1>4, <2>2, <3>2, NotifierRelay DEF Owns
    <3> QED BY <2>3, <3>3
  <2>4. CASE j # i
    BY <1>1, <1>2, <2>2, <2>4, RelayFrame DEF NotifierStep
  <2> QED BY <2>3, <2>4
<1>5. CASE ~ Owns(i, f) \/ ack
  <2>1. PICK to \in {"idle", "accepted"} :
           /\ stage' = [stage EXCEPT ![i][f] = to]
           /\ to = "idle" <=> ~ Owns(i, f)
           /\ seen' = seen
    BY <1>3, <1>5 DEF DeliverRelayed, HandlerEnds
  <2>2. /\ stage'[i][f] = to
        /\ \A g \in Result \ {f} : stage'[i][g] = stage[i][g]
        /\ \A k \in Instance \ {i} : stage'[k] = stage[k] /\ acked'[k] = acked[k]
        /\ acked'[i] \subseteq acked[i] \cup {f}
        /\ \A g \in Result \ {f} : g \in acked'[i] <=> g \in acked[i]
    BY <1>1, <1>3, <2>1 DEF TypeOK
  <2>3. ~ Owns(i, f) => phase[i] # "open"
    BY <1>2, OwnsOnTime DEF RelayInv
  <2>4. CASE j = i
    <3>1. ASSUME NEW g \in Result, g # f
          PROVE  /\ stage'[i][g] = "relaying" => g \notin seen[i] \cup acked'[i]
                 /\ g \notin seen[i] \/ g \notin acked'[i]
                 /\ phase[i] = "open" /\ g \in seen[i] \cup acked'[i] =>
                       \/ stage'[i][g] = "accepted"
                       \/ stage'[i][g] = "idle" /\ g \in completionSeen[i]
      BY <1>1, <2>2, <3>1 DEF RelayOK
    <3> QED BY <1>2, <2>1, <2>2, <2>3, <2>4, <3>1 DEF RelayOK
  <2>5. CASE j # i
    BY <1>1, <1>2, <2>1, <2>2, <2>5, RelayFrame
  <2> QED BY <2>4, <2>5
<1> QED BY <1>4, <1>5

\* A handler goes on after its await.
LEMMA RelayConcludes ==
    ASSUME IInv, RelayInv, NEW i \in Instance, NEW f \in Result, Concludes(i, f),
           NEW j \in Instance
    PROVE  RelayOK(j)'
<1>1. TypeOK /\ RelayOK(i) /\ RelayOK(j)
  BY DEF IInv, RelayInv
<1>2. /\ stage[i][f] \in {"accepted", "refused"}
      /\ stage' = [stage EXCEPT ![i][f] = "idle"]
      /\ UNCHANGED <<phase, seen, acked>>
  BY DEF Concludes, HandlerEnds, lifeVars
<1>3. /\ stage'[i][f] = "idle"
      /\ \A g \in Result \ {f} : stage'[i][g] = stage[i][g]
      /\ \A k \in Instance \ {i} : stage'[k] = stage[k]
  BY <1>1, <1>2 DEF TypeOK
<1>4. /\ phase[i] = "open" /\ stage[i][f] = "accepted" => f \in completionSeen'[i]
      /\ \A k \in Instance : completionSeen[k] \subseteq completionSeen'[k]
  <2>1. phase[i] = "open" => Owns(i, f)
    BY <1>2, OwnsOnTime DEF RelayInv
  <2> QED BY <1>1, <2>1 DEF Concludes, TypeOK
<1>5. CASE j = i
  <2>1. ASSUME NEW g \in Result, g # f
        PROVE  /\ stage'[i][g] = "relaying" => g \notin seen[i] \cup acked[i]
               /\ g \notin seen[i] \/ g \notin acked[i]
               /\ phase[i] = "open" /\ g \in seen[i] \cup acked[i] =>
                     \/ stage'[i][g] = "accepted"
                     \/ stage'[i][g] = "idle" /\ g \in completionSeen'[i]
    BY <1>1, <1>3, <1>4, <2>1 DEF RelayOK
  <2>2. /\ f \notin seen[i] \/ f \notin acked[i]
        /\ phase[i] = "open" /\ f \in seen[i] \cup acked[i] => f \in completionSeen'[i]
    BY <1>1, <1>2, <1>4 DEF RelayOK
  <2> QED BY <1>2, <1>3, <1>5, <2>1, <2>2 DEF RelayOK
<1>6. CASE j # i
  BY <1>1, <1>2, <1>3, <1>4, <1>6, RelayFrame
<1> QED BY <1>5, <1>6

\* An instance starts.
LEMMA RelaySessionStart ==
    ASSUME IInv, RelayInv, NEW i \in Instance, NEW s \in Session, NEW recovering \in BOOLEAN,
           SessionStart(i, s, recovering), NEW j \in Instance
    PROVE  RelayOK(j)'
<1>1. TypeOK /\ RelayOK(j)
  BY DEF IInv, RelayInv
<1>2. /\ phase[i] = "new"
      /\ phase' = [phase EXCEPT ![i] = "open"]
      /\ UNCHANGED <<stage, seen, acked, completionSeen>>
  BY DEF SessionStart
<1>3. CASE j = i
  BY <1>2, <1>3, NewIsBlank DEF RelayOK
<1>4. CASE j # i
  <2>1. phase'[j] = phase[j]
    BY <1>1, <1>2, <1>4 DEF TypeOK
  <2> QED BY <1>1, <1>2, <2>1, RelayFrame
<1> QED BY <1>3, <1>4

\* An instance ends.
LEMMA RelayInstanceEnds ==
    ASSUME IInv, RelayInv, NEW i \in Instance, SessionShutdown(i) \/ Crash(i),
           NEW j \in Instance
    PROVE  RelayOK(j)'
<1>1. TypeOK /\ RelayOK(j)
  BY DEF IInv, RelayInv
<1>2. /\ phase' = [phase EXCEPT ![i] = "closed"]
      /\ UNCHANGED <<seen, acked, completionSeen>>
  BY DEF SessionShutdown, Crash
<1>3. /\ phase'[i] = "closed"
      /\ \A k \in Instance \ {i} : phase'[k] = phase[k] /\ stage'[k] = stage[k]
  BY <1>1, <1>2 DEF SessionShutdown, Crash, TypeOK
<1>4. \A g \in Result : stage'[i][g] = "relaying" => stage[i][g] = "relaying"
  BY <1>1 DEF SessionShutdown, Crash, TypeOK, BatchGivenUp, Settled
<1>5. CASE j = i
  BY <1>1, <1>2, <1>3, <1>4, <1>5 DEF RelayOK
<1>6. CASE j # i
  BY <1>1, <1>2, <1>3, <1>6, RelayFrame
<1> QED BY <1>5, <1>6

\* RelayInv is inductive.
LEMMA RelayStep ==
    ASSUME "watch" \notin Faults, IInv, RelayInv, [Next]_vars
    PROVE  RelayInv'
<1>1. NeverStale'
  BY NeverStaleStep DEF RelayInv
<1> SUFFICES ASSUME NEW j \in Instance
             PROVE  RelayOK(j)'
  BY <1>1 DEF RelayInv
<1>2. TypeOK /\ RelayOK(j)
  BY DEF IInv, RelayInv
<1>3. ASSUME UNCHANGED <<phase, stage, seen, acked, completionSeen>>
      PROVE  RelayOK(j)'
  BY <1>2, <1>3, RelayFrame
<1>4. ASSUME NEW f \in Result, Write(f)
      PROVE  RelayOK(j)'
  BY <1>3, <1>4 DEF Write, lifeVars
<1>5. ASSUME NEW i \in Instance, WatcherFails(i) \/ WatcherRestarts(i) \/ Polls(i)
      PROVE  RelayOK(j)'
  BY <1>3, <1>5 DEF WatcherFails, WatcherRestarts, Polls, lifeVars
<1>6. ASSUME NEW i \in Instance, BatchFires(i)
      PROVE  RelayOK(j)'
  <2>1. /\ phase[i] = "open"
        /\ UNCHANGED <<phase, completionSeen, acked>>
    BY <1>6 DEF BatchFires, lifeVars
  <2>2. NotifierStep(i, {}) /\ NotifierMoves(i, {})
    <3>1. SendOutcomes \subseteq BOOLEAN
      BY DEF SendOutcomes
    <3> QED BY <1>2, <1>6, <3>1, EmitStep, EmitMoves DEF BatchFires
  <2>3. CASE j = i
    BY <1>2, <2>1, <2>2, <2>3, NotifierRelay
  <2>4. CASE j # i
    BY <1>2, <2>1, <2>2, <2>4, RelayFrame DEF NotifierStep
  <2> QED BY <2>3, <2>4
<1>7. CASE UNCHANGED vars
  BY <1>3, <1>7 DEF vars
<1> QED BY <1>4, <1>5, <1>6, <1>7, RelayTimerFires, RelayRelayAnswered, RelayConcludes,
           RelaySessionStart, RelayInstanceEnds DEF Next

(***************************************************************************)
(* CHANGELOG.md:197: a result whose relay was acknowledged is not notified *)
(* to the session besides, and one that was notified is not relayed again, *)
(* whatever is written, polled or retried: wherever the watcher never has  *)
(* to be restarted.                                                        *)
(***************************************************************************)
THEOREM RelayedNotNotifiedHolds ==
    ASSUME "watch" \notin Faults
    PROVE  Spec => []RelayedNotNotified
<1>1. Init => RelayInv
  BY DEF Init, RelayInv, NeverStale, RelayOK
<1>2. IInv /\ RelayInv /\ [Next]_vars => RelayInv'
  BY RelayStep
<1>3. IInv /\ RelayInv => RelayedNotNotified
  BY DEF IInv, TypeOK, HandlingConsistent, ConsistentInstance, RelayInv, RelayOK,
         RelayedNotNotified
<1> QED BY <1>1, <1>2, <1>3, Invariant, PTL DEF Spec

(***************************************************************************)
(* What a session found on disk when it was recovered stays silent.        *)
(***************************************************************************)
QuietIn(msgs) ==
    \A k \in 1..Len(msgs) : msgs[k].turn => ~ msgs[k].items \subseteq backlog[msgs[k].by]

SpokenIn(msgs) == \A k \in 1..Len(msgs) : phase[msgs[k].by] # "new"

\* A send without urgent backlog is quiet.
LEMMA PostedQuiet ==
    ASSUME NEW msgs \in Seq(Message), NEW i \in Instance, NEW items \in SUBSET Result,
           NEW modes, NEW ok \in BOOLEAN, QuietIn(msgs), SpokenIn(msgs), phase[i] # "new",
           \A f \in items : modes[f] = "turn" => f \notin backlog[i]
    PROVE  /\ Posted(msgs, i, items, modes, ok) \in Seq(Message)
           /\ QuietIn(Posted(msgs, i, items, modes, ok))
           /\ SpokenIn(Posted(msgs, i, items, modes, ok))
<1> DEFINE e == [by |-> i, items |-> items, turn |-> \E f \in items : modes[f] = "turn"]
           p == Posted(msgs, i, items, modes, ok)
<1>1. e \in Message
  BY DEF Message
<1>2. e.by = i /\ (e.turn => ~ e.items \subseteq backlog[i])
  OBVIOUS
<1> HIDE DEF e
<1>3. CASE ok /\ items # {}
  <2>1. p = Append(msgs, e)
    BY <1>3 DEF Posted, e
  <2> HIDE DEF p
  <2>2. /\ p \in Seq(Message)
        /\ Len(p) = Len(msgs) + 1
        /\ \A k \in 1..Len(msgs) : p[k] = msgs[k]
        /\ p[Len(msgs) + 1] = e
    BY <1>1, <2>1
  <2>3. \A k \in 1..Len(p) : k \in 1..Len(msgs) \/ k = Len(msgs) + 1
    BY <2>2
  <2>4. QuietIn(p) /\ SpokenIn(p)
    BY <1>2, <2>2, <2>3 DEF QuietIn, SpokenIn
  <2> QED BY <2>2, <2>4 DEF p
<1>4. CASE ~ (ok /\ items # {})
  BY <1>4 DEF Posted
<1> QED BY <1>3, <1>4

\* The items of the batch that may start a turn are none of the backlog.
LEMMA HeldLoud ==
    ASSUME IInv, RelayInv, CalmInv, NEW i \in Instance, phase[i] = "open",
           NEW g \in Held(i), mode[i][g] # "silent"
    PROVE  g \notin backlog[i]
<1>1. ConsistentInstance(i) /\ RelayOK(i) /\ BacklogOK(i)
  BY DEF IInv, HandlingConsistent, RelayInv, CalmInv
<1>2. g \in Result /\ stage[i][g] = "held"
  BY DEF Held
<1>3. g \notin completionSeen[i] /\ Owner[g] = session[i]
  BY <1>1, <1>2 DEF ConsistentInstance, RelayOK
<1> QED BY <1>1, <1>2, <1>3 DEF BacklogOK, Silenced, Hushed, OpenOwner

\* A delivery is quiet.
LEMMA DeliverQuiet ==
    ASSUME IInv, RelayInv, CalmInv, NEW i \in Instance, phase[i] = "open",
           NEW f \in Result, stage[i][f] # "held", NEW modes,
           \A g \in Result \ {f} : modes[g] = mode[i][g],
           modes[f] = "turn" => f \notin backlog[i],
           Deliver(i, f, modes)
    PROVE  QuietIn(messages') /\ SpokenIn(messages')
<1>1. messages \in Seq(Message) /\ QuietIn(messages) /\ SpokenIn(messages) /\ phase[i] # "new"
  BY DEF IInv, TypeOK, CalmInv, Spoken, BacklogQuiet, QuietIn, SpokenIn
<1>2. CASE messages' = messages
  BY <1>1, <1>2
<1>3. ASSUME NEW flushed \in BOOLEAN, NEW ok \in BOOLEAN,
             messages' = Posted(Posted(messages, i, Held(i), modes, flushed),
                                i, {f}, modes, ok)
      PROVE  QuietIn(messages') /\ SpokenIn(messages')
  <2>1. PICK p : p = Posted(messages, i, Held(i), modes, flushed)
    OBVIOUS
  <2>2. Held(i) \in SUBSET Result
    BY DEF Held
  <2>3. ASSUME NEW g \in Held(i), modes[g] = "turn"
        PROVE  g \notin backlog[i]
    <3>1. g \in Result \ {f}
      BY DEF Held
    <3> QED BY <2>3, <3>1, HeldLoud
  <2>4. p \in Seq(Message) /\ QuietIn(p) /\ SpokenIn(p)
    BY <1>1, <2>1, <2>2, <2>3, PostedQuiet
  <2>5. PICK one \in SUBSET Result : one = {f}
    OBVIOUS
  <2>6. messages' = Posted(p, i, one, modes, ok)
    BY <1>3, <2>1, <2>5
  <2>7. \A g \in one : modes[g] = "turn" => g \notin backlog[i]
    BY <2>5
  <2> QED BY <1>1, <2>4, <2>6, <2>7, PostedQuiet
<1>4. SendOutcomes \subseteq BOOLEAN
  BY DEF SendOutcomes
<1> QED BY <1>2, <1>3, <1>4 DEF Deliver

\* A batch is quiet, for no backlog waits in one urgently.
LEMMA EmitQuiet ==
    ASSUME IInv, RelayInv, CalmInv, NEW i \in Instance, BatchFires(i)
    PROVE  QuietIn(messages') /\ SpokenIn(messages')
<1>1. /\ messages \in Seq(Message) /\ QuietIn(messages) /\ SpokenIn(messages)
      /\ phase[i] = "open" /\ phase[i] # "new"
      /\ Held(i) \in SUBSET Result
  BY DEF IInv, TypeOK, CalmInv, Spoken, BacklogQuiet, QuietIn, SpokenIn, BatchFires, Held
<1>2. PICK ok \in BOOLEAN : messages' = Posted(messages, i, Held(i), mode[i], ok)
  <2>1. SendOutcomes \subseteq BOOLEAN
    BY DEF SendOutcomes
  <2> QED BY <2>1 DEF BatchFires
<1>3. \A g \in Held(i) : mode[i][g] = "turn" => g \notin backlog[i]
  BY <1>1, HeldLoud
<1> QED BY <1>1, <1>2, <1>3, PostedQuiet

\* Display-only wins over whatever a file is scheduled with later.
LEMMA ScheduledSilent ==
    ASSUME NEW t \in Timers, NEW i \in Instance, NEW files, NEW m,
           NEW j \in Instance, NEW g \in Result,
           t[j][g] = "silent" \/ (j = i /\ g \in files /\ m = "silent")
    PROVE  Scheduled(t, i, files, m)[j][g] = "silent"
BY DEF Timers, Scheduled, MergedMode

\* Timers of others stay as they are.
LEMMA ScheduledOther ==
    ASSUME NEW t \in Timers, NEW i \in Instance, NEW files, NEW m,
           NEW j \in Instance, NEW g \in Result, j # i \/ g \notin files
    PROVE  Scheduled(t, i, files, m)[j][g] = t[j][g]
BY DEF Timers, Scheduled

\* A poll leaves silent timers silent.
LEMMA PolledSilent ==
    ASSUME timer \in Timers, NEW i \in Instance, NEW w, NEW j \in Instance, NEW g \in Result,
           timer[j][g] = "silent"
    PROVE  PrimedIfPolling(i, w)[j][g] = "silent"
BY ScheduledSilent DEF PrimedIfPolling

\* A step that leaves the handlers alone and makes no silent timer loud.
LEMMA HushedFrame ==
    ASSUME NEW j \in Instance, NEW g \in Result, Hushed(j, g),
           stage'[j][g] = stage[j][g], mode'[j][g] = mode[j][g],
           timer[j][g] = "silent" => timer'[j][g] = "silent"
    PROVE  Hushed(j, g)'
BY DEF Hushed

\* A timer fires.
LEMMA HushedTimerFires ==
    ASSUME IInv, RelayInv, CalmInv, NEW i \in Instance, NEW f \in Result, TimerFires(i, f),
           NEW j \in Instance, NEW g \in Result, Silenced(j, g)
    PROVE  Hushed(j, g)'
<1>1. /\ TypeOK
      /\ g \in disk /\ Hushed(j, g)
      /\ phase[j] = "open" /\ session[j] = Owner[g] /\ g \notin completionSeen[j]
  BY DEF IInv, CalmInv, BacklogOK, Silenced, OpenOwner
<1>2. /\ timer \in Timers
      /\ TimerTaken(i, f) \in Timers
      /\ j # i \/ g # f => TimerTaken(i, f)[j][g] = timer[j][g]
  BY <1>1 DEF TypeOK, Timers, TimerTaken
<1>3. CASE FiresInVain(i, f)
  <2>1. UNCHANGED <<stage, mode>> /\ timer' = TimerTaken(i, f)
    BY <1>3 DEF FiresInVain
  <2>2. CASE j = i /\ g = f
    <3>1. stage[j][g] # "idle"
      BY <1>1, <1>3, <2>2 DEF FiresInVain, Handles
    <3> QED BY <1>1, <2>1, <3>1 DEF Hushed
  <2>3. CASE j # i \/ g # f
    BY <1>1, <1>2, <2>1, <2>3, HushedFrame
  <2> QED BY <2>2, <2>3
<1>4. CASE FiresForSeen(i, f)
  <2>1. j # i \/ g # f
    BY <1>1, <1>4 DEF FiresForSeen
  <2>2. timer'[j][g] = timer[j][g]
    <3>1. CASE timer' = TimerTaken(i, f)
      BY <1>2, <2>1, <3>1
    <3>2. CASE timer' = Scheduled(TimerTaken(i, f), i, {f}, timer[i][f])
      <4>1. j # i \/ g \notin {f}
        BY <2>1
      <4> QED BY <1>2, <2>1, <3>2, <4>1, ScheduledOther
    <3> QED BY <1>4, <3>1, <3>2 DEF FiresForSeen, Unlink
  <2> QED BY <1>1, <1>4, <2>2, HushedFrame DEF FiresForSeen
<1>5. CASE FiresToRelay(i, f)
  <2>1. j # i \/ g # f
    BY <1>1, <1>5 DEF FiresToRelay, StartsRelay, Handles, Hushed
  <2>2. stage'[j][g] = stage[j][g] /\ mode'[j][g] = mode[j][g] /\ timer'[j][g] = timer[j][g]
    BY <1>1, <1>2, <1>5, <2>1 DEF FiresToRelay, TypeOK
  <2> QED BY <1>1, <2>2, HushedFrame
<1>6. CASE FiresToNotify(i, f)
  <2>1. /\ stage[i][f] = "idle"
        /\ mode' = [mode EXCEPT ![i][f] = timer[i][f]]
        /\ timer' = TimerTaken(i, f)
    BY <1>6 DEF FiresToNotify, Handles
  <2>2. PICK modes : Deliver(i, f, modes)
    BY <1>6 DEF FiresToNotify
  <2>3. NotifierStep(i, {f}) /\ NotifierMoves(i, {f})
    BY <1>1, <2>1, <2>2, DeliverStep, DeliverMoves
  <2>4. CASE j = i /\ g = f
    <3>1. timer[j][g] = "silent"
      BY <1>1, <2>1, <2>4 DEF Hushed
    <3>2. mode'[j][g] = "silent"
      BY <1>1, <2>1, <2>4, <3>1 DEF TypeOK
    <3>3. stage'[j][g] # "idle"
      BY <2>3, <2>4 DEF NotifierMoves
    <3> QED BY <3>2, <3>3 DEF Hushed
  <2>5. CASE j # i \/ g # f
    <3>1. mode'[j][g] = mode[j][g] /\ timer'[j][g] = timer[j][g]
      BY <1>1, <1>2, <2>1, <2>5 DEF TypeOK
    <3>2. \/ stage'[j][g] = stage[j][g]
          \/ stage[j][g] = "held" /\ stage'[j][g] \in {"accepted", "refused"}
      BY <2>3, <2>5 DEF NotifierStep, NotifierMoves
    <3> QED BY <1>1, <3>1, <3>2 DEF Hushed
  <2> QED BY <2>4, <2>5
<1> QED BY <1>3, <1>4, <1>5, <1>6 DEF TimerFires

\* The intercom target answers, or times out.
LEMMA HushedRelayAnswered ==
    ASSUME IInv, RelayInv, CalmInv, NEW i \in Instance, NEW f \in Result,
           RelayAnswered(i, f), NEW j \in Instance, NEW g \in Result, Silenced(j, g)
    PROVE  Hushed(j, g)'
<1>1. /\ TypeOK
      /\ Hushed(j, g)
      /\ phase[j] = "open"
  BY DEF IInv, CalmInv, BacklogOK, Silenced, OpenOwner
<1>2. timer' = timer /\ stage[i][f] = "relaying"
  BY DEF RelayAnswered
<1>3. PICK ack \in BOOLEAN :
         \/ ~ Owns(i, f) /\ HandlerEnds(i, f)
         \/ Owns(i, f) /\ DeliverRelayed(i, f, ack) /\ mode' = mode
  BY DEF RelayAnswered
<1>4. CASE ~ Owns(i, f) /\ HandlerEnds(i, f)
  <2>1. j # i
    BY <1>1, <1>2, <1>4, OwnsOnTime DEF RelayInv
  <2>2. stage'[j][g] = stage[j][g] /\ mode'[j][g] = mode[j][g]
    BY <1>1, <1>4, <2>1 DEF HandlerEnds, TypeOK
  <2> QED BY <1>1, <1>2, <2>2, HushedFrame
<1>5. CASE Owns(i, f) /\ DeliverRelayed(i, f, ack) /\ mode' = mode /\ ack
  <2>1. stage' = [stage EXCEPT ![i][f] = "accepted"]
    BY <1>5 DEF DeliverRelayed
  <2>2. stage'[j][g] = stage[j][g] \/ stage'[j][g] = "accepted"
    BY <1>1, <2>1 DEF TypeOK
  <2> QED BY <1>1, <1>2, <1>5, <2>2 DEF Hushed
<1>6. CASE Owns(i, f) /\ DeliverRelayed(i, f, ack) /\ mode' = mode /\ ~ ack
  <2>1. PICK modes : Deliver(i, f, modes)
    BY <1>6 DEF DeliverRelayed
  <2>2. NotifierStep(i, {f}) /\ NotifierMoves(i, {f})
    BY <1>1, <1>2, <2>1, DeliverStep, DeliverMoves
  <2>3. \/ stage'[j][g] = stage[j][g]
        \/ /\ stage[j][g] \in {"held", "relaying"}
           /\ stage'[j][g] \in {"accepted", "held", "refused"}
    BY <1>2, <2>2 DEF NotifierStep, NotifierMoves
  <2> QED BY <1>1, <1>2, <1>6, <2>3 DEF Hushed
<1> QED BY <1>3, <1>4, <1>5, <1>6

\* A handler goes on after its await.
LEMMA HushedConcludes ==
    ASSUME IInv, RelayInv, CalmInv, NEW i \in Instance, NEW f \in Result, Concludes(i, f),
           NEW j \in Instance, NEW g \in Result, Silenced(j, g), g \notin completionSeen'[j]
    PROVE  Hushed(j, g)'
<1>1. /\ TypeOK
      /\ Hushed(j, g)
      /\ phase[j] = "open"
      /\ timer \in Timers
  BY DEF IInv, CalmInv, BacklogOK, Silenced, OpenOwner, TypeOK, Timers
<1>2. /\ stage[i][f] \in {"accepted", "refused"}
      /\ stage' = [stage EXCEPT ![i][f] = "idle"]
      /\ mode' = [mode EXCEPT ![i][f] = "none"]
      /\ \/ timer' = timer
         \/ Owns(i, f) /\ timer' = Scheduled(timer, i, {f}, mode[i][f])
  BY DEF Concludes, HandlerEnds, Unlink
<1>3. CASE j = i /\ g = f
  <2>1. Owns(i, f)
    BY <1>1, <1>2, <1>3, OwnsOnTime DEF RelayInv
  <2>2. stage[i][f] = "refused" /\ timer' = Scheduled(timer, i, {f}, mode[i][f])
    BY <1>1, <1>3, <2>1 DEF Concludes, TypeOK
  <2>3. mode[i][f] = "silent"
    BY <1>1, <1>3, <2>2 DEF Hushed
  <2>4. timer'[j][g] = "silent"
    <3>1. g \in {f}
      BY <1>3
    <3> QED BY <1>1, <1>3, <2>2, <2>3, <3>1, ScheduledSilent
  <2>5. stage'[j][g] = "idle"
    BY <1>1, <1>2, <1>3 DEF TypeOK
  <2> QED BY <2>4, <2>5 DEF Hushed
<1>4. CASE j # i \/ g # f
  <2>1. stage'[j][g] = stage[j][g] /\ mode'[j][g] = mode[j][g]
    BY <1>1, <1>2, <1>4 DEF TypeOK
  <2>2. timer'[j][g] = timer[j][g]
    <3>1. j # i \/ g \notin {f}
      BY <1>4
    <3> QED BY <1>1, <1>2, <3>1, ScheduledOther
  <2> QED BY <1>1, <2>1, <2>2, HushedFrame
<1> QED BY <1>3, <1>4

\* Timers are set, by a write, the watcher or a poll.
LEMMA HushedTimers ==
    ASSUME IInv, CalmInv, NEW j \in Instance, NEW g \in Result, Silenced(j, g),
           \/ \E f \in Result : Write(f)
           \/ \E i \in Instance : WatcherFails(i) \/ WatcherRestarts(i) \/ Polls(i)
    PROVE  Hushed(j, g)'
<1>1. Hushed(j, g) /\ timer \in Timers
  BY DEF IInv, CalmInv, BacklogOK, TypeOK, Timers
<1>2. UNCHANGED <<stage, mode>>
  BY DEF Write, WatcherFails, WatcherRestarts, Polls
<1>3. ASSUME timer[j][g] = "silent"
      PROVE  timer'[j][g] = "silent"
  <2>1. ASSUME NEW f \in Result, Write(f)
        PROVE  timer'[j][g] = "silent"
    <3>1. timer'[j] = timer[j] \/ timer'[j] = Scheduled(timer, j, {f}, "turn")[j]
      BY <2>1 DEF Write
    <3> QED BY <1>1, <1>3, <3>1, ScheduledSilent
  <2>2. ASSUME NEW i \in Instance, WatcherFails(i) \/ WatcherRestarts(i)
        PROVE  timer'[j][g] = "silent"
    <3>1. PICK w : timer' = PrimedIfPolling(i, w)
      BY <2>2 DEF WatcherFails, WatcherRestarts
    <3> QED BY <1>1, <1>3, <3>1, PolledSilent
  <2>3. ASSUME NEW i \in Instance, Polls(i)
        PROVE  timer'[j][g] = "silent"
    BY <1>1, <1>3, <2>3, ScheduledSilent DEF Polls
  <2> QED BY <2>1, <2>2, <2>3
<1> QED BY <1>1, <1>2, <1>3, HushedFrame

\* A batch is sent.
LEMMA HushedBatch ==
    ASSUME IInv, CalmInv, NEW i \in Instance, BatchFires(i),
           NEW j \in Instance, NEW g \in Result, Silenced(j, g)
    PROVE  Hushed(j, g)'
<1>1. TypeOK /\ Hushed(j, g)
  BY DEF IInv, CalmInv, BacklogOK
<1>2. NotifierStep(i, {}) /\ NotifierMoves(i, {}) /\ UNCHANGED <<mode, timer>>
  <2>1. SendOutcomes \subseteq BOOLEAN
    BY DEF SendOutcomes
  <2> QED BY <1>1, <2>1, EmitStep, EmitMoves DEF BatchFires
<1>3. \/ stage'[j][g] = stage[j][g]
      \/ stage[j][g] = "held" /\ stage'[j][g] \in {"accepted", "refused"}
  BY <1>2 DEF NotifierStep, NotifierMoves
<1> QED BY <1>1, <1>2, <1>3 DEF Hushed

\* An instance ends.
LEMMA HushedInstanceEnds ==
    ASSUME IInv, CalmInv, NEW i \in Instance, SessionShutdown(i) \/ Crash(i),
           NEW j \in Instance, NEW g \in Result, Silenced(j, g), phase'[j] = "open"
    PROVE  Hushed(j, g)'
<1>1. TypeOK /\ Hushed(j, g)
  BY DEF IInv, CalmInv, BacklogOK
<1>2. j # i
  BY <1>1 DEF SessionShutdown, Crash, TypeOK
<1>3. stage'[j] = stage[j] /\ mode'[j] = mode[j] /\ timer'[j] = timer[j]
  BY <1>1, <1>2 DEF SessionShutdown, Crash, TypeOK, NoTimers
<1> QED BY <1>1, <1>3, HushedFrame

\* Steps at which no session starts.
LEMMA LifeStep ==
    ASSUME IInv, Next,
           \A i \in Instance, s \in Session, recovering \in BOOLEAN :
              ~ SessionStart(i, s, recovering)
    PROVE  /\ UNCHANGED <<session, backlog>>
           /\ \A j \in Instance : /\ phase'[j] = "open" => phase[j] = "open"
                                  /\ phase'[j] = "new" => phase[j] = "new"
                                  /\ completionSeen[j] \subseteq completionSeen'[j]
<1>1. TypeOK
  BY DEF IInv
<1>2. UNCHANGED <<session, backlog>>
  BY DEF Next, Write, TimerFires, FiresInVain, FiresForSeen, FiresToRelay, FiresToNotify,
         RelayAnswered, Concludes, BatchFires, WatcherFails, WatcherRestarts, Polls,
         SessionShutdown, Crash, lifeVars
<1>3. phase' = phase \/ \E i \in Instance : phase' = [phase EXCEPT ![i] = "closed"]
  BY DEF Next, Write, TimerFires, FiresInVain, FiresForSeen, FiresToRelay, FiresToNotify,
         RelayAnswered, Concludes, BatchFires, WatcherFails, WatcherRestarts, Polls,
         SessionShutdown, Crash, lifeVars
<1>4. \A j \in Instance : /\ phase'[j] = "open" => phase[j] = "open"
                          /\ phase'[j] = "new" => phase[j] = "new"
  BY <1>1, <1>3 DEF TypeOK
<1>5. \/ completionSeen' = completionSeen
      \/ \E i \in Instance, f \in Result :
            completionSeen' = [completionSeen EXCEPT ![i] = @ \cup {f}]
  BY DEF Next, Write, TimerFires, FiresInVain, FiresForSeen, FiresToRelay, FiresToNotify,
         RelayAnswered, Concludes, BatchFires, WatcherFails, WatcherRestarts, Polls,
         SessionShutdown, Crash
<1>6. \A j \in Instance : completionSeen[j] \subseteq completionSeen'[j]
  <2>1. DOMAIN completionSeen = Instance
    BY <1>1 DEF TypeOK
  <2> QED
    BY <1>5, <2>1
<1> QED BY <1>2, <1>4, <1>6

\* No step but a start makes the backlog urgent.
LEMMA QuietMessages ==
    ASSUME IInv, RelayInv, CalmInv, Next,
           \A i \in Instance, s \in Session, recovering \in BOOLEAN :
              ~ SessionStart(i, s, recovering)
    PROVE  QuietIn(messages') /\ SpokenIn(messages')
<1>1. TypeOK /\ (\A i \in Instance : ConsistentInstance(i) /\ BacklogOK(i))
  BY DEF IInv, HandlingConsistent, CalmInv
<1>2. ASSUME messages' = messages
      PROVE  QuietIn(messages') /\ SpokenIn(messages')
  BY <1>2 DEF CalmInv, Spoken, BacklogQuiet, QuietIn, SpokenIn
<1>3. ASSUME NEW i \in Instance, NEW f \in Result, FiresToNotify(i, f)
      PROVE  QuietIn(messages') /\ SpokenIn(messages')
  <2>1. /\ phase[i] = "open" /\ stage[i][f] = "idle" /\ Owner[f] = session[i]
        /\ f \notin completionSeen[i]
        /\ mode' = [mode EXCEPT ![i][f] = timer[i][f]]
        /\ Deliver(i, f, mode'[i])
    BY <1>3 DEF FiresToNotify, Handles
  <2>2. PICK modes : modes = mode'[i]
    OBVIOUS
  <2>3. modes[f] = timer[i][f] /\ \A g \in Result \ {f} : modes[g] = mode[i][g]
    BY <1>1, <2>1, <2>2 DEF TypeOK
  <2>4. modes[f] = "turn" => f \notin backlog[i]
    BY <1>1, <2>1, <2>3 DEF BacklogOK, Silenced, OpenOwner, Hushed
  <2>5. stage[i][f] # "held" /\ Deliver(i, f, modes)
    BY <2>1, <2>2
  <2> QED BY <2>1, <2>3, <2>4, <2>5, DeliverQuiet
<1>4. ASSUME NEW i \in Instance, NEW f \in Result, RelayAnswered(i, f)
      PROVE  QuietIn(messages') /\ SpokenIn(messages')
  <2>1. CASE messages' = messages
    BY <1>2, <2>1
  <2>2. CASE Owns(i, f) /\ Deliver(i, f, mode[i])
    <3>1. /\ phase[i] = "open" /\ stage[i][f] = "relaying" /\ Owner[f] = session[i]
      BY <1>4, <2>2 DEF Owns, RelayAnswered
    <3>2. f \notin completionSeen[i]
      BY <1>1, <3>1 DEF RelayInv, RelayOK, ConsistentInstance
    <3>3. mode[i][f] = "turn" => f \notin backlog[i]
      BY <1>1, <3>1, <3>2 DEF BacklogOK, Silenced, OpenOwner, Hushed
    <3>4. PICK modes : modes = mode[i]
      OBVIOUS
    <3>5. /\ stage[i][f] # "held" /\ Deliver(i, f, modes)
          /\ modes[f] = "turn" => f \notin backlog[i]
          /\ \A g \in Result \ {f} : modes[g] = mode[i][g]
      BY <2>2, <3>1, <3>3, <3>4
    <3> QED BY <3>1, <3>5, DeliverQuiet
  <2> QED BY <1>4, <2>1, <2>2 DEF RelayAnswered, DeliverRelayed
<1>5. ASSUME NEW i \in Instance, BatchFires(i)
      PROVE  QuietIn(messages') /\ SpokenIn(messages')
  BY <1>5, EmitQuiet
<1>6. ASSUME NEW i \in Instance,
             \/ \E f \in Result : \/ FiresInVain(i, f) \/ FiresForSeen(i, f)
                                 \/ FiresToRelay(i, f) \/ Concludes(i, f)
             \/ WatcherFails(i) \/ WatcherRestarts(i) \/ Polls(i)
             \/ SessionShutdown(i) \/ Crash(i)
      PROVE  messages' = messages
  BY <1>6 DEF FiresInVain, FiresForSeen, FiresToRelay, Concludes, WatcherFails,
              WatcherRestarts, Polls, SessionShutdown, Crash
<1>7. ASSUME NEW f \in Result, Write(f)
      PROVE  messages' = messages
  BY <1>7 DEF Write
<1> QED BY <1>2, <1>3, <1>4, <1>5, <1>6, <1>7 DEF Next, TimerFires

\* Who sends a message is an instance.
LEMMA SpeakerIsInstance ==
    ASSUME NEW msgs \in Seq(Message), NEW k \in 1..Len(msgs)
    PROVE  msgs[k].by \in Instance
<1>1. msgs[k] \in Message
  OBVIOUS
<1> QED BY <1>1 DEF Message

\* The steps after the start of an instance keep CalmInv.
LEMMA CalmLaterStep ==
    ASSUME IInv, RelayInv, CalmInv, Next,
           \A i \in Instance, s \in Session, recovering \in BOOLEAN :
              ~ SessionStart(i, s, recovering)
    PROVE  CalmInv'
<1>1. /\ UNCHANGED <<session, backlog>>
      /\ \A j \in Instance : /\ phase'[j] = "open" => phase[j] = "open"
                             /\ phase'[j] = "new" => phase[j] = "new"
                             /\ completionSeen[j] \subseteq completionSeen'[j]
  BY LifeStep
<1>2. SessionsExclusive'
  BY <1>1 DEF CalmInv, SessionsExclusive
<1>3. ASSUME NEW j \in Instance
      PROVE  BacklogOK(j)'
  <2> SUFFICES ASSUME NEW g \in Result, Silenced(j, g)'
               PROVE  (g \in disk /\ Hushed(j, g))'
    BY DEF BacklogOK
  <2>1. Silenced(j, g) /\ phase'[j] = "open" /\ g \notin completionSeen'[j]
    BY <1>1 DEF Silenced, OpenOwner
  <2>2. g \in disk
    BY <2>1 DEF CalmInv, BacklogOK
  <2>3. g \in disk'
    <3>1. SUFFICES ASSUME g \notin disk' PROVE FALSE
      OBVIOUS
    <3>2. PICK i \in Instance : DeletedBy(i, g)
      BY <2>2, <3>1, OnlyTellersDelete
    <3>3. i = j
      BY <2>1, <3>2 DEF DeletedBy, Silenced, OpenOwner, CalmInv, SessionsExclusive
    <3> QED BY <2>1, <3>2, <3>3 DEF DeletedBy
  <2>4. Hushed(j, g)'
    BY <2>1, HushedTimerFires, HushedRelayAnswered, HushedConcludes, HushedTimers,
       HushedBatch, HushedInstanceEnds DEF Next
  <2> QED BY <2>3, <2>4
<1>4. QuietIn(messages') /\ SpokenIn(messages')
  BY QuietMessages
<1>5. BacklogQuiet'
  BY <1>1, <1>4 DEF QuietIn, BacklogQuiet
<1>6. Spoken'
  <2>1. \A k \in 1..Len(messages') : messages'[k].by \in Instance
    <3>1. IInv'
      BY NextInv
    <3>2. messages' \in Seq(Message)
      BY <3>1 DEF IInv, TypeOK
    <3> QED BY <3>2, SpeakerIsInstance
  <2> QED BY <1>1, <1>4, <2>1 DEF SpokenIn, Spoken
<1> QED BY <1>2, <1>3, <1>5, <1>6 DEF CalmInv

\* The start of an instance keeps CalmInv.
LEMMA CalmSessionStart ==
    ASSUME IInv, CalmInv, NEW i \in Instance, NEW s \in Session, NEW recovering \in BOOLEAN,
           SessionStart(i, s, recovering)
    PROVE  CalmInv'
<1>1. TypeOK /\ timer \in Timers
  BY DEF IInv, TypeOK, Timers
<1>2. /\ phase[i] = "new"
      /\ \A j \in Instance : phase[j] = "open" => session[j] # s
      /\ phase' = [phase EXCEPT ![i] = "open"]
      /\ session' = [session EXCEPT ![i] = s]
      /\ backlog' = [backlog EXCEPT ![i] = IF recovering THEN disk ELSE {}]
      /\ UNCHANGED <<disk, stage, mode, completionSeen, messages>>
  BY DEF SessionStart, diskVars
<1>3. /\ phase'[i] = "open" /\ session'[i] = s
      /\ backlog'[i] = IF recovering THEN disk ELSE {}
      /\ \A j \in Instance \ {i} : /\ phase'[j] = phase[j]
                                   /\ session'[j] = session[j]
                                   /\ backlog'[j] = backlog[j]
  BY <1>1, <1>2 DEF TypeOK
<1>4. SessionsExclusive'
  BY <1>2, <1>3 DEF CalmInv, SessionsExclusive
<1>5. PICK w : timer' = Scheduled(PrimedIfPolling(i, w), i, disk,
                                  IF recovering THEN "silent" ELSE "turn")
  BY DEF SessionStart, Primed
<1>6. PICK primed \in Timers :
         /\ primed = PrimedIfPolling(i, w)
         /\ \A j \in Instance : j # i => primed[j] = timer[j]
  BY <1>1, PrimedIfPollingType
<1>7. ASSUME NEW j \in Instance
      PROVE  BacklogOK(j)'
  <2>1. CASE j = i
    <3>1. \A g \in Result : stage'[i][g] = "idle"
      BY <1>2, NewIsBlank
    <3>2. ASSUME NEW g \in Result, g \in backlog'[i]
          PROVE  g \in disk /\ timer'[i][g] = "silent"
      <4>1. recovering /\ g \in disk
        BY <1>3, <3>2
      <4>2. timer' = Scheduled(primed, i, disk, "silent")
        BY <1>5, <1>6, <4>1
      <4> QED BY <4>1, <4>2, ScheduledSilent
    <3> QED BY <1>2, <2>1, <3>1, <3>2 DEF BacklogOK, Silenced, Hushed
  <2>2. CASE j # i
    <3>1. timer'[j] = timer[j]
      BY <1>5, <1>6, <2>2, ScheduledType
    <3>2. BacklogOK(j)
      BY DEF CalmInv
    <3> QED BY <1>2, <1>3, <2>2, <3>1, <3>2 DEF BacklogOK, Silenced, OpenOwner, Hushed
  <2> QED BY <2>1, <2>2
<1>8. \A k \in 1..Len(messages) : messages[k].by \in Instance \ {i}
  <2>1. messages \in Seq(Message)
    BY <1>1 DEF TypeOK
  <2>2. \A k \in 1..Len(messages) : messages[k].by \in Instance
    BY <2>1, SpeakerIsInstance
  <2> QED BY <1>2, <2>2 DEF CalmInv, Spoken
<1>9. Spoken' /\ BacklogQuiet'
  BY <1>2, <1>3, <1>8 DEF CalmInv, Spoken, BacklogQuiet
<1> QED BY <1>4, <1>7, <1>9 DEF CalmInv

\* CalmInv is inductive.
LEMMA CalmStep ==
    ASSUME IInv, RelayInv, CalmInv, [Next]_vars
    PROVE  CalmInv'
<1>1. CASE UNCHANGED vars
  BY <1>1 DEF vars, CalmInv, SessionsExclusive, BacklogOK, Silenced, OpenOwner, Hushed,
              Spoken, BacklogQuiet
<1>2. CASE \E i \in Instance, s \in Session, recovering \in BOOLEAN :
              SessionStart(i, s, recovering)
  BY <1>2, CalmSessionStart
<1>3. CASE Next /\ \A i \in Instance, s \in Session, recovering \in BOOLEAN :
                      ~ SessionStart(i, s, recovering)
  BY <1>3, CalmLaterStep
<1> QED BY <1>1, <1>2, <1>3

(***************************************************************************)
(* core.ts:460-461: what lay on disk when a session was recovered starts   *)
(* no turn, for any number of instances, files and later writes, polls and *)
(* retries: wherever the watcher never has to be restarted.                *)
(***************************************************************************)
THEOREM BacklogQuietHolds ==
    ASSUME "watch" \notin Faults
    PROVE  Spec => []BacklogQuiet
<1>1. Init => RelayInv /\ CalmInv
  BY DEF Init, RelayInv, NeverStale, RelayOK, CalmInv, SessionsExclusive, BacklogOK, Silenced,
         OpenOwner, Spoken, BacklogQuiet
<1>2. IInv /\ RelayInv /\ CalmInv /\ [Next]_vars => RelayInv' /\ CalmInv'
  BY RelayStep, CalmStep
<1>3. CalmInv => BacklogQuiet
  BY DEF CalmInv
<1> QED BY <1>1, <1>2, <1>3, Invariant, PTL DEF Spec
===============================================================================
