------------------------- MODULE SessionRevivalProofs -------------------------
(***************************************************************************)
(* The lease of a session: for every set of contenders, every bound on     *)
(* their tries and every way of dying, at most one revival has a child     *)
(* that lives as long as no contender judges a lease by a record that is   *)
(* out of date, and a revival reported as refused never has one.           *)
(***************************************************************************)
EXTENDS SessionRevival, FiniteSetTheorems, TLAPS

-----------------------------------------------------------------------------
(***************************************************************************)
(* The invariant. A runner that has got past acquireSessionLease holds the *)
(* lease until it lets go of it, and the lease says how far its child is.  *)
(***************************************************************************)
Contending == {"create", "read", "probe", "reclaim"}
Waiting == {"ack", "proceed"}
Working == {"idle", "spawning", "register", "writing"}
Places == Contending \cup Waiting \cup Working \cup {"release", "remove", "over", "dead"}

Leases == {Free, Empty} \cup [is : {"owned"}, owner : Revival, writer : {"none", "spawning", "running"}, child : Nat]

Runners == [pc : Places, tries : Nat, seen : Leases]

RevivalTypeOK ==
    /\ lease \in Leases
    /\ tombstones \subseteq Revival
    /\ runner \in [Revival -> Runners]
    /\ \A p \in Revival : runner[p].pc \in {"probe", "reclaim"} => runner[p].seen.is = "owned"
    /\ writer \in [Revival -> {"none", "up", "ended"}]
    /\ spawned \in [Revival -> Nat]
    /\ startup \in [Revival -> {"none", "ready", "acknowledged", "error"}]
    /\ replies \in [Revival -> SUBSET {"ack", "proceed"}]
    /\ launcher \in [Revival -> {"ready", "acknowledged", "started", "refused", "gone"}]
    /\ misread \in BOOLEAN

\* What the lease of p says of its child.
LeaseSays(p, states) == OwnedBy(p) /\ lease.writer \in states

\* A runner holds the lease from its acknowledgement to its release, and only then, or dead.
HolderKept ==
    \A p \in Revival :
        /\ runner[p].pc \in Waiting \cup {"idle", "release"} => LeaseSays(p, {"none"})
        /\ runner[p].pc \in {"spawning", "register"} => LeaseSays(p, {"spawning"})
        /\ runner[p].pc = "writing" => LeaseSays(p, {"spawning", "running"})
        /\ OwnedBy(p) => runner[p].pc \notin Contending \cup {"remove", "over"}

\* A child that lives is recorded, or about to be, and the record names the last one.
WriterRecorded ==
    \A p \in Revival :
        /\ writer[p] = "up" => LeaseSays(p, {"spawning", "running"})
        /\ writer[p] # "none" => runner[p].pc \in {"register", "writing", "dead"}
        /\ runner[p].pc \in {"register", "writing"} => writer[p] # "none"
        /\ LeaseSays(p, {"running"}) => lease.child = spawned[p]

\* What was moved aside belonged to a runner that has gone, and stays there.
TombstonesOfDead ==
    \A p \in tombstones : runner[p].pc = "dead" /\ ~ OwnedBy(p)

\* A lease that was found stale is there still, and still stale, or was moved aside.
SeenIsStale ==
    \A p \in Revival : runner[p].pc = "reclaim" =>
        \E old \in Revival :
            /\ runner[p].seen.owner = old
            /\ runner[old].pc = "dead"
            /\ writer[old] # "up"
            /\ OwnedBy(old) \/ old \in tombstones

\* Only the launcher that reports a start lets the runner work.
StartReported ==
    \A p \in Revival :
        /\ "proceed" \in replies[p] => launcher[p] = "started"
        /\ runner[p].pc \in Working => launcher[p] = "started"
        /\ writer[p] # "none" => launcher[p] \in {"started", "gone"}

StartInv == RevivalTypeOK /\ StartReported

LeaseInv == HolderKept /\ WriterRecorded /\ TombstonesOfDead /\ SeenIsStale

\* What the startup files promise holds whatever becomes of the lease.
RevivalInv == StartInv /\ (~ misread => LeaseInv)

-----------------------------------------------------------------------------
(***************************************************************************)
(* The steps in terms of what they write.                                  *)
(***************************************************************************)
\* What a lease is, and what is a lease.
LEMMA LeaseFacts ==
    /\ Free \in Leases /\ Empty \in Leases
    /\ Free.is = "free" /\ Empty.is = "empty" /\ Free # Empty
    /\ \A p, state, child : /\ Owned(p, state, child).is = "owned"
                            /\ Owned(p, state, child).owner = p
                            /\ Owned(p, state, child).writer = state
                            /\ Owned(p, state, child).child = child
    /\ \A p \in Revival, state \in {"none", "spawning", "running"}, child \in Nat :
          Owned(p, state, child) \in Leases
    /\ NoChild \in Nat
    /\ \A l \in Leases :
          \/ l = Free
          \/ l = Empty
          \/ l.is = "owned" /\ l.owner \in Revival /\ l.writer \in {"none", "spawning", "running"}
  BY DEF Free, Empty, Owned, NoChild, Leases

\* A runner that goes on forgets nothing, and no other runner moves.
LEMMA RunnerGoes ==
    ASSUME RevivalTypeOK, NEW p \in Revival, NEW pc \in Places, Goes(p, pc)
    PROVE  /\ runner' \in [Revival -> Runners]
           /\ runner'[p].pc = pc
           /\ runner'[p].seen = runner[p].seen
           /\ \A q \in Revival : q # p => runner'[q] = runner[q]
<1> DEFINE next == [runner[p] EXCEPT !.pc = pc]
<1>1. runner[p] \in Runners
  BY DEF RevivalTypeOK
<1>2. next \in Runners /\ next.pc = pc /\ next.seen = runner[p].seen
  BY <1>1 DEF Runners
<1>3. runner' = [runner EXCEPT ![p] = next]
  BY DEF Goes
<1> HIDE DEF next
<1> QED
  BY <1>2, <1>3 DEF RevivalTypeOK

\* The invariant holds where a behaviour begins, with a stale lease or without one.
LEMMA RevivalInvInit == RevivalInit => RevivalInv
<1> USE DEF StartInv, LeaseInv
<1> SUFFICES ASSUME RevivalInit PROVE RevivalInv
  OBVIOUS
<1>1. /\ Fresh \in Runners /\ Fresh.pc = "create"
      /\ Crashed \in Runners /\ Crashed.pc = "dead"
  BY LeaseFacts DEF Fresh, Crashed, Runners, Places, Contending, Waiting, Working
<1>2. CASE /\ lease = Free
           /\ runner = [p \in Revival |-> Fresh]
           /\ writer = [p \in Revival |-> "none"]
           /\ spawned = [p \in Revival |-> 0]
           /\ launcher = [p \in Revival |-> "ready"]
  <2>1. RevivalTypeOK
    <3>1. runner \in [Revival -> Runners] /\ \A p \in Revival : runner[p].pc = "create"
      BY <1>1, <1>2
    <3>2. \A p \in Revival : runner[p].pc \notin {"probe", "reclaim"}
      BY <3>1
    <3>3. lease \in Leases
      BY <1>2, LeaseFacts
    <3>4. writer \in [Revival -> {"none", "up", "ended"}] /\ spawned \in [Revival -> Nat]
      BY <1>2
    <3>5. launcher \in [Revival -> {"ready", "acknowledged", "started", "refused", "gone"}]
      BY <1>2
    <3> QED
      BY <3>1, <3>2, <3>3, <3>4, <3>5 DEF RevivalInit, RevivalTypeOK
  <2>2. HolderKept /\ WriterRecorded /\ TombstonesOfDead
    <3>1. \A p \in Revival : ~ OwnedBy(p) /\ runner[p].pc = "create" /\ writer[p] = "none"
      BY <1>1, <1>2, LeaseFacts DEF OwnedBy
    <3> QED
      BY <3>1 DEF RevivalInit, HolderKept, WriterRecorded, TombstonesOfDead, LeaseSays, Waiting
  <2>3. SeenIsStale /\ StartReported
    BY <1>1, <1>2 DEF RevivalInit, SeenIsStale, StartReported, Working
  <2> QED
    BY <2>1, <2>2, <2>3 DEF RevivalInv
<1>3. ASSUME NEW old \in Revival, NEW w \in {"none", "up"},
             lease = IF w = "up" THEN Owned(old, "running", 1) ELSE Owned(old, "none", NoChild),
             runner = [p \in Revival |-> IF p = old THEN Crashed ELSE Fresh],
             writer = [p \in Revival |-> IF p = old THEN w ELSE "none"],
             spawned = [p \in Revival |-> IF p = old /\ w = "up" THEN 1 ELSE 0],
             launcher = [p \in Revival |-> IF p = old THEN "gone" ELSE "ready"]
      PROVE  RevivalInv
  <2>1. RevivalTypeOK
    BY <1>1, <1>3, LeaseFacts DEF RevivalInit, RevivalTypeOK
  <2>2. OwnedBy(old) /\ \A p \in Revival : OwnedBy(p) => p = old
    BY <1>3, LeaseFacts DEF OwnedBy
  <2>3. IF w = "up" THEN lease.writer = "running" /\ lease.child = spawned[old]
                    ELSE lease.writer = "none"
    BY <1>3, LeaseFacts
  <2>4. HolderKept /\ WriterRecorded /\ TombstonesOfDead
    BY <1>1, <1>3, <2>2, <2>3
       DEF RevivalInit, HolderKept, WriterRecorded, TombstonesOfDead, LeaseSays, Contending, Waiting
  <2>5. SeenIsStale /\ StartReported
    BY <1>1, <1>3 DEF RevivalInit, SeenIsStale, StartReported, Working
  <2> QED
    BY <2>1, <2>4, <2>5 DEF RevivalInv
<1> QED
  BY <1>2, <1>3 DEF RevivalInit

\* What contenders have seen of dead runners stays true if no contender looks again, and
\* the leases and the tombstones of the dead stay.
LEMMA SeenKept ==
    ASSUME SeenIsStale,
           \A q \in Revival : runner'[q].pc = "reclaim" =>
                runner[q].pc = "reclaim" /\ runner'[q].seen = runner[q].seen,
           \A old \in Revival :
                /\ runner[old].pc = "dead"
                /\ writer[old] # "up"
                /\ OwnedBy(old) \/ old \in tombstones
                => /\ runner'[old].pc = "dead"
                   /\ writer'[old] # "up"
                   /\ OwnedBy(old)' \/ old \in tombstones'
    PROVE  SeenIsStale'
<1> SUFFICES ASSUME NEW q \in Revival, runner'[q].pc = "reclaim"
             PROVE  \E old \in Revival :
                        /\ runner'[q].seen.owner = old
                        /\ runner'[old].pc = "dead"
                        /\ writer'[old] # "up"
                        /\ OwnedBy(old)' \/ old \in tombstones'
  BY DEF SeenIsStale
<1>1. runner[q].pc = "reclaim" /\ runner'[q].seen = runner[q].seen
  OBVIOUS
<1>2. PICK old \in Revival :
        /\ runner[q].seen.owner = old /\ runner[old].pc = "dead" /\ writer[old] # "up"
        /\ OwnedBy(old) \/ old \in tombstones
  BY <1>1 DEF SeenIsStale
<1> QED
  BY <1>1, <1>2

-----------------------------------------------------------------------------
(***************************************************************************)
(* Every step of a runner, of its launcher and of its child.               *)
(***************************************************************************)
\* A contender takes the lease when nobody holds it.
LEMMA CreatedInv ==
    ASSUME StartInv, LeaseInv, NEW p \in Revival, LeaseCreated(p)
    PROVE  LeaseInv'
<1> USE DEF StartInv, LeaseInv, LeaseSays, OwnedBy, At, Contending, Waiting, Working, Places
<1>1. /\ runner[p].pc = "create" /\ lease \in {Free, Empty} /\ lease' = Owned(p, "none", NoChild)
      /\ startup' = [startup EXCEPT ![p] = "ready"]
      /\ UNCHANGED <<tombstones, writer, spawned, replies, launcher>>
  BY DEF LeaseCreated, At
<1>2. Goes(p, "ack")
  BY DEF LeaseCreated, At
<1>3. /\ runner' \in [Revival -> Runners] /\ runner'[p].pc = "ack" /\ runner'[p].seen = runner[p].seen
      /\ \A q \in Revival : q # p => runner'[q] = runner[q]
  BY <1>2, RunnerGoes
<1>4. HolderKept'
  BY <1>1, <1>3, LeaseFacts DEF RevivalTypeOK, HolderKept, WriterRecorded
<1>5. WriterRecorded' /\ TombstonesOfDead'
  BY <1>1, <1>3, LeaseFacts DEF RevivalTypeOK, HolderKept, WriterRecorded, TombstonesOfDead
<1>6. SeenIsStale'
  BY <1>1, <1>3, LeaseFacts, SeenKept DEF RevivalTypeOK
<1> QED
  BY <1>4, <1>5, <1>6

\* Or it finds the lease occupied.
LEMMA OccupiedInv ==
    ASSUME StartInv, LeaseInv, NEW p \in Revival, LeaseOccupied(p)
    PROVE  LeaseInv'
<1> USE DEF StartInv, LeaseInv, LeaseSays, OwnedBy, At, Contending, Waiting, Working, Places
<1>1. /\ runner[p].pc = "create"
      /\ UNCHANGED <<lease, tombstones, writer, spawned, startup, replies, launcher>>
  BY DEF LeaseOccupied, At
<1>2. Goes(p, "read")
  BY DEF LeaseOccupied, At
<1>3. /\ runner' \in [Revival -> Runners] /\ runner'[p].pc = "read" /\ runner'[p].seen = runner[p].seen
      /\ \A q \in Revival : q # p => runner'[q] = runner[q]
  BY <1>2, RunnerGoes
<1>4. HolderKept'
  BY <1>1, <1>3 DEF RevivalTypeOK, HolderKept, WriterRecorded
<1>5. WriterRecorded' /\ TombstonesOfDead'
  BY <1>1, <1>3 DEF RevivalTypeOK, HolderKept, WriterRecorded, TombstonesOfDead
<1>6. SeenIsStale'
  BY <1>1, <1>3, SeenKept DEF RevivalTypeOK
<1> QED
  BY <1>4, <1>5, <1>6

\* Or it gives up.
LEMMA GivenUpInv ==
    ASSUME StartInv, LeaseInv, NEW p \in Revival, LeaseGivenUp(p)
    PROVE  LeaseInv'
<1> USE DEF StartInv, LeaseInv, LeaseSays, OwnedBy, At, Contending, Waiting, Working, Places
<1>1. /\ runner[p].pc = "create" /\ startup' = [startup EXCEPT ![p] = "error"]
      /\ UNCHANGED <<lease, tombstones, writer, spawned, replies, launcher>>
  BY DEF LeaseGivenUp, Refused, At
<1>2. Goes(p, "over")
  BY DEF LeaseGivenUp, Refused, At
<1>3. /\ runner' \in [Revival -> Runners] /\ runner'[p].pc = "over" /\ runner'[p].seen = runner[p].seen
      /\ \A q \in Revival : q # p => runner'[q] = runner[q]
  BY <1>2, RunnerGoes
<1>4. HolderKept'
  BY <1>1, <1>3 DEF RevivalTypeOK, HolderKept, WriterRecorded
<1>5. WriterRecorded' /\ TombstonesOfDead'
  BY <1>1, <1>3 DEF RevivalTypeOK, HolderKept, WriterRecorded, TombstonesOfDead
<1>6. SeenIsStale'
  BY <1>1, <1>3, SeenKept DEF RevivalTypeOK
<1> QED
  BY <1>4, <1>5, <1>6

\* It copies the record it finds.
LEMMA ReadInv ==
    ASSUME StartInv, LeaseInv, NEW p \in Revival, LeaseRead(p)
    PROVE  LeaseInv'
<1> USE DEF StartInv, LeaseInv, LeaseSays, OwnedBy, At, Contending, Waiting, Working, Places
<1>1. runner[p].pc = "read" /\ UNCHANGED <<lease, tombstones, writer, spawned, replies, launcher>>
  BY DEF LeaseRead
<1>2. /\ runner'[p].pc \in {"probe", "over"}
      /\ \A q \in Revival : q # p => runner'[q] = runner[q]
  BY DEF LeaseRead, Refused, Goes, RevivalTypeOK, Runners
<1>3. HolderKept' /\ WriterRecorded' /\ TombstonesOfDead'
  BY <1>1, <1>2 DEF RevivalTypeOK, HolderKept, WriterRecorded, TombstonesOfDead
<1>4. SeenIsStale'
  BY <1>1, <1>2, SeenKept
<1> QED
  BY <1>3, <1>4

\* A record found stale that is still that of the lease names a dead runner whose child, if
\* it had one, has ended; one that is not was moved aside.
LEMMA ProbedInv ==
    ASSUME StartInv, LeaseInv, NEW p \in Revival, LeaseProbed(p), ~ misread'
    PROVE  LeaseInv'
<1> USE DEF StartInv, LeaseInv, LeaseSays, OwnedBy, At, Contending, Waiting, Working, Places
<1>1. runner[p].pc = "probe" /\ UNCHANGED <<lease, tombstones, writer, spawned, replies, launcher>>
  BY DEF LeaseProbed
<1>2. CASE DemonstrablyStale(runner[p].seen)
  <2> DEFINE l == runner[p].seen
  <2>1. l \in Leases /\ l.is = "owned"
    BY <1>1 DEF RevivalTypeOK, Runners
  <2>2. PICK old \in Revival : old = l.owner
    BY <2>1, LeaseFacts
  <2>3. Goes(p, "reclaim") /\ ~ OutOfDate(l)
    BY <1>2 DEF LeaseProbed
  <2>4. /\ runner'[p].pc = "reclaim" /\ runner'[p].seen = l
        /\ \A q \in Revival : q # p => runner'[q] = runner[q]
    BY <2>3, RunnerGoes
  <2>5. runner[old].pc = "dead" /\ writer[old] # "up" /\ (OwnedBy(old) \/ old \in tombstones)
    <3>1. CASE lease = l
      BY <1>2, <2>1, <2>2, <3>1 DEF DemonstrablyStale, Gone, HolderKept, WriterRecorded
    <3>2. CASE old \in tombstones
      BY <3>2 DEF TombstonesOfDead, WriterRecorded
    <3> QED
      BY <2>2, <2>3, <3>1, <3>2 DEF OutOfDate
  <2>6. HolderKept' /\ WriterRecorded' /\ TombstonesOfDead'
    BY <1>1, <2>4 DEF RevivalTypeOK, HolderKept, WriterRecorded, TombstonesOfDead
  <2>7. SeenIsStale'
    BY <1>1, <2>2, <2>4, <2>5 DEF SeenIsStale
  <2> QED
    BY <2>6, <2>7
<1>3. CASE ~ DemonstrablyStale(runner[p].seen)
  <2>1. Goes(p, "over")
    BY <1>3 DEF LeaseProbed, Refused
  <2>2. /\ runner'[p].pc = "over"
        /\ \A q \in Revival : q # p => runner'[q] = runner[q]
    BY <2>1, RunnerGoes
  <2>3. HolderKept' /\ WriterRecorded' /\ TombstonesOfDead'
    BY <1>1, <2>2 DEF RevivalTypeOK, HolderKept, WriterRecorded, TombstonesOfDead
  <2>4. SeenIsStale'
    BY <1>1, <2>2 DEF SeenIsStale
  <2> QED
    BY <2>3, <2>4
<1> QED
  BY <1>2, <1>3

\* Of the contenders that have seen the same stale lease one moves it aside; the others
\* find its tombstone, and leave the lease of the one that came after.
LEMMA ReclaimedInv ==
    ASSUME StartInv, LeaseInv, NEW p \in Revival, LeaseReclaimed(p)
    PROVE  LeaseInv'
<1> USE DEF StartInv, LeaseInv, LeaseSays, OwnedBy, At, Contending, Waiting, Working, Places
<1>1. PICK old \in Revival :
        /\ runner[p].seen.owner = old /\ runner[old].pc = "dead" /\ writer[old] # "up"
        /\ OwnedBy(old) \/ old \in tombstones
  BY DEF LeaseReclaimed, SeenIsStale
<1>2. \/ OwnedBy(old) /\ lease' = Free /\ tombstones' = tombstones \cup {old}
      \/ UNCHANGED <<lease, tombstones>>
  BY <1>1, LeaseFacts DEF LeaseReclaimed, Reclaims
<1>3. runner[p].pc = "reclaim" /\ UNCHANGED <<writer, spawned, startup, replies, launcher>>
  BY DEF LeaseReclaimed
<1>4. /\ runner'[p].pc = "create"
      /\ \A q \in Revival : q # p => runner'[q] = runner[q]
  BY DEF LeaseReclaimed, RevivalTypeOK, Runners
<1>5. old # p /\ lease' \in Leases /\ tombstones' \subseteq Revival
  BY <1>1, <1>2, <1>3, LeaseFacts DEF RevivalTypeOK
<1>6. HolderKept' /\ WriterRecorded'
  <2>1. CASE UNCHANGED <<lease, tombstones>>
    BY <1>3, <1>4, <2>1 DEF HolderKept, WriterRecorded
  <2>2. CASE OwnedBy(old) /\ lease' = Free
    <3>1. \A q \in Revival : runner'[q].pc \notin {"ack", "proceed", "idle", "release", "spawning", "register", "writing"}
      BY <1>1, <1>4, <2>2 DEF HolderKept
    <3>2. \A q \in Revival : writer[q] # "up"
      BY <1>1, <2>2 DEF WriterRecorded
    <3> QED
      BY <1>3, <1>4, <2>2, <3>1, <3>2, LeaseFacts DEF HolderKept, WriterRecorded
  <2> QED
    BY <1>2, <2>1, <2>2
<1>7. TombstonesOfDead'
  BY <1>1, <1>2, <1>3, <1>4, <1>5, LeaseFacts DEF TombstonesOfDead, RevivalTypeOK
<1>8. SeenIsStale'
  <2>1. \A q \in Revival : runner'[q].pc = "reclaim" =>
            runner[q].pc = "reclaim" /\ runner'[q].seen = runner[q].seen
    BY <1>4
  <2>2. \A dead \in Revival :
            /\ runner[dead].pc = "dead" /\ writer[dead] # "up"
            /\ OwnedBy(dead) \/ dead \in tombstones
            => /\ runner'[dead].pc = "dead" /\ writer'[dead] # "up"
               /\ OwnedBy(dead)' \/ dead \in tombstones'
    BY <1>2, <1>3, <1>4
  <2> QED
    BY <2>1, <2>2, SeenKept
<1> QED
  BY <1>6, <1>7, <1>8

\* The runner answers the acknowledgement.
LEMMA AcknowledgesInv ==
    ASSUME StartInv, LeaseInv, NEW p \in Revival, RunnerAcknowledges(p)
    PROVE  LeaseInv'
<1> USE DEF StartInv, LeaseInv, LeaseSays, OwnedBy, At, Contending, Waiting, Working, Places
<1>1. /\ runner[p].pc = "ack" /\ startup' = [startup EXCEPT ![p] = "acknowledged"]
      /\ UNCHANGED <<lease, tombstones, writer, spawned, replies, launcher>>
  BY DEF RunnerAcknowledges, At
<1>2. Goes(p, "proceed")
  BY DEF RunnerAcknowledges, At
<1>3. /\ runner' \in [Revival -> Runners] /\ runner'[p].pc = "proceed" /\ runner'[p].seen = runner[p].seen
      /\ \A q \in Revival : q # p => runner'[q] = runner[q]
  BY <1>2, RunnerGoes
<1>4. HolderKept'
  BY <1>1, <1>3 DEF RevivalTypeOK, HolderKept, WriterRecorded
<1>5. WriterRecorded' /\ TombstonesOfDead'
  BY <1>1, <1>3 DEF RevivalTypeOK, HolderKept, WriterRecorded, TombstonesOfDead
<1>6. SeenIsStale'
  BY <1>1, <1>3, SeenKept DEF RevivalTypeOK
<1> QED
  BY <1>4, <1>5, <1>6

\* The runner works once the launcher has reported a start.
LEMMA ProceedsInv ==
    ASSUME StartInv, LeaseInv, NEW p \in Revival, RunnerProceeds(p)
    PROVE  LeaseInv'
<1> USE DEF StartInv, LeaseInv, LeaseSays, OwnedBy, At, Contending, Waiting, Working, Places
<1>1. /\ runner[p].pc = "proceed" /\ "proceed" \in replies[p] /\ replies' = [replies EXCEPT ![p] = {}]
      /\ UNCHANGED <<lease, tombstones, writer, spawned, startup, launcher>>
  BY DEF RunnerProceeds, Proceeds, At
<1>2. Goes(p, "idle")
  BY DEF RunnerProceeds, Proceeds, At
<1>3. /\ runner' \in [Revival -> Runners] /\ runner'[p].pc = "idle" /\ runner'[p].seen = runner[p].seen
      /\ \A q \in Revival : q # p => runner'[q] = runner[q]
  BY <1>2, RunnerGoes
<1>4. HolderKept'
  BY <1>1, <1>3 DEF RevivalTypeOK, HolderKept, WriterRecorded
<1>5. WriterRecorded' /\ TombstonesOfDead'
  BY <1>1, <1>3 DEF RevivalTypeOK, HolderKept, WriterRecorded, TombstonesOfDead
<1>6. SeenIsStale'
  BY <1>1, <1>3, SeenKept DEF RevivalTypeOK
<1> QED
  BY <1>4, <1>5, <1>6

\* The runner has waited too long.
LEMMA TimesOutInv ==
    ASSUME StartInv, LeaseInv, NEW p \in Revival, RunnerTimesOut(p)
    PROVE  LeaseInv'
<1> USE DEF StartInv, LeaseInv, LeaseSays, OwnedBy, At, Contending, Waiting, Working, Places
<1>1. /\ runner[p].pc \in {"ack", "proceed"} /\ startup' = [startup EXCEPT ![p] = "error"]
      /\ UNCHANGED <<lease, tombstones, writer, spawned, replies, launcher>>
  BY DEF RunnerTimesOut
<1>2. Goes(p, "release")
  BY DEF RunnerTimesOut
<1>3. /\ runner' \in [Revival -> Runners] /\ runner'[p].pc = "release" /\ runner'[p].seen = runner[p].seen
      /\ \A q \in Revival : q # p => runner'[q] = runner[q]
  BY <1>2, RunnerGoes
<1>4. HolderKept'
  BY <1>1, <1>3 DEF RevivalTypeOK, HolderKept, WriterRecorded
<1>5. WriterRecorded' /\ TombstonesOfDead'
  BY <1>1, <1>3 DEF RevivalTypeOK, HolderKept, WriterRecorded, TombstonesOfDead
<1>6. SeenIsStale'
  BY <1>1, <1>3, SeenKept DEF RevivalTypeOK
<1> QED
  BY <1>4, <1>5, <1>6

\* The launcher acknowledges.
LEMMA AcksInv ==
    ASSUME StartInv, LeaseInv, NEW p \in Revival, LauncherAcks(p)
    PROVE  LeaseInv'
<1> USE DEF StartInv, LeaseInv, LeaseSays, OwnedBy, At, Contending, Waiting, Working, Places
<1>1. /\ launcher[p] = "ready" /\ launcher' = [launcher EXCEPT ![p] = "acknowledged"]
      /\ replies' = [replies EXCEPT ![p] = @ \cup {"ack"}]
      /\ UNCHANGED <<lease, tombstones, writer, spawned, startup, runner>>
  BY DEF LauncherAcks
<1>2. HolderKept'
  BY <1>1 DEF RevivalTypeOK, HolderKept, WriterRecorded
<1>3. WriterRecorded' /\ TombstonesOfDead'
  BY <1>1 DEF RevivalTypeOK, HolderKept, WriterRecorded, TombstonesOfDead
<1>4. SeenIsStale'
  BY <1>1, SeenKept DEF RevivalTypeOK
<1> QED
  BY <1>2, <1>3, <1>4

\* The launcher reports a start.
LEMMA StartsInv ==
    ASSUME StartInv, LeaseInv, NEW p \in Revival, LauncherStarts(p)
    PROVE  LeaseInv'
<1> USE DEF StartInv, LeaseInv, LeaseSays, OwnedBy, At, Contending, Waiting, Working, Places
<1>1. /\ launcher[p] = "acknowledged" /\ launcher' = [launcher EXCEPT ![p] = "started"]
      /\ replies' = [replies EXCEPT ![p] = @ \cup {"proceed"}]
      /\ UNCHANGED <<lease, tombstones, writer, spawned, startup, runner>>
  BY DEF LauncherStarts
<1>2. HolderKept'
  BY <1>1 DEF RevivalTypeOK, HolderKept, WriterRecorded
<1>3. WriterRecorded' /\ TombstonesOfDead'
  BY <1>1 DEF RevivalTypeOK, HolderKept, WriterRecorded, TombstonesOfDead
<1>4. SeenIsStale'
  BY <1>1, SeenKept DEF RevivalTypeOK
<1> QED
  BY <1>2, <1>3, <1>4

\* The launcher reports a refusal, before the runner could work; the runner may survive it.
LEMMA RefusesInv ==
    ASSUME StartInv, LeaseInv, NEW p \in Revival, LauncherRefuses(p)
    PROVE  LeaseInv'
<1> USE DEF StartInv, LeaseInv, LeaseSays, OwnedBy, At, Contending, Waiting, Working, Places
<1>1. /\ launcher[p] \in {"ready", "acknowledged"} /\ launcher' = [launcher EXCEPT ![p] = "refused"]
      /\ UNCHANGED <<lease, tombstones, writer, spawned, startup, replies>>
  BY DEF LauncherRefuses
<1>2. /\ runner' \in [Revival -> Runners]
      /\ runner'[p].seen = runner[p].seen
      /\ runner'[p].pc # runner[p].pc => runner'[p].pc = "dead" /\ runner[p].pc # "over"
      /\ \A q \in Revival : q # p => runner'[q] = runner[q]
  <2>1. CASE Goes(p, "dead") /\ ~ Gone(p)
    BY <2>1, RunnerGoes DEF Gone
  <2>2. CASE UNCHANGED runner
    BY <2>2 DEF RevivalTypeOK
  <2> QED
    BY <2>1, <2>2 DEF LauncherRefuses
<1>3. HolderKept'
  BY <1>1, <1>2 DEF RevivalTypeOK, HolderKept, WriterRecorded
<1>4. WriterRecorded' /\ TombstonesOfDead'
  <2>1. WriterRecorded'
    BY <1>1, <1>2 DEF WriterRecorded
  <2>2. TombstonesOfDead'
    BY <1>1, <1>2 DEF RevivalTypeOK, TombstonesOfDead
  <2> QED
    BY <2>1, <2>2
<1>5. SeenIsStale'
  BY <1>1, <1>2, SeenKept DEF RevivalTypeOK
<1> QED
  BY <1>3, <1>4, <1>5

\* The launcher dies, and reports nothing.
LEMMA LauncherDiesInv ==
    ASSUME StartInv, LeaseInv, NEW p \in Revival, LauncherDies(p)
    PROVE  LeaseInv'
<1> USE DEF StartInv, LeaseInv, LeaseSays, OwnedBy, At, Contending, Waiting, Working, Places
<1>1. /\ launcher[p] \in {"ready", "acknowledged"} /\ launcher' = [launcher EXCEPT ![p] = "gone"]
      /\ UNCHANGED <<lease, tombstones, writer, spawned, startup, replies, runner>>
  BY DEF LauncherDies
<1>2. HolderKept'
  BY <1>1 DEF RevivalTypeOK, HolderKept, WriterRecorded
<1>3. WriterRecorded' /\ TombstonesOfDead'
  BY <1>1 DEF RevivalTypeOK, HolderKept, WriterRecorded, TombstonesOfDead
<1>4. SeenIsStale'
  BY <1>1, SeenKept DEF RevivalTypeOK
<1> QED
  BY <1>2, <1>3, <1>4

\* The runner dies. Its lease and its child stay.
LEMMA DiesInv ==
    ASSUME StartInv, LeaseInv, NEW p \in Revival, RunnerDies(p)
    PROVE  LeaseInv'
<1> USE DEF StartInv, LeaseInv, LeaseSays, OwnedBy, At, Contending, Waiting, Working, Places
<1>1. /\ runner[p].pc \notin {"over", "dead"}
      /\ UNCHANGED <<lease, tombstones, writer, spawned, startup, replies, launcher>>
  BY DEF RunnerDies, Gone
<1>2. Goes(p, "dead")
  BY DEF RunnerDies, Gone
<1>3. /\ runner' \in [Revival -> Runners] /\ runner'[p].pc = "dead" /\ runner'[p].seen = runner[p].seen
      /\ \A q \in Revival : q # p => runner'[q] = runner[q]
  BY <1>2, RunnerGoes
<1>4. HolderKept'
  BY <1>1, <1>3 DEF RevivalTypeOK, HolderKept, WriterRecorded
<1>5. WriterRecorded' /\ TombstonesOfDead'
  BY <1>1, <1>3 DEF RevivalTypeOK, HolderKept, WriterRecorded, TombstonesOfDead
<1>6. SeenIsStale'
  <2>1. \A q \in Revival : runner'[q].pc = "reclaim" =>
            runner[q].pc = "reclaim" /\ runner'[q].seen = runner[q].seen
    BY <1>3
  <2>2. \A old \in Revival : runner[old].pc = "dead" => runner'[old].pc = "dead"
    BY <1>3
  <2> QED
    BY <1>1, <2>1, <2>2, SeenKept
<1> QED
  BY <1>4, <1>5, <1>6

\* The holder announces a child: it holds the lease.
LEMMA AnnouncesInv ==
    ASSUME StartInv, LeaseInv, NEW p \in Revival, AnnouncesWriter(p)
    PROVE  LeaseInv'
<1> USE DEF StartInv, LeaseInv, LeaseSays, OwnedBy, At, Contending, Waiting, Working, Places
<1>1. /\ runner[p].pc = "idle" /\ OwnedBy(p) /\ lease' = Owned(p, "spawning", NoChild)
      /\ UNCHANGED <<tombstones, writer, spawned, startup, replies, launcher>>
  BY DEF AnnouncesWriter, HolderKept
<1>2. Goes(p, "spawning")
  BY DEF AnnouncesWriter, HolderKept
<1>3. /\ runner' \in [Revival -> Runners] /\ runner'[p].pc = "spawning" /\ runner'[p].seen = runner[p].seen
      /\ \A q \in Revival : q # p => runner'[q] = runner[q]
  BY <1>2, RunnerGoes
<1>4. HolderKept'
  BY <1>1, <1>3, LeaseFacts DEF RevivalTypeOK, HolderKept, WriterRecorded
<1>5. WriterRecorded' /\ TombstonesOfDead'
  BY <1>1, <1>3, LeaseFacts DEF RevivalTypeOK, HolderKept, WriterRecorded, TombstonesOfDead
<1>6. SeenIsStale'
  BY <1>1, <1>3, LeaseFacts, SeenKept DEF RevivalTypeOK
<1> QED
  BY <1>4, <1>5, <1>6

\* The child is up, or could not be started.
LEMMA SpawnsInv ==
    ASSUME StartInv, LeaseInv, NEW p \in Revival, SpawnsWriter(p)
    PROVE  LeaseInv'
<1> USE DEF StartInv, LeaseInv, LeaseSays, OwnedBy, At, Contending, Waiting, Working, Places
<1>1. PICK w \in {"up", "ended"} :
        /\ writer' = [writer EXCEPT ![p] = w] /\ Goes(p, IF w = "up" THEN "register" ELSE "writing")
        /\ \A q \in Revival : q # p => spawned'[q] = spawned[q]
  BY DEF SpawnsWriter, RevivalTypeOK
<1>2. /\ runner[p].pc = "spawning"
      /\ UNCHANGED <<lease, tombstones, startup, replies, launcher>>
  BY DEF SpawnsWriter
<1>3. /\ runner' \in [Revival -> Runners] /\ runner'[p].seen = runner[p].seen
      /\ runner'[p].pc = IF w = "up" THEN "register" ELSE "writing"
      /\ \A q \in Revival : q # p => runner'[q] = runner[q]
  BY <1>1, RunnerGoes
<1>4. HolderKept'
  BY <1>1, <1>2, <1>3 DEF RevivalTypeOK, HolderKept, WriterRecorded
<1>5. WriterRecorded' /\ TombstonesOfDead'
  BY <1>1, <1>2, <1>3 DEF RevivalTypeOK, HolderKept, WriterRecorded, TombstonesOfDead
<1>6. SeenIsStale'
  BY <1>1, <1>2, <1>3, SeenKept DEF RevivalTypeOK
<1> QED
  BY <1>4, <1>5, <1>6

\* The holder records its child.
LEMMA RegistersInv ==
    ASSUME StartInv, LeaseInv, NEW p \in Revival, RegistersWriter(p)
    PROVE  LeaseInv'
<1> USE DEF StartInv, LeaseInv, LeaseSays, OwnedBy, At, Contending, Waiting, Working, Places
<1>1. /\ runner[p].pc = "register" /\ OwnedBy(p) /\ lease' = Owned(p, "running", spawned[p])
      /\ UNCHANGED <<tombstones, writer, spawned, startup, replies, launcher>>
  BY DEF RegistersWriter, HolderKept
<1>2. Goes(p, "writing")
  BY DEF RegistersWriter, HolderKept
<1>3. /\ runner' \in [Revival -> Runners] /\ runner'[p].pc = "writing" /\ runner'[p].seen = runner[p].seen
      /\ \A q \in Revival : q # p => runner'[q] = runner[q]
  BY <1>2, RunnerGoes
<1>4. HolderKept'
  BY <1>1, <1>3, LeaseFacts DEF RevivalTypeOK, HolderKept, WriterRecorded
<1>5. WriterRecorded' /\ TombstonesOfDead'
  BY <1>1, <1>3, LeaseFacts DEF RevivalTypeOK, HolderKept, WriterRecorded, TombstonesOfDead
<1>6. SeenIsStale'
  BY <1>1, <1>3, LeaseFacts, SeenKept DEF RevivalTypeOK
<1> QED
  BY <1>4, <1>5, <1>6

\* A child ends, whether or not its runner is there to see it.
LEMMA EndsInv ==
    ASSUME StartInv, LeaseInv, NEW p \in Revival, WriterEnds(p)
    PROVE  LeaseInv'
<1> USE DEF StartInv, LeaseInv, LeaseSays, OwnedBy, At, Contending, Waiting, Working, Places
<1>1. /\ writer[p] = "up" /\ writer' = [writer EXCEPT ![p] = "ended"]
      /\ UNCHANGED <<lease, tombstones, spawned, startup, replies, launcher, runner>>
  BY DEF WriterEnds
<1>2. HolderKept'
  BY <1>1 DEF RevivalTypeOK, HolderKept, WriterRecorded
<1>3. WriterRecorded' /\ TombstonesOfDead'
  BY <1>1 DEF RevivalTypeOK, HolderKept, WriterRecorded, TombstonesOfDead
<1>4. SeenIsStale'
  BY <1>1, SeenKept DEF RevivalTypeOK
<1> QED
  BY <1>2, <1>3, <1>4

\* The holder takes note of the end of its child.
LEMMA ClosesInv ==
    ASSUME StartInv, LeaseInv, NEW p \in Revival, WriterCloses(p)
    PROVE  LeaseInv'
<1> USE DEF StartInv, LeaseInv, LeaseSays, OwnedBy, At, Contending, Waiting, Working, Places
<1>1. /\ runner[p].pc = "writing" /\ writer[p] = "ended" /\ writer' = [writer EXCEPT ![p] = "none"]
      /\ OwnedBy(p) /\ lease' = Owned(p, "none", NoChild)
      /\ UNCHANGED <<tombstones, spawned, startup, replies, launcher>>
  BY DEF WriterCloses, HolderKept
<1>2. Goes(p, "idle")
  BY DEF WriterCloses, HolderKept
<1>3. /\ runner' \in [Revival -> Runners] /\ runner'[p].pc = "idle" /\ runner'[p].seen = runner[p].seen
      /\ \A q \in Revival : q # p => runner'[q] = runner[q]
  BY <1>2, RunnerGoes
<1>4. /\ OwnedBy(p)' /\ lease'.writer = "none"
      /\ \A q \in Revival : q # p => ~ OwnedBy(q) /\ ~ OwnedBy(q)'
  BY <1>1, LeaseFacts
<1>5. HolderKept'
  BY <1>1, <1>3, <1>4 DEF HolderKept
<1>6. WriterRecorded' /\ TombstonesOfDead'
  BY <1>1, <1>3, <1>4 DEF RevivalTypeOK, WriterRecorded, TombstonesOfDead
<1>7. SeenIsStale'
  BY <1>1, <1>3, LeaseFacts, SeenKept DEF RevivalTypeOK
<1> QED
  BY <1>5, <1>6, <1>7

\* The runner has no more work.
LEMMA FinishesInv ==
    ASSUME StartInv, LeaseInv, NEW p \in Revival, RunnerFinishes(p)
    PROVE  LeaseInv'
<1> USE DEF StartInv, LeaseInv, LeaseSays, OwnedBy, At, Contending, Waiting, Working, Places
<1>1. /\ runner[p].pc = "idle"
      /\ UNCHANGED <<lease, tombstones, writer, spawned, startup, replies, launcher>>
  BY DEF RunnerFinishes
<1>2. Goes(p, "release")
  BY DEF RunnerFinishes
<1>3. /\ runner' \in [Revival -> Runners] /\ runner'[p].pc = "release" /\ runner'[p].seen = runner[p].seen
      /\ \A q \in Revival : q # p => runner'[q] = runner[q]
  BY <1>2, RunnerGoes
<1>4. HolderKept'
  BY <1>1, <1>3 DEF RevivalTypeOK, HolderKept, WriterRecorded
<1>5. WriterRecorded' /\ TombstonesOfDead'
  BY <1>1, <1>3 DEF RevivalTypeOK, HolderKept, WriterRecorded, TombstonesOfDead
<1>6. SeenIsStale'
  BY <1>1, <1>3, SeenKept DEF RevivalTypeOK
<1> QED
  BY <1>4, <1>5, <1>6

\* The holder removes its record from the lease.
LEMMA ReleasesInv ==
    ASSUME StartInv, LeaseInv, NEW p \in Revival, Releases(p)
    PROVE  LeaseInv'
<1> USE DEF StartInv, LeaseInv, LeaseSays, OwnedBy, At, Contending, Waiting, Working, Places
<1>1. /\ runner[p].pc = "release" /\ OwnedBy(p) /\ lease' = Empty
      /\ UNCHANGED <<tombstones, writer, spawned, startup, replies, launcher>>
  BY DEF Releases, HolderKept
<1>2. Goes(p, "remove")
  BY DEF Releases, HolderKept
<1>3. /\ runner' \in [Revival -> Runners] /\ runner'[p].pc = "remove" /\ runner'[p].seen = runner[p].seen
      /\ \A q \in Revival : q # p => runner'[q] = runner[q]
  BY <1>2, RunnerGoes
<1>4. \A q \in Revival : ~ OwnedBy(q)'
  BY <1>1, LeaseFacts
<1>5. HolderKept'
  BY <1>1, <1>3, <1>4 DEF HolderKept
<1>6. WriterRecorded' /\ TombstonesOfDead'
  BY <1>1, <1>3, <1>4 DEF RevivalTypeOK, HolderKept, WriterRecorded, TombstonesOfDead
<1>7. SeenIsStale'
  BY <1>1, <1>3, LeaseFacts, SeenKept DEF RevivalTypeOK
<1> QED
  BY <1>5, <1>6, <1>7

\* And the directory, unless a successor has taken it.
LEMMA RemovesInv ==
    ASSUME StartInv, LeaseInv, NEW p \in Revival, RemovesDirectory(p)
    PROVE  LeaseInv'
<1> USE DEF StartInv, LeaseInv, LeaseSays, OwnedBy, At, Contending, Waiting, Working, Places
<1>1. /\ runner[p].pc = "remove" /\ lease' = (IF lease = Empty THEN Free ELSE lease)
      /\ UNCHANGED <<tombstones, writer, spawned, startup, replies, launcher>>
  BY DEF RemovesDirectory
<1>2. Goes(p, "over")
  BY DEF RemovesDirectory
<1>3. /\ runner' \in [Revival -> Runners] /\ runner'[p].pc = "over" /\ runner'[p].seen = runner[p].seen
      /\ \A q \in Revival : q # p => runner'[q] = runner[q]
  BY <1>2, RunnerGoes
<1>4. lease' = lease \/ \A q \in Revival : ~ OwnedBy(q) /\ ~ OwnedBy(q)'
  BY <1>1, LeaseFacts
<1>5. HolderKept'
  <2>1. CASE lease' = lease
    BY <1>1, <1>3, <2>1 DEF HolderKept
  <2>2. CASE \A q \in Revival : ~ OwnedBy(q) /\ ~ OwnedBy(q)'
    BY <1>1, <1>3, <2>2 DEF HolderKept
  <2> QED
    BY <1>4, <2>1, <2>2
<1>6. WriterRecorded' /\ TombstonesOfDead'
  <2>1. \A q \in Revival : OwnedBy(q)' <=> OwnedBy(q)
    BY <1>1, LeaseFacts
  <2>2. OwnedBy(p) => FALSE
    BY <1>1 DEF HolderKept
  <2>3. WriterRecorded'
    BY <1>1, <1>3, <2>1, <2>2, LeaseFacts DEF WriterRecorded
  <2>4. TombstonesOfDead'
    <3>1. tombstones \subseteq Revival
      BY DEF RevivalTypeOK
    <3>2. \A q \in tombstones : q # p /\ runner[q].pc = "dead" /\ ~ OwnedBy(q)
      BY <1>1 DEF TombstonesOfDead
    <3> QED
      BY <1>1, <1>3, <2>1, <3>1, <3>2 DEF TombstonesOfDead
  <2> QED
    BY <2>3, <2>4
<1>7. SeenIsStale'
  BY <1>1, <1>3, LeaseFacts, SeenKept DEF RevivalTypeOK
<1> QED
  BY <1>5, <1>6, <1>7

\* A misreading is never forgotten.
LEMMA MisreadStays == [RevivalNext]_revivalVars /\ ~ misread' => ~ misread
BY DEF RevivalNext, revivalVars, LeaseCreated, LeaseOccupied, LeaseRead, LeaseProbed, LeaseReclaimed,
       LeaseGivenUp, RunnerAcknowledges, RunnerProceeds, RunnerTimesOut, LauncherAcks, LauncherStarts,
       LauncherRefuses, LauncherDies, AnnouncesWriter, SpawnsWriter, RegistersWriter, WriterEnds,
       WriterCloses, RunnerFinishes, Releases, RemovesDirectory, RunnerDies

\* A contender that has read a lease, has judged it or has moved it aside.
LEMMA ContenderTypes ==
    ASSUME RevivalTypeOK, NEW p \in Revival, LeaseRead(p) \/ LeaseProbed(p) \/ LeaseReclaimed(p)
    PROVE  /\ runner' \in [Revival -> Runners]
           /\ runner'[p].pc \in Contending \cup {"over"}
           /\ runner'[p].pc \in {"probe", "reclaim"} => runner'[p].seen.is = "owned"
           /\ \A q \in Revival : q # p => runner'[q] = runner[q]
<1> USE DEF At, Contending, Places
<1>1. runner[p] \in Runners
  BY DEF RevivalTypeOK
<1>2. CASE Goes(p, "over") \/ LeaseProbed(p)
  BY <1>2, RunnerGoes DEF LeaseProbed, Refused, RevivalTypeOK
<1>3. CASE LeaseRead(p) /\ ~ Goes(p, "over")
  <2> DEFINE moved == [runner[p] EXCEPT !.pc = "probe"]
  <2>1. lease \in Leases /\ lease.is = "owned"
    BY <1>3 DEF LeaseRead, Refused, RevivalTypeOK
  <2>2. moved \in Runners /\ moved.pc = "probe"
    BY <1>1 DEF Runners
  <2> HIDE DEF moved
  <2> DEFINE next == [moved EXCEPT !.seen = lease]
  <2>3. next \in Runners /\ next.pc = "probe" /\ next.seen = lease
    BY <2>1, <2>2 DEF Runners
  <2>4. runner' = [runner EXCEPT ![p] = next]
    BY <1>1, <1>3 DEF LeaseRead, Refused, moved, RevivalTypeOK
  <2> HIDE DEF next
  <2> QED
    BY <2>1, <2>3, <2>4 DEF RevivalTypeOK
<1>4. CASE LeaseReclaimed(p)
  <2> DEFINE moved == [runner[p] EXCEPT !.pc = "create"]
             tried == [moved EXCEPT !.tries = @ + 1]
             next == [tried EXCEPT !.seen = Free]
  <2>1. moved \in Runners /\ moved.pc = "create"
    BY <1>1 DEF Runners
  <2> HIDE DEF moved
  <2>2. tried \in Runners /\ tried.pc = "create"
    BY <2>1 DEF Runners
  <2> HIDE DEF tried
  <2>3. next \in Runners /\ next.pc = "create"
    BY <2>2, LeaseFacts DEF Runners
  <2>4. runner' = [runner EXCEPT ![p] = next]
    BY <1>4 DEF LeaseReclaimed, moved, tried
  <2> HIDE DEF next
  <2> QED
    BY <2>3, <2>4 DEF RevivalTypeOK
<1> QED
  BY <1>2, <1>3, <1>4

\* The types, and that a runner works only for a launcher that has reported its start, do
\* not depend on the lease.
LEMMA StartStep == StartInv /\ [RevivalNext]_revivalVars => StartInv'
<1> USE DEF StartInv, At, Gone, Contending, Waiting, Working, Places
<1> SUFFICES ASSUME StartInv, [RevivalNext]_revivalVars PROVE StartInv'
  OBVIOUS
<1>1. ASSUME NEW p \in Revival, LeaseRead(p) \/ LeaseProbed(p) \/ LeaseReclaimed(p) PROVE StartInv'
  <2>1. /\ lease' \in Leases /\ tombstones' \subseteq Revival /\ misread' \in BOOLEAN
        /\ startup' \in [Revival -> {"none", "ready", "acknowledged", "error"}]
        /\ UNCHANGED <<writer, spawned, replies, launcher>>
    <3>1. runner[p].pc = "reclaim" => runner[p].seen.owner \in Revival
      BY LeaseFacts DEF RevivalTypeOK, Runners
    <3>2. CASE LeaseRead(p)
      BY <3>2 DEF LeaseRead, Refused, RevivalTypeOK
    <3>3. CASE LeaseProbed(p)
      BY <3>3 DEF LeaseProbed, Refused, RevivalTypeOK
    <3>4. CASE LeaseReclaimed(p)
      BY <3>1, <3>4, LeaseFacts DEF LeaseReclaimed, RevivalTypeOK
    <3> QED
      BY <1>1, <3>2, <3>3, <3>4
  <2>2. RevivalTypeOK'
    BY <1>1, <2>1, ContenderTypes DEF RevivalTypeOK
  <2>3. StartReported'
    BY <1>1, <2>1, ContenderTypes DEF StartReported
  <2> QED
    BY <2>2, <2>3
<1>2. ASSUME NEW p \in Revival, LeaseCreated(p) PROVE StartInv'
  <2>1. /\ runner' \in [Revival -> Runners] /\ runner'[p].pc = "ack"
        /\ \A q \in Revival : q # p => runner'[q] = runner[q]
    <3>1. Goes(p, "ack")
      BY <1>2 DEF LeaseCreated
    <3> QED
      BY <3>1, RunnerGoes
  <2>2. RevivalTypeOK'
    <3>1. lease' \in Leases
      BY <1>2, LeaseFacts DEF LeaseCreated
    <3>2. startup' \in [Revival -> {"none", "ready", "acknowledged", "error"}]
      BY <1>2 DEF LeaseCreated, RevivalTypeOK
    <3> QED
      BY <1>2, <2>1, <3>1, <3>2 DEF LeaseCreated, RevivalTypeOK
  <2>3. StartReported'
    BY <1>2, <2>1 DEF LeaseCreated, RevivalTypeOK, StartReported
  <2> QED
    BY <2>2, <2>3
<1>3. ASSUME NEW p \in Revival, LeaseOccupied(p) PROVE StartInv'
  <2>1. /\ runner' \in [Revival -> Runners] /\ runner'[p].pc = "read"
        /\ \A q \in Revival : q # p => runner'[q] = runner[q]
    <3>1. Goes(p, "read")
      BY <1>3 DEF LeaseOccupied
    <3> QED
      BY <3>1, RunnerGoes
  <2>2. RevivalTypeOK'
    BY <1>3, <2>1 DEF LeaseOccupied, RevivalTypeOK
  <2>3. StartReported'
    BY <1>3, <2>1 DEF LeaseOccupied, RevivalTypeOK, StartReported
  <2> QED
    BY <2>2, <2>3
<1>4. ASSUME NEW p \in Revival, LeaseGivenUp(p) PROVE StartInv'
  <2>1. /\ runner' \in [Revival -> Runners] /\ runner'[p].pc = "over"
        /\ \A q \in Revival : q # p => runner'[q] = runner[q]
    <3>1. Goes(p, "over")
      BY <1>4 DEF LeaseGivenUp, Refused
    <3> QED
      BY <3>1, RunnerGoes
  <2>2. RevivalTypeOK'
    <3>1. startup' \in [Revival -> {"none", "ready", "acknowledged", "error"}]
      BY <1>4 DEF LeaseGivenUp, Refused, RevivalTypeOK
    <3> QED
      BY <1>4, <2>1, <3>1 DEF LeaseGivenUp, Refused, RevivalTypeOK
  <2>3. StartReported'
    BY <1>4, <2>1 DEF LeaseGivenUp, Refused, RevivalTypeOK, StartReported
  <2> QED
    BY <2>2, <2>3
<1>5. ASSUME NEW p \in Revival, RunnerAcknowledges(p) PROVE StartInv'
  <2>1. /\ runner' \in [Revival -> Runners] /\ runner'[p].pc = "proceed"
        /\ \A q \in Revival : q # p => runner'[q] = runner[q]
    <3>1. Goes(p, "proceed")
      BY <1>5 DEF RunnerAcknowledges
    <3> QED
      BY <3>1, RunnerGoes
  <2>2. RevivalTypeOK'
    <3>1. startup' \in [Revival -> {"none", "ready", "acknowledged", "error"}]
      BY <1>5 DEF RunnerAcknowledges, RevivalTypeOK
    <3> QED
      BY <1>5, <2>1, <3>1 DEF RunnerAcknowledges, RevivalTypeOK
  <2>3. StartReported'
    BY <1>5, <2>1 DEF RunnerAcknowledges, RevivalTypeOK, StartReported
  <2> QED
    BY <2>2, <2>3
<1>6. ASSUME NEW p \in Revival, RunnerProceeds(p) PROVE StartInv'
  <2>1. /\ runner' \in [Revival -> Runners] /\ runner'[p].pc = "idle"
        /\ \A q \in Revival : q # p => runner'[q] = runner[q]
    <3>1. Goes(p, "idle")
      BY <1>6 DEF RunnerProceeds, Proceeds
    <3> QED
      BY <3>1, RunnerGoes
  <2>2. RevivalTypeOK'
    <3>1. replies' \in [Revival -> SUBSET {"ack", "proceed"}]
      BY <1>6 DEF RunnerProceeds, RevivalTypeOK
    <3> QED
      BY <1>6, <2>1, <3>1 DEF RunnerProceeds, RevivalTypeOK
  <2>3. StartReported'
    BY <1>6, <2>1 DEF RunnerProceeds, Proceeds, RevivalTypeOK, StartReported
  <2> QED
    BY <2>2, <2>3
<1>7. ASSUME NEW p \in Revival, RunnerTimesOut(p) PROVE StartInv'
  <2>1. /\ runner' \in [Revival -> Runners] /\ runner'[p].pc = "release"
        /\ \A q \in Revival : q # p => runner'[q] = runner[q]
    <3>1. Goes(p, "release")
      BY <1>7 DEF RunnerTimesOut
    <3> QED
      BY <3>1, RunnerGoes
  <2>2. RevivalTypeOK'
    <3>1. startup' \in [Revival -> {"none", "ready", "acknowledged", "error"}]
      BY <1>7 DEF RunnerTimesOut, RevivalTypeOK
    <3> QED
      BY <1>7, <2>1, <3>1 DEF RunnerTimesOut, RevivalTypeOK
  <2>3. StartReported'
    BY <1>7, <2>1 DEF RunnerTimesOut, RevivalTypeOK, StartReported
  <2> QED
    BY <2>2, <2>3
<1>8. ASSUME NEW p \in Revival, RunnerFinishes(p) PROVE StartInv'
  <2>1. /\ runner' \in [Revival -> Runners] /\ runner'[p].pc = "release"
        /\ \A q \in Revival : q # p => runner'[q] = runner[q]
    <3>1. Goes(p, "release")
      BY <1>8 DEF RunnerFinishes
    <3> QED
      BY <3>1, RunnerGoes
  <2>2. RevivalTypeOK'
    BY <1>8, <2>1 DEF RunnerFinishes, RevivalTypeOK
  <2>3. StartReported'
    BY <1>8, <2>1 DEF RunnerFinishes, RevivalTypeOK, StartReported
  <2> QED
    BY <2>2, <2>3
<1>9. ASSUME NEW p \in Revival, RemovesDirectory(p) PROVE StartInv'
  <2>1. /\ runner' \in [Revival -> Runners] /\ runner'[p].pc = "over"
        /\ \A q \in Revival : q # p => runner'[q] = runner[q]
    <3>1. Goes(p, "over")
      BY <1>9 DEF RemovesDirectory
    <3> QED
      BY <3>1, RunnerGoes
  <2>2. RevivalTypeOK'
    <3>1. lease' \in Leases
      BY <1>9, LeaseFacts DEF RemovesDirectory, RevivalTypeOK
    <3> QED
      BY <1>9, <2>1, <3>1 DEF RemovesDirectory, RevivalTypeOK
  <2>3. StartReported'
    BY <1>9, <2>1 DEF RemovesDirectory, RevivalTypeOK, StartReported
  <2> QED
    BY <2>2, <2>3
<1>10. ASSUME NEW p \in Revival, RunnerDies(p) PROVE StartInv'
  <2>1. /\ runner' \in [Revival -> Runners] /\ runner'[p].pc = "dead"
        /\ \A q \in Revival : q # p => runner'[q] = runner[q]
    <3>1. Goes(p, "dead")
      BY <1>10 DEF RunnerDies
    <3> QED
      BY <3>1, RunnerGoes
  <2>2. RevivalTypeOK'
    BY <1>10, <2>1 DEF RunnerDies, RevivalTypeOK
  <2>3. StartReported'
    BY <1>10, <2>1 DEF RunnerDies, RevivalTypeOK, StartReported
  <2> QED
    BY <2>2, <2>3
<1>11. ASSUME NEW p \in Revival, LauncherAcks(p) PROVE StartInv'
  BY <1>11 DEF LauncherAcks, RevivalTypeOK, StartReported
<1>12. ASSUME NEW p \in Revival, LauncherStarts(p) PROVE StartInv'
  BY <1>12 DEF LauncherStarts, RevivalTypeOK, StartReported
<1>13. ASSUME NEW p \in Revival, LauncherDies(p) PROVE StartInv'
  BY <1>13 DEF LauncherDies, RevivalTypeOK, StartReported
<1>14. ASSUME NEW p \in Revival, WriterEnds(p) PROVE StartInv'
  BY <1>14 DEF WriterEnds, RevivalTypeOK, StartReported
<1>15. ASSUME NEW p \in Revival, LauncherRefuses(p) PROVE StartInv'
  <2>1. CASE Goes(p, "dead")
    BY <1>15, <2>1, RunnerGoes DEF LauncherRefuses, RevivalTypeOK, StartReported
  <2>2. CASE UNCHANGED runner
    BY <1>15, <2>2 DEF LauncherRefuses, RevivalTypeOK, StartReported
  <2> QED
    BY <1>15, <2>1, <2>2 DEF LauncherRefuses
<1>16. ASSUME NEW p \in Revival, AnnouncesWriter(p) PROVE StartInv'
  <2>1. PICK pc \in {"spawning", "release"} : Goes(p, pc)
    BY <1>16 DEF AnnouncesWriter
  <2>2. RevivalTypeOK'
    <3>1. /\ lease' \in Leases
          /\ writer' \in [Revival -> {"none", "up", "ended"}]
          /\ spawned' \in [Revival -> Nat]
      BY <1>16, LeaseFacts DEF AnnouncesWriter, RevivalTypeOK
    <3>2. /\ runner' \in [Revival -> Runners] /\ runner'[p].pc = pc
          /\ \A q \in Revival : q # p => runner'[q] = runner[q]
      BY <2>1, RunnerGoes
    <3> QED
      BY <1>16, <3>1, <3>2 DEF AnnouncesWriter, RevivalTypeOK
  <2>3. StartReported'
    BY <1>16, <2>1, RunnerGoes DEF AnnouncesWriter, RevivalTypeOK, StartReported
  <2> QED
    BY <2>2, <2>3
<1>17. ASSUME NEW p \in Revival, SpawnsWriter(p) PROVE StartInv'
  <2>1. PICK pc \in {"register", "writing"} : Goes(p, pc)
    BY <1>17 DEF SpawnsWriter
  <2>2. RevivalTypeOK'
    <3>1. /\ lease' \in Leases
          /\ writer' \in [Revival -> {"none", "up", "ended"}]
          /\ spawned' \in [Revival -> Nat]
      BY <1>17, LeaseFacts DEF SpawnsWriter, RevivalTypeOK
    <3>2. /\ runner' \in [Revival -> Runners] /\ runner'[p].pc = pc
          /\ \A q \in Revival : q # p => runner'[q] = runner[q]
      BY <2>1, RunnerGoes
    <3> QED
      BY <1>17, <3>1, <3>2 DEF SpawnsWriter, RevivalTypeOK
  <2>3. StartReported'
    BY <1>17, <2>1, RunnerGoes DEF SpawnsWriter, RevivalTypeOK, StartReported
  <2> QED
    BY <2>2, <2>3
<1>18. ASSUME NEW p \in Revival, RegistersWriter(p) PROVE StartInv'
  <2>1. PICK pc \in {"writing"} : Goes(p, pc)
    BY <1>18 DEF RegistersWriter
  <2>2. RevivalTypeOK'
    <3>1. /\ lease' \in Leases
          /\ writer' \in [Revival -> {"none", "up", "ended"}]
          /\ spawned' \in [Revival -> Nat]
      <4>1. lease' \in {lease, Owned(p, "running", spawned[p])} /\ spawned[p] \in Nat
        BY <1>18 DEF RegistersWriter, RevivalTypeOK
      <4>2. lease' \in Leases
        BY <4>1, LeaseFacts DEF RevivalTypeOK
      <4> QED
        BY <1>18, <4>2 DEF RegistersWriter, RevivalTypeOK
    <3>2. /\ runner' \in [Revival -> Runners] /\ runner'[p].pc = pc
          /\ \A q \in Revival : q # p => runner'[q] = runner[q]
      BY <2>1, RunnerGoes
    <3> QED
      BY <1>18, <3>1, <3>2 DEF RegistersWriter, RevivalTypeOK
  <2>3. StartReported'
    BY <1>18, <2>1, RunnerGoes DEF RegistersWriter, RevivalTypeOK, StartReported
  <2> QED
    BY <2>2, <2>3
<1>19. ASSUME NEW p \in Revival, WriterCloses(p) PROVE StartInv'
  <2>1. PICK pc \in {"idle"} : Goes(p, pc)
    BY <1>19 DEF WriterCloses
  <2>2. RevivalTypeOK'
    <3>1. /\ lease' \in Leases
          /\ writer' \in [Revival -> {"none", "up", "ended"}]
          /\ spawned' \in [Revival -> Nat]
      BY <1>19, LeaseFacts DEF WriterCloses, RevivalTypeOK
    <3>2. /\ runner' \in [Revival -> Runners] /\ runner'[p].pc = pc
          /\ \A q \in Revival : q # p => runner'[q] = runner[q]
      BY <2>1, RunnerGoes
    <3> QED
      BY <1>19, <3>1, <3>2 DEF WriterCloses, RevivalTypeOK
  <2>3. StartReported'
    BY <1>19, <2>1, RunnerGoes DEF WriterCloses, RevivalTypeOK, StartReported
  <2> QED
    BY <2>2, <2>3
<1>20. ASSUME NEW p \in Revival, Releases(p) PROVE StartInv'
  <2>1. PICK pc \in {"remove", "over"} : Goes(p, pc)
    BY <1>20 DEF Releases
  <2>2. RevivalTypeOK'
    <3>1. /\ lease' \in Leases
          /\ writer' \in [Revival -> {"none", "up", "ended"}]
          /\ spawned' \in [Revival -> Nat]
      <4>1. lease' \in {lease, Empty} /\ UNCHANGED <<writer, spawned>>
        BY <1>20 DEF Releases
      <4> QED
        BY <4>1, LeaseFacts DEF RevivalTypeOK
    <3>2. /\ runner' \in [Revival -> Runners] /\ runner'[p].pc = pc
          /\ \A q \in Revival : q # p => runner'[q] = runner[q]
      BY <2>1, RunnerGoes
    <3> QED
      BY <1>20, <3>1, <3>2 DEF Releases, RevivalTypeOK
  <2>3. StartReported'
    BY <1>20, <2>1, RunnerGoes DEF Releases, RevivalTypeOK, StartReported
  <2> QED
    BY <2>2, <2>3
<1>21. CASE UNCHANGED revivalVars
  BY <1>21 DEF revivalVars, RevivalTypeOK, StartReported
<1> QED
  BY <1>1, <1>2, <1>3, <1>4, <1>5, <1>6, <1>7, <1>8, <1>9, <1>10, <1>11, <1>12, <1>13, <1>14, <1>15, <1>16, <1>17, <1>18, <1>19, <1>20, <1>21 DEF RevivalNext

\* The invariant is inductive.
LEMMA RevivalInvNext == RevivalInv /\ [RevivalNext]_revivalVars => RevivalInv'
<1> SUFFICES ASSUME RevivalInv, [RevivalNext]_revivalVars PROVE RevivalInv'
  OBVIOUS
<1>1. StartInv'
  BY StartStep DEF RevivalInv
<1>2. ASSUME ~ misread' PROVE LeaseInv'
  <2>1. StartInv /\ LeaseInv
    BY <1>2, MisreadStays DEF RevivalInv
  <2>2. CASE RevivalNext
    BY <1>2, <2>1, <2>2, CreatedInv, OccupiedInv, GivenUpInv, ReadInv, ProbedInv, ReclaimedInv,
       AcknowledgesInv, ProceedsInv, TimesOutInv, AcksInv, StartsInv, RefusesInv, LauncherDiesInv,
       DiesInv, AnnouncesInv, SpawnsInv, RegistersInv, EndsInv, ClosesInv, FinishesInv, ReleasesInv,
       RemovesInv
       DEF RevivalNext
  <2>3. CASE UNCHANGED revivalVars
    BY <2>1, <2>3 DEF revivalVars, LeaseInv, HolderKept, WriterRecorded, TombstonesOfDead, SeenIsStale,
                      LeaseSays, OwnedBy
  <2> QED
    BY <2>2, <2>3
<1> QED
  BY <1>1, <1>2 DEF RevivalInv

-----------------------------------------------------------------------------
(***************************************************************************)
(* The types, in every state.                                              *)
(***************************************************************************)
THEOREM RevivalTypeCorrect == RevivalSpec => []RevivalTypeOK
<1>1. RevivalInv => RevivalTypeOK
  BY DEF RevivalInv, StartInv
<1> QED
  BY <1>1, RevivalInvInit, RevivalInvNext, PTL DEF RevivalSpec

\* A set all of whose elements are the same has at most one.
LEMMA AtMostOne ==
    ASSUME NEW S, \A x, y \in S : x = y
    PROVE  Cardinality(S) <= 1
<1>1. CASE S = {}
  BY <1>1, FS_EmptySet
<1>2. CASE S # {}
  <2>1. PICK x : S = {x}
    BY <1>2
  <2> QED
    BY <2>1, FS_Singleton
<1> QED
  BY <1>1, <1>2

(***************************************************************************)
(* Two Pi children never write the same session file, as long as no        *)
(* contender took a lease for stale by a record of it that was out of date *)
(* (session-lease.ts, between the read at 280 and the probe at 281): the   *)
(* lease of a child that lives is never taken from it.                     *)
(***************************************************************************)
THEOREM SessionExclusiveHolds == RevivalSpec => []SessionExclusive
<1>1. RevivalInv => SessionExclusive
  <2> SUFFICES ASSUME LeaseInv PROVE OneWriter
    BY DEF RevivalInv, SessionExclusive
  <2>1. \A p, q \in {p \in Revival : writer[p] = "up"} : p = q
    BY DEF LeaseInv, WriterRecorded, LeaseSays, OwnedBy
  <2> QED
    BY <2>1, AtMostOne DEF OneWriter
<1> QED
  BY <1>1, RevivalInvInit, RevivalInvNext, PTL DEF RevivalSpec

(***************************************************************************)
(* A revival reported as refused has no child, and never gets one          *)
(* (async-execution.ts, spawnRunner).                                      *)
(***************************************************************************)
THEOREM RefusedNeverRunsHolds == RevivalSpec => []RefusedNeverRuns
<1>1. RevivalInv => RefusedNeverRuns
  BY DEF RevivalInv, StartInv, StartReported, RefusedNeverRuns
<1> QED
  BY <1>1, RevivalInvInit, RevivalInvNext, PTL DEF RevivalSpec
===============================================================================
