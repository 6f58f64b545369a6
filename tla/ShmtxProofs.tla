----------------------------- MODULE ShmtxProofs -----------------------------
(***************************************************************************)
(* Proofs about Shmtx, for any finite set of processes and any bounds.      *)
(*                                                                         *)
(* Mutual exclusion rests on who owns the lock.  That no waiter is          *)
(* forgotten rests on a count: every process that has counted itself is     *)
(* matched by a unit of the wait counter, of the semaphore, or by a         *)
(* process that is about to post.                                           *)
(***************************************************************************)
EXTENDS Shmtx, FiniteSetTheorems, TLAPS

\* The processes that the function f puts at a place.
Placed(f, place) == {p \in Procs : f[p] = place}

\* The lock is free or belongs to the process inside, or to one that died there.
Owned ==
    /\ \A p \in Procs : pc[p] = "in" => lock = p
    /\ \A p \in Procs : lock = p => pc[p] \in {"in", "dead"}

\* ngx_shmtx_wakeup swaps only a count that it has seen positive.
SeenPositive == \A p \in Procs : pc[p] = "swap" => seen[p] > 0

\* Nobody is dead before the first death.
NoneDead == deaths = 0 => \A p \in Procs : pc[p] # "dead"

\* The units that waiters can count on cover the waiters.
Covered ==
    deaths = 0 =>
        wait + sem + Cardinality(Placed(pc, "post"))
            >= Cardinality(Placed(pc, "asleep")) + Cardinality(Placed(pc, "retry"))

IInv == TypeOK /\ Owned /\ SeenPositive /\ NoneDead /\ Covered /\ NoLostWakeup

-----------------------------------------------------------------------------
\* The processes at a place are finitely many.
LEMMA PlacedFinite ==
    ASSUME NEW f, NEW z
    PROVE  IsFiniteSet(Placed(f, z)) /\ Cardinality(Placed(f, z)) \in Nat
<1>1. Placed(f, z) \subseteq Procs BY DEF Placed
<1>2. IsFiniteSet(Placed(f, z)) BY <1>1, ShmtxAssumption, FS_Subset
<1> QED BY <1>2, FS_CardinalityType

\* A process that leaves a place makes its count one smaller.
LEMMA Leaves ==
    ASSUME NEW f \in [Procs -> Places], NEW p \in Procs, NEW y \in Places, f[p] # y
    PROVE  Cardinality(Placed([f EXCEPT ![p] = y], f[p])) = Cardinality(Placed(f, f[p])) - 1
<1>1. Placed([f EXCEPT ![p] = y], f[p]) = Placed(f, f[p]) \ {p} BY DEF Placed
<1>2. p \in Placed(f, f[p]) BY DEF Placed
<1> QED BY Zenon, <1>1, <1>2, PlacedFinite, FS_RemoveElement

\* A process that enters a place makes its count one larger.
LEMMA Enters ==
    ASSUME NEW f \in [Procs -> Places], NEW p \in Procs, NEW y \in Places, f[p] # y
    PROVE  Cardinality(Placed([f EXCEPT ![p] = y], y)) = Cardinality(Placed(f, y)) + 1
<1>1. Placed([f EXCEPT ![p] = y], y) = Placed(f, y) \cup {p} BY DEF Placed
<1>2. p \notin Placed(f, y) BY DEF Placed
<1> QED BY Zenon, <1>1, <1>2, PlacedFinite, FS_AddElement

\* The counts of all other places stay.
LEMMA Stays ==
    ASSUME NEW f \in [Procs -> Places], NEW p \in Procs, NEW y \in Places, NEW z,
           z # f[p], z # y
    PROVE  Placed([f EXCEPT ![p] = y], z) = Placed(f, z)
BY DEF Placed

-----------------------------------------------------------------------------
\* Types are preserved by every step of the mutex (the bounds of the counters included).
LEMMA TypeStep == TypeOK /\ SeenPositive /\ [Next]_vars => TypeOK'
<1> SUFFICES ASSUME TypeOK, SeenPositive, [Next]_vars PROVE TypeOK' OBVIOUS
<1> USE DEF TypeOK, Places
<1>1. CASE UNCHANGED vars BY <1>1 DEF vars
<1>2. ASSUME NEW p \in Procs, Lock(p) PROVE TypeOK' BY <1>2, ShmtxAssumption DEF Lock
<1>3. ASSUME NEW p \in Procs, Die(p) PROVE TypeOK' BY <1>3, ShmtxAssumption DEF Die
<1>4. ASSUME NEW p \in Procs, Step(p) PROVE TypeOK'
  <2>1. CASE Take(p) BY <2>1 DEF Take
  <2>2. CASE SpunInVain(p) BY <2>2 DEF SpunInVain
  <2>3. CASE Count(p) BY <2>3 DEF Count
  <2>4. CASE Sleep(p) BY <2>4 DEF Sleep
  <2>5. CASE Awake(p) BY <2>5 DEF Awake
  <2>6. CASE Unlock(p) BY <2>6 DEF Unlock
  <2>7. CASE Read(p) BY <2>7 DEF Read
  <2>8. CASE Swap(p) BY <2>8 DEF Swap, SeenPositive
  <2>9. CASE Post(p) BY <2>9 DEF Post
  <2>10. CASE ForceUnlock(p) BY <2>10 DEF ForceUnlock
  <2> QED BY <1>4, <2>1, <2>2, <2>3, <2>4, <2>5, <2>6, <2>7, <2>8, <2>9, <2>10 DEF Step
<1> QED BY <1>1, <1>2, <1>3, <1>4 DEF Next

\* Who owns the lock, and what a waker has seen, survive every step.
LEMMA OwnerStep ==
    TypeOK /\ Owned /\ SeenPositive /\ NoneDead /\ [Next]_vars
        => Owned' /\ SeenPositive' /\ NoneDead'
<1> SUFFICES ASSUME TypeOK, Owned, SeenPositive, NoneDead, [Next]_vars
             PROVE  Owned' /\ SeenPositive' /\ NoneDead' OBVIOUS
<1> USE ShmtxAssumption DEF TypeOK, Places, Owned, SeenPositive, NoneDead
<1>1. CASE UNCHANGED vars BY <1>1 DEF vars
<1>2. ASSUME NEW p \in Procs, Lock(p) PROVE Owned' /\ SeenPositive' /\ NoneDead'
  BY <1>2 DEF Lock
<1>3. ASSUME NEW p \in Procs, Die(p) PROVE Owned' /\ SeenPositive' /\ NoneDead'
  BY <1>3 DEF Die
<1>4. ASSUME NEW p \in Procs, Step(p) PROVE Owned' /\ SeenPositive' /\ NoneDead'
  <2>1. CASE Take(p) BY <2>1 DEF Take
  <2>2. CASE SpunInVain(p) BY <2>2 DEF SpunInVain
  <2>3. CASE Count(p) BY <2>3 DEF Count
  <2>4. CASE Sleep(p) BY <2>4 DEF Sleep
  <2>5. CASE Awake(p) BY <2>5 DEF Awake
  <2>6. CASE Unlock(p) BY <2>6 DEF Unlock
  <2>7. CASE Read(p) BY <2>7 DEF Read
  <2>8. CASE Swap(p) BY <2>8 DEF Swap
  <2>9. CASE Post(p) BY <2>9 DEF Post
  <2>10. CASE ForceUnlock(p) BY <2>10 DEF ForceUnlock
  <2> QED BY <1>4, <2>1, <2>2, <2>3, <2>4, <2>5, <2>6, <2>7, <2>8, <2>9, <2>10 DEF Step
<1> QED BY <1>1, <1>2, <1>3, <1>4 DEF Next

-----------------------------------------------------------------------------
\* The count survives every step: a process moves from one place to another and at most
\* one unit moves with it.
LEMMA CoveredStep ==
    TypeOK /\ Owned /\ SeenPositive /\ NoneDead /\ Covered /\ [Next]_vars => Covered'
<1> SUFFICES ASSUME TypeOK, Owned, SeenPositive, NoneDead, Covered, [Next]_vars, deaths' = 0
             PROVE  wait' + sem' + Cardinality(Placed(pc', "post"))
                       >= Cardinality(Placed(pc', "asleep")) + Cardinality(Placed(pc', "retry"))
  BY DEF Covered
<1> DEFINE C(z) == Cardinality(Placed(pc, z))
           D(z) == Cardinality(Placed(pc', z))
<1> DEFINE Goal == wait' + sem' + D("post") >= D("asleep") + D("retry")
<1> SUFFICES Goal OBVIOUS
<1>0. /\ C("post") \in Nat /\ C("asleep") \in Nat /\ C("retry") \in Nat
      /\ wait \in Nat /\ sem \in Nat /\ pc \in [Procs -> Places]
  BY PlacedFinite DEF TypeOK
<1>00. deaths = 0
  <2>1. ASSUME NEW p \in Procs, Die(p) PROVE FALSE BY <2>1 DEF Die, TypeOK
  <2>2. ASSUME NEW p \in Procs, Lock(p) PROVE deaths = 0 BY <2>2 DEF Lock
  <2>3. ASSUME NEW p \in Procs, Step(p) PROVE deaths = 0
    BY <2>3 DEF Step, Take, SpunInVain, Count, Sleep, Awake, Unlock, Read, Swap, Post, ForceUnlock
  <2> QED BY <2>1, <2>2, <2>3 DEF Next, vars
<1>000. wait + sem + C("post") >= C("asleep") + C("retry") BY <1>00 DEF Covered
<1>1. CASE UNCHANGED vars BY <1>1, <1>000 DEF vars
<1>2. ASSUME NEW p \in Procs, Lock(p) \/ Step(p) PROVE Goal
  <2> DEFINE x == pc[p]
  <2>0. \A y \in Places, z \in {"post", "asleep", "retry"} :
           pc' = [pc EXCEPT ![p] = y] /\ x # y =>
              D(z) = IF z = x THEN C(z) - 1 ELSE IF z = y THEN C(z) + 1 ELSE C(z)
    <3> SUFFICES ASSUME NEW y \in Places, NEW z \in {"post", "asleep", "retry"},
                        pc' = [pc EXCEPT ![p] = y], x # y
                 PROVE  D(z) = IF z = x THEN C(z) - 1 ELSE IF z = y THEN C(z) + 1 ELSE C(z)
      BY Zenon
    <3>1. CASE z = x BY Zenon, <3>1, <1>0, Leaves
    <3>2. CASE z # x /\ z = y BY Zenon, <3>2, <1>0, Enters
    <3>3. CASE z # x /\ z # y BY Zenon, <3>3, <1>0, Stays
    <3> QED BY <3>1, <3>2, <3>3
  <2> HIDE DEF C, D
  <2> USE DEF Places
  <2>1. CASE Lock(p) BY <2>1, <2>0, <1>0, <1>000 DEF Lock
  <2>2. CASE Take(p) BY <2>2, <2>0, <1>0, <1>000 DEF Take
  <2>3. CASE SpunInVain(p) BY <2>3, <2>0, <1>0, <1>000 DEF SpunInVain
  <2>4. CASE Count(p) BY <2>4, <2>0, <1>0, <1>000 DEF Count
  <2>5. CASE Sleep(p) BY <2>5, <2>0, <1>0, <1>000 DEF Sleep
  <2>6. CASE Awake(p) BY <2>6, <2>0, <1>0, <1>000 DEF Awake
  <2>7. CASE Unlock(p)
    <3>1. lock = p BY <2>7 DEF Unlock, Owned
    <3> QED BY <3>1, <2>7, <2>0, <1>0, <1>000 DEF Unlock
  <2>8. CASE Read(p)
    <3>1. CASE wait = 0 BY <3>1, <2>8, <2>0, <1>0, <1>000 DEF Read
    <3>2. CASE wait # 0 BY <3>2, <2>8, <2>0, <1>0, <1>000 DEF Read
    <3> QED BY <3>1, <3>2
  <2>9. CASE Swap(p)
    <3>1. CASE wait = seen[p] BY <3>1, <2>9, <2>0, <1>0, <1>000 DEF Swap
    <3>2. CASE wait # seen[p] BY <3>2, <2>9, <2>0, <1>0, <1>000 DEF Swap
    <3> QED BY <3>1, <3>2
  <2>10. CASE Post(p) BY <2>10, <2>0, <1>0, <1>000 DEF Post
  <2>11. CASE ForceUnlock(p) BY <2>11, <1>00 DEF ForceUnlock, NoneDead
  <2> QED BY <1>2, <2>1, <2>2, <2>3, <2>4, <2>5, <2>6, <2>7, <2>8, <2>9, <2>10, <2>11 DEF Step
<1>3. ASSUME NEW p \in Procs, Die(p) PROVE Goal BY <1>3 DEF Die, TypeOK
<1> QED BY <1>1, <1>2, <1>3 DEF Next

\* A step that leaves a waiter asleep with the lock free leaves a post or somebody busy.
LEMMA WakeupStep == IInv /\ [Next]_vars => NoLostWakeup'
<1> SUFFICES ASSUME IInv, [Next]_vars, deaths' = 0, At("asleep")' # {}, lock' = "nobody"
             PROVE  sem' > 0 \/ Busy'
  BY DEF NoLostWakeup
<1> USE DEF IInv, TypeOK, Places
<1>1. CASE UNCHANGED vars BY <1>1 DEF vars, NoLostWakeup, At, Busy
<1>2. ASSUME NEW p \in Procs, Lock(p) PROVE Busy' BY <1>2 DEF Lock, Busy
<1>3. ASSUME NEW p \in Procs, Die(p) PROVE FALSE BY <1>3 DEF Die
<1>4. ASSUME NEW p \in Procs, Step(p) PROVE sem' > 0 \/ Busy'
  <2>1. CASE Take(p) BY <2>1, ShmtxAssumption DEF Take
  <2>2. CASE SpunInVain(p) BY <2>2 DEF SpunInVain, Busy
  <2>3. CASE Count(p) BY <2>3 DEF Count, Busy
  <2>4. CASE Sleep(p) BY <2>4 DEF Sleep
  <2>5. CASE Awake(p) BY <2>5 DEF Awake, Busy
  <2>6. CASE Unlock(p) BY <2>6 DEF Unlock, Busy, Owned
  <2>7. CASE Read(p)
    <3>1. CASE wait # 0 BY <2>7, <3>1 DEF Read, Busy
    <3>2. CASE wait = 0
      <4>1. deaths = 0 BY <2>7 DEF Read
      <4>2. PICK q \in Procs : pc[q] = "asleep" BY Zenon, <2>7, <3>2 DEF Read, At
      <4>3. Cardinality(Placed(pc, "asleep")) > 0
        <5>1. Placed(pc, "asleep") # {} BY <4>2 DEF Placed
        <5> QED BY <5>1, PlacedFinite, FS_EmptySet
      <4>4. CASE sem > 0 BY <4>4, <2>7 DEF Read
      <4>5. CASE sem = 0
        <5>1. Cardinality(Placed(pc, "post")) > 0
          <6> HIDE DEF IInv, TypeOK
          <6>1. sem \in Nat /\ Covered BY DEF IInv, TypeOK
          <6> QED BY <6>1, <3>2, <4>1, <4>3, <4>5, PlacedFinite DEF Covered
        <5>2. Placed(pc, "post") # {} BY <5>1, FS_EmptySet
        <5>3. PICK r \in Procs : pc[r] = "post" BY <5>2 DEF Placed
        <5> QED BY <5>3, <2>7 DEF Read, Busy
      <4> QED BY <4>4, <4>5
    <3> QED BY <3>1, <3>2
  <2>8. CASE Swap(p) BY <2>8 DEF Swap, Busy
  <2>9. CASE Post(p) BY <2>9 DEF Post
  <2>10. CASE ForceUnlock(p) BY <2>10 DEF ForceUnlock, NoneDead
  <2> QED BY <1>4, <2>1, <2>2, <2>3, <2>4, <2>5, <2>6, <2>7, <2>8, <2>9, <2>10 DEF Step
<1> QED BY <1>1, <1>2, <1>3, <1>4 DEF Next

-----------------------------------------------------------------------------
\* The inductive invariant holds of every behaviour of the mutex.
THEOREM InvariantHolds == Spec => []IInv
<1>1. Init => IInv
  <2> SUFFICES ASSUME Init PROVE IInv OBVIOUS
  <2>1. TypeOK /\ Owned /\ SeenPositive /\ NoneDead /\ NoLostWakeup
    BY ShmtxAssumption DEF Init, TypeOK, Places, Owned, SeenPositive, NoneDead, NoLostWakeup, At
  <2>2. Covered
    <3>1. Placed(pc, "asleep") = {} /\ Placed(pc, "retry") = {} BY DEF Init, Placed
    <3>2. wait = 0 /\ sem = 0 BY DEF Init
    <3> QED BY <3>1, <3>2, FS_EmptySet, PlacedFinite DEF Covered
  <2> QED BY <2>1, <2>2 DEF IInv
<1>2. IInv /\ [Next]_vars => IInv' BY TypeStep, OwnerStep, CoveredStep, WakeupStep DEF IInv
<1> QED BY <1>1, <1>2, PTL DEF Spec

\* At most one process is inside the mutex, whatever processes die (ngx_shmtx_lock,
\* ngx_shmtx_unlock and ngx_shmtx_force_unlock).
THEOREM Exclusion == Spec => []MutualExclusion
<1>1. IInv => MutualExclusion BY DEF IInv, Owned, MutualExclusion, At
<1> QED BY <1>1, InvariantHolds, PTL

\* Without deaths no waiter is left asleep with the lock free and nobody about to take
\* it or to wake it (ngx_shmtx_wakeup).
THEOREM Wakeups == Spec => []NoLostWakeup
<1>1. IInv => NoLostWakeup BY DEF IInv
<1> QED BY <1>1, InvariantHolds, PTL
=============================================================================
