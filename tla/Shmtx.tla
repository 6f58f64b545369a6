-------------------------------- MODULE Shmtx --------------------------------
(***************************************************************************)
(* The mutex of a shared memory zone (core/ngx_shmtx.c, the build with      *)
(* atomic operations and POSIX semaphores): a lock word taken by            *)
(* compare-and-swap, a count of waiters and a semaphore for those that      *)
(* spun in vain.  A process may die anywhere; the master then unlocks the   *)
(* mutex by force (ngx_unlock_mutexes).                                     *)
(***************************************************************************)
EXTENDS Integers, FiniteSets

CONSTANTS Procs,      \* the processes that share the zone
          MaxRounds,  \* bound: calls of ngx_shmtx_lock
          MaxDeaths   \* bound: processes that die

ASSUME ShmtxAssumption == /\ IsFiniteSet(Procs) /\ "nobody" \notin Procs
                          /\ MaxRounds \in Nat /\ MaxDeaths \in Nat

VARIABLES lock,   \* *mtx->lock: "nobody" for 0, or the pid
          wait,   \* *mtx->wait
          sem,    \* the value of the semaphore
          pc,     \* where each process is
          seen,   \* the value of *mtx->wait that ngx_shmtx_wakeup has read
          rounds, deaths
vars == <<lock, wait, sem, pc, seen, rounds, deaths>>

\* Where a process can be: outside; trying to take the lock; about to count itself as
\* waiting; trying once more; asleep; inside; about to wake a waiter (reading the
\* count, swapping it, posting); dead.
Places == {"out", "try", "count", "retry", "asleep", "in", "read", "swap", "post", "dead"}

At(place) == {p \in Procs : pc[p] = place}

-----------------------------------------------------------------------------
Lock(p) ==
    /\ pc[p] = "out" /\ rounds < MaxRounds
    /\ rounds' = rounds + 1
    /\ pc' = [pc EXCEPT ![p] = "try"]
    /\ UNCHANGED <<lock, wait, sem, seen, deaths>>

\* The first compare-and-swap and those of the spin loop, and the one after the process
\* has counted itself.
TakeOnlyOnce(p) ==
    /\ pc[p] = "try" /\ lock = "nobody"
    /\ lock' = p
    /\ pc' = [pc EXCEPT ![p] = "in"]
    /\ UNCHANGED <<wait, sem, seen, rounds, deaths>>
Take(p) ==
    /\ pc[p] \in {"try", "retry"} /\ lock = "nobody"
    /\ lock' = p
    /\ pc' = [pc EXCEPT ![p] = "in"]
    /\ UNCHANGED <<wait, sem, seen, rounds, deaths>>

SpunInVain(p) ==
    /\ pc[p] = "try" /\ lock # "nobody"
    /\ pc' = [pc EXCEPT ![p] = "count"]
    /\ UNCHANGED <<lock, wait, sem, seen, rounds, deaths>>

CountSleeps(p) ==
    /\ pc[p] = "count"
    /\ wait' = wait + 1
    /\ pc' = [pc EXCEPT ![p] = "asleep"]
    /\ UNCHANGED <<lock, sem, seen, rounds, deaths>>
Count(p) ==
    /\ pc[p] = "count"
    /\ wait' = wait + 1
    /\ pc' = [pc EXCEPT ![p] = "retry"]
    /\ UNCHANGED <<lock, sem, seen, rounds, deaths>>

Sleep(p) ==
    /\ pc[p] = "retry" /\ lock # "nobody"
    /\ pc' = [pc EXCEPT ![p] = "asleep"]
    /\ UNCHANGED <<lock, wait, sem, seen, rounds, deaths>>

\* sem_wait returns; EINTR goes back to sleep and is a stutter.
Awake(p) ==
    /\ pc[p] = "asleep" /\ sem > 0
    /\ sem' = sem - 1
    /\ pc' = [pc EXCEPT ![p] = "try"]
    /\ UNCHANGED <<lock, wait, seen, rounds, deaths>>

-----------------------------------------------------------------------------
Unlock(p) ==
    /\ pc[p] = "in"
    /\ lock' = IF lock = p THEN "nobody" ELSE lock
    /\ pc' = [pc EXCEPT ![p] = IF lock = p THEN "read" ELSE "out"]
    /\ UNCHANGED <<wait, sem, seen, rounds, deaths>>

Read(p) ==
    /\ pc[p] = "read"
    /\ seen' = [seen EXCEPT ![p] = wait]
    /\ pc' = [pc EXCEPT ![p] = IF wait = 0 THEN "out" ELSE "swap"]
    /\ UNCHANGED <<lock, wait, sem, rounds, deaths>>

Swap(p) ==
    /\ pc[p] = "swap"
    /\ wait' = IF wait = seen[p] THEN wait - 1 ELSE wait
    /\ pc' = [pc EXCEPT ![p] = IF wait = seen[p] THEN "post" ELSE "read"]
    /\ UNCHANGED <<lock, sem, seen, rounds, deaths>>

Post(p) ==
    /\ pc[p] = "post"
    /\ sem' = sem + 1
    /\ pc' = [pc EXCEPT ![p] = "out"]
    /\ UNCHANGED <<lock, wait, seen, rounds, deaths>>

-----------------------------------------------------------------------------
Die(p) ==
    /\ pc[p] # "dead" /\ deaths < MaxDeaths
    /\ deaths' = deaths + 1
    /\ pc' = [pc EXCEPT ![p] = "dead"]
    /\ UNCHANGED <<lock, wait, sem, seen, rounds>>

\* ngx_shmtx_force_unlock: the master frees the lock of the process it has waited for and
\* wakes a waiter; the place of the dead process stands for the master meanwhile, and
\* for the process that replaces it.
ForceUnlockAny(p) ==
    /\ pc[p] = "dead"
    /\ lock' = "nobody"
    /\ pc' = [pc EXCEPT ![p] = "read"]
    /\ UNCHANGED <<wait, sem, seen, rounds, deaths>>
ForceUnlock(p) ==
    /\ pc[p] = "dead"
    /\ lock' = IF lock = p THEN "nobody" ELSE lock
    /\ pc' = [pc EXCEPT ![p] = IF lock = p THEN "read" ELSE "out"]
    /\ UNCHANGED <<wait, sem, seen, rounds, deaths>>

Init ==
    /\ lock = "nobody" /\ wait = 0 /\ sem = 0
    /\ pc = [p \in Procs |-> "out"]
    /\ seen = [p \in Procs |-> 0]
    /\ rounds = 0 /\ deaths = 0

Step(p) == \/ Take(p) \/ SpunInVain(p) \/ Count(p) \/ Sleep(p) \/ Awake(p)
           \/ Unlock(p) \/ Read(p) \/ Swap(p) \/ Post(p) \/ ForceUnlock(p)

Next == \E p \in Procs : Lock(p) \/ Step(p) \/ Die(p)

Spec == Init /\ [][Next]_vars
\* A process that is not blocked runs on.
FairSpec == Spec /\ \A p \in Procs : WF_vars(Step(p))

-----------------------------------------------------------------------------
TypeOK ==
    /\ lock \in Procs \cup {"nobody"}
    /\ wait \in Nat /\ sem \in Nat
    /\ pc \in [Procs -> Places]
    /\ seen \in [Procs -> Nat]
    /\ rounds \in 0..MaxRounds /\ deaths \in 0..MaxDeaths

\* At most one process is inside, although the master may free the lock of a process
\* that died in there.
MutualExclusion == \A p, q \in At("in") : p = q

\* Someone who will take the lock or wake a waiter.
Busy == \E p \in Procs : pc[p] \in {"try", "count", "retry", "read", "swap", "post"}

\* While nobody has died, a waiter is not forgotten: if one sleeps although the lock is
\* free, the semaphore has been posted or somebody is about to take the lock or to post.
\* A process that dies with a post it owes, or that took one, can leave the others
\* asleep until the next unlock: histories with a death are left out.
NoLostWakeup ==
    deaths = 0 /\ At("asleep") # {} /\ lock = "nobody" => sem > 0 \/ Busy

\* The processes that have called ngx_shmtx_lock and are not inside yet.
Waiting == {p \in Procs : pc[p] \in {"try", "count", "retry", "asleep"}}

\* While nobody dies: whenever processes wait for the mutex one gets it, and every waiter
\* gets it once no more calls of ngx_shmtx_lock come (rounds is at its bound).  More is
\* not so: a woken process competes with the callers that come by, and nothing in the
\* code bounds how often they are faster.
LockGranted ==
    /\ Waiting # {} ~> At("in") # {} \/ deaths > 0
    /\ \A p \in Procs : p \in Waiting /\ rounds = MaxRounds ~> pc[p] = "in" \/ deaths > 0
=============================================================================
