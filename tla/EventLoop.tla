------------------------------ MODULE EventLoop ------------------------------
(***************************************************************************)
(* The event loops of the workers that share the listening sockets:        *)
(* ngx_process_events_and_timers, the accept mutex, ngx_event_accept, the   *)
(* connection pool and its reusable connections, posted events, and epoll   *)
(* (event/ngx_event.c, ngx_event_accept.c, ngx_event_posted.c,             *)
(* modules/ngx_epoll_module.c, core/ngx_connection.c, ngx_shmtx.c).        *)
(*                                                                         *)
(* A worker is single-threaded: a step is one call that other workers can  *)
(* see, or one handler.  Handlers of accepted connections are abstract:    *)
(* one reads and waits, becomes idle, closes its connection, or connects   *)
(* to an upstream, which takes another connection from the pool.           *)
(*                                                                         *)
(* The pool leaves out the connections of the listening sockets.  Timers   *)
(* other than the one that re-enables accepting are in Timers.             *)
(***************************************************************************)
EXTENDS Integers, Sequences, FiniteSets, Functions

CONSTANTS Workers,      \* worker slots, 1..n; a slot number stands for the pid
          Sockets,      \* listening sockets
          Connections,  \* worker_connections
          Share,        \* the divisor 8 of the accept_disabled rule
          MaxClients,   \* bound: connections that arrive
          Modes         \* set of [mutex, multi, connects, faults]: accept_mutex, multi_accept
                        \* and the bounds of the connections that handlers open and of the
                        \* deaths, shutdowns, EMFILE and epoll_ctl failures

NoSocket == "none"

ASSUME EventLoopAssumption ==
    /\ Workers \subseteq Nat \ {0} /\ NoSocket \notin Sockets
    /\ Connections \in Nat \ {0} /\ Share \in Nat \ {0}
    /\ \A m \in Modes : m.mutex \in BOOLEAN

Conns == 1..Connections

VARIABLES mode,     \* the configuration
          worker,   \* the memory and epoll set of each worker
          lock,     \* the accept mutex: 0 or the pid of its owner
          backlog,  \* connections waiting on each socket
          count     \* bounds used up: clients, connects, faults
vars == <<mode, worker, lock, backlog, count>>

\* taken is a history variable: how often the structure has been taken since the last
\* epoll_wait().
FreeConn == [open |-> FALSE, inst |-> 0, reusable |-> FALSE, taken |-> 0]

\* ngx_event_process_init.
Fresh(mutex) ==
    [pc |-> "begin", listening |-> TRUE, mutex |-> mutex, held |-> FALSE, disabled |-> 0, posting |-> FALSE,
     active |-> IF mutex THEN {} ELSE Sockets, timers |-> {}, emfile |-> FALSE,
     conns |-> [c \in Conns |-> FreeConn], free |-> [c \in Conns |-> c],
     reuse |-> <<>>, batch |-> {}, accepts |-> {}, posted |-> {},
     cur |-> NoSocket, ret |-> "begin", misfired |-> FALSE]

-----------------------------------------------------------------------------
(* The connection pool *)

\* ngx_queue_remove.
Without(s, c) ==
    LET k == CHOOSE j \in DOMAIN s : s[j] = c
    IN  IF c \in Range(s) THEN SubSeq(s, 1, k - 1) \o SubSeq(s, k + 1, Len(s)) ELSE s

SetReusable(w, c, on) ==
    [w EXCEPT !.conns[c].reusable = on,
              !.reuse = IF on THEN <<c>> \o Without(@, c) ELSE Without(@, c)]

CloseConnection(w, c) ==
    [SetReusable(w, c, FALSE) EXCEPT !.conns[c].open = FALSE, !.free = <<c>> \o @,
                                     !.posted = @ \ {c}]

\* ngx_drain_connections: up to 32 idle connections, the oldest first, are closed by
\* their read handlers.
DrainConnections(w) ==
    LET kept == IF Len(w.reuse) <= 32 THEN 0 ELSE Len(w.reuse) - 32
        gone == SubSeq(w.reuse, kept + 1, Len(w.reuse))
    IN  [w EXCEPT !.conns = [c \in Conns |-> IF c \notin Range(gone) THEN @[c]
                                ELSE [@[c] EXCEPT !.open = FALSE, !.reusable = FALSE]],
                  !.free = gone \o @,
                  !.reuse = SubSeq(@, 1, kept),
                  !.posted = @ \ Range(gone)]

\* ngx_get_connection: the instance bit of the structure flips.  The result differs
\* from the argument's in its opened connection, or has none free.
GetKeepsInstance(w) ==
    LET d == IF w.free = <<>> THEN DrainConnections(w) ELSE w
        c == Head(d.free)
    IN  IF d.free = <<>> THEN d
        ELSE [d EXCEPT !.free = Tail(@),
                       !.conns[c] = [open |-> TRUE, inst |-> @.inst, reusable |-> FALSE,
                                     taken |-> IF d.batch = {} THEN 0 ELSE @.taken + 1]]
GetConnection(w) ==
    LET d == IF w.free = <<>> THEN DrainConnections(w) ELSE w
        c == Head(d.free)
    IN  IF d.free = <<>> THEN d
        ELSE [d EXCEPT !.free = Tail(@),
                       !.conns[c] = [open |-> TRUE, inst |-> 1 - @.inst, reusable |-> FALSE,
                                     taken |-> IF d.batch = {} THEN 0 ELSE @.taken + 1]]

\* What a read or write handler of an accepted connection may do.
HandlerResults(w, c, connect) ==
    {SetReusable(w, c, TRUE), SetReusable(w, c, FALSE), CloseConnection(w, c)}
       \cup (IF connect THEN {GetConnection(SetReusable(w, c, FALSE))} ELSE {})

-----------------------------------------------------------------------------
(* ngx_process_events_and_timers *)

Set(i, w) == worker' = [worker EXCEPT ![i] = w]
Fault == /\ count.faults < mode.faults
         /\ count' = [count EXCEPT !.faults = @ + 1]

\* The top of the loop: a worker short of connections sits out one turn of the mutex;
\* otherwise ngx_trylock_accept_mutex.
Begin(i) ==
    LET w == worker[i]
    IN  /\ w.pc = "begin"
        /\ \/ ~w.mutex /\ Set(i, [w EXCEPT !.pc = "wait"])
              /\ UNCHANGED <<lock, count>>
           \/ w.mutex /\ w.disabled > 0
              /\ Set(i, [w EXCEPT !.pc = "wait", !.disabled = @ - 1, !.posting = FALSE])
              /\ UNCHANGED <<lock, count>>
           \/ w.mutex /\ w.disabled <= 0 /\ lock = 0
              /\ lock' = i
              /\ Set(i, [w EXCEPT !.pc = "wait", !.held = TRUE, !.posting = TRUE,
                                  !.active = IF w.held THEN @ ELSE Sockets])
              /\ UNCHANGED count
           \/ w.mutex /\ w.disabled <= 0 /\ lock # 0
              /\ Set(i, [w EXCEPT !.pc = "wait", !.held = FALSE, !.posting = FALSE,
                                  !.active = IF w.held THEN {} ELSE @])
              /\ UNCHANGED <<lock, count>>
        /\ UNCHANGED <<mode, backlog>>

\* epoll_ctl fails while the sockets are enabled or disabled: the turn is given up
\* with only some of them changed, and the mutex is not kept.
BeginFails(i) ==
    LET w == worker[i]
    IN  /\ w.pc = "begin" /\ w.mutex /\ w.disabled <= 0
        /\ \/ lock = 0 /\ ~w.held
              /\ \E s \in Sockets \ w.active : \E a \in SUBSET (Sockets \ {s}) :
                    w.active \subseteq a /\ Set(i, [w EXCEPT !.active = a])
           \/ lock # 0 /\ w.held
              /\ \E s \in w.active : \E a \in SUBSET w.active :
                    s \in a /\ Set(i, [w EXCEPT !.active = a])
        /\ Fault
        /\ UNCHANGED <<mode, lock, backlog>>

\* epoll_wait: sockets are level-triggered, connections edge-triggered.  With
\* NGX_POST_EVENTS ngx_epoll_process_events only queues the events, which no other
\* process sees.  The order of the events is the kernel's: any of those left may be next.
Wait(i) ==
    LET w     == worker[i]
        socks == {s \in w.active : backlog[s] > 0}
        v     == [w EXCEPT !.pc = "dispatch", !.emfile = FALSE]
    IN  /\ w.pc = "wait"
        /\ \E ready \in SUBSET {c \in Conns : w.conns[c].open} :
             \/ w.posting /\ Set(i, [v EXCEPT !.accepts = socks, !.posted = ready])
             \/ ~w.posting
                /\ Set(i, [v EXCEPT !.batch =
                       {[sock |-> s, c |-> 0, inst |-> 0] : s \in socks}
                       \cup {[sock |-> NoSocket, c |-> c, inst |-> w.conns[c].inst] : c \in ready}])
        /\ UNCHANGED <<mode, lock, backlog, count>>

\* The loop over the events, when their handlers run at once.
Dispatch(i) ==
    LET w == worker[i]
    IN  /\ w.pc = "dispatch"
        /\ \E e \in w.batch :
             LET v == [w EXCEPT !.batch = @ \ {e}]
                 stale == ~w.conns[e.c].open \/ w.conns[e.c].inst # e.inst
             IN  \/ e.sock # NoSocket
                    /\ Set(i, [v EXCEPT !.pc = "accept", !.cur = e.sock, !.ret = "dispatch"])
                    /\ UNCHANGED count
                 \/ e.sock = NoSocket /\ stale /\ Set(i, v)
                    /\ UNCHANGED count
                 \/ e.sock = NoSocket /\ ~stale
                    /\ \E connect \in BOOLEAN :
                         \E r \in HandlerResults([v EXCEPT !.misfired = w.conns[e.c].taken = 1],
                                                 e.c, connect) :
                           /\ connect => count.connects < mode.connects
                           /\ count' = [count EXCEPT !.connects = IF connect THEN @ + 1 ELSE @]
                           /\ Set(i, r)
        /\ UNCHANGED <<mode, lock, backlog>>

\* The posted accept events run before the mutex is released.
PostedAccept(i) ==
    LET w == worker[i]
    IN  /\ w.pc = "dispatch" /\ w.batch = {}
        /\ \E s \in w.accepts :
             Set(i, [w EXCEPT !.pc = "accept", !.cur = s, !.ret = "dispatch",
                              !.accepts = @ \ {s}])
        /\ UNCHANGED <<mode, lock, backlog, count>>

Unlock(i) == lock' = IF worker[i].held /\ lock = i THEN 0 ELSE lock

\* The history of the batch ends with it.
Release(i) ==
    LET w == worker[i]
    IN  /\ w.pc = "dispatch" /\ w.batch = {} /\ w.accepts = {}
        /\ Unlock(i)
        /\ Set(i, [w EXCEPT !.pc = IF w.timers # {} THEN "timers"
                                  ELSE IF w.posted # {} THEN "posted" ELSE "begin",
                            !.conns = [c \in Conns |-> [@[c] EXCEPT !.taken = 0]]])
        /\ UNCHANGED <<mode, backlog, count>>

\* ngx_event_expire_timers, here the timer of an accept event (EMFILE without the
\* mutex): its handler enables the sockets again and accepts.
AcceptTimer(i) ==
    LET w == worker[i]
    IN  /\ w.pc = "timers"
        /\ \E s \in w.timers :
             Set(i, [w EXCEPT !.timers = @ \ {s}, !.active = Sockets, !.pc = "accept",
                              !.cur = s, !.ret = "timers"])
        /\ UNCHANGED <<mode, lock, backlog, count>>

Timers(i) ==
    /\ worker[i].pc = "timers"
    /\ Set(i, [worker[i] EXCEPT !.pc = "posted"])
    /\ UNCHANGED <<mode, lock, backlog, count>>

\* ngx_event_process_posted.
Posted(i) ==
    LET w == worker[i]
    IN  /\ w.pc = "posted"
        /\ \/ w.posted = {} /\ Set(i, [w EXCEPT !.pc = "begin"]) /\ UNCHANGED count
           \/ \E c \in w.posted, connect \in BOOLEAN :
                   /\ connect => count.connects < mode.connects
                   /\ count' = [count EXCEPT !.connects = IF connect THEN @ + 1 ELSE @]
                   /\ \E r \in HandlerResults([w EXCEPT !.posted = @ \ {c}], c, connect) :
                         Set(i, r)
        /\ UNCHANGED <<mode, lock, backlog>>

-----------------------------------------------------------------------------
(* ngx_event_accept, one accept() per step *)

\* A descriptor is accepted; it is closed again when the pool has no connection for it.
Accept(i) ==
    LET w == worker[i]
        v == [w EXCEPT !.disabled = Connections \div Share - Len(w.free)]
        g == GetConnection(v)
        full == w.free = <<>> /\ w.reuse = <<>>
    IN  /\ w.pc = "accept" /\ backlog[w.cur] > 0
        /\ backlog' = [backlog EXCEPT ![w.cur] = @ - 1]
        /\ Set(i, IF mode.multi /\ ~full THEN g
                  ELSE [g EXCEPT !.pc = w.ret, !.cur = NoSocket])
        /\ UNCHANGED <<mode, lock, count>>

\* EAGAIN: another worker was faster, or the backlog is drained.
AcceptNothing(i) ==
    LET w == worker[i]
    IN  /\ w.pc = "accept" /\ backlog[w.cur] = 0
        /\ Set(i, [w EXCEPT !.pc = w.ret, !.cur = NoSocket])
        /\ UNCHANGED <<mode, lock, backlog, count>>

\* EMFILE or ENFILE: stop accepting for a turn, or for accept_mutex_delay.
AcceptFails(i) ==
    LET w == worker[i]
    IN  /\ w.pc = "accept" /\ backlog[w.cur] > 0
        /\ Fault
        /\ Set(i, [w EXCEPT !.pc = w.ret, !.cur = NoSocket, !.active = {}, !.emfile = TRUE,
                            !.held = FALSE,
                            !.disabled = IF w.mutex THEN 1 ELSE @,
                            !.timers = IF w.mutex THEN @ ELSE @ \cup {w.cur}])
        /\ Unlock(i)
        /\ UNCHANGED <<mode, backlog>>

-----------------------------------------------------------------------------
(* Processes and clients *)

Others(i) == {j \in Workers \ {i} : worker[j].listening}

\* ngx_close_listening_sockets, when a graceful shutdown begins; another worker goes on.
Quit(i) ==
    LET w == worker[i]
    IN  /\ w.pc = "begin" /\ w.listening /\ Others(i) # {}
        /\ Fault
        /\ Set(i, [w EXCEPT !.listening = FALSE, !.held = FALSE, !.mutex = FALSE, !.active = {}, !.timers = {},
                            !.posting = FALSE])
        /\ UNCHANGED <<mode, lock, backlog>>

Die(i) ==
    /\ worker[i].pc # "dead"
    /\ Fault
    /\ Set(i, [Fresh(mode.mutex) EXCEPT !.pc = "dead"])
    /\ UNCHANGED <<mode, lock, backlog>>

\* ngx_unlock_mutexes, when the master has waited for the dead worker.
UnlockMutexesNone(i) == lock' = lock
UnlockMutexes(i) == lock' = IF lock = i THEN 0 ELSE lock

Reap(i) ==
    /\ worker[i].pc = "dead"
    /\ UnlockMutexes(i)
    /\ Set(i, Fresh(mode.mutex))
    /\ UNCHANGED <<mode, backlog, count>>

Arrive(s) ==
    /\ count.clients < MaxClients
    /\ count' = [count EXCEPT !.clients = @ + 1]
    /\ backlog' = [backlog EXCEPT ![s] = @ + 1]
    /\ UNCHANGED <<mode, worker, lock>>

Init ==
    /\ mode \in Modes
    /\ worker = [i \in Workers |-> Fresh(mode.mutex)]
    /\ lock = 0
    /\ backlog = [s \in Sockets |-> 0]
    /\ count = [clients |-> 0, connects |-> 0, faults |-> 0]

Step(i) == \/ Begin(i) \/ Wait(i) \/ Dispatch(i) \/ PostedAccept(i) \/ Release(i)
           \/ AcceptTimer(i) \/ Timers(i) \/ Posted(i) \/ Accept(i) \/ AcceptNothing(i)
           \/ Reap(i)

Next == \/ \E i \in Workers : Step(i) \/ BeginFails(i) \/ AcceptFails(i) \/ Quit(i) \/ Die(i)
        \/ \E s \in Sockets : Arrive(s)

Spec == Init /\ [][Next]_vars
\* A worker's loop goes round: epoll_wait returns at the latest after its timeout, which
\* the accept mutex delay and the timers bound; the master reaps the dead.
FairSpec == Spec /\ \A i \in Workers : WF_vars(Step(i)) /\ SF_vars(AcceptTimer(i))
-----------------------------------------------------------------------------
TypeOK ==
    /\ lock \in Workers \cup {0}
    /\ \A i \in Workers :
         LET w == worker[i]
         IN  /\ w.pc \in {"begin", "wait", "dispatch", "accept", "timers", "posted", "dead"}
             /\ w.active \subseteq Sockets /\ w.timers \subseteq Sockets
             /\ w.disabled \in -Connections..(Connections \div Share)
             /\ \A q \in {w.free, w.reuse} : Range(q) \subseteq Conns

\* The free list holds exactly the structures without a descriptor, and the queue of
\* reusable connections exactly the idle open ones: whatever handlers, drains and
\* closes do in one turn, no structure is handed out twice or lost.
PoolConsistent ==
    \A i \in Workers :
        LET w == worker[i]
        IN  /\ IsInjective(w.free) /\ IsInjective(w.reuse)
            /\ Range(w.free) = {c \in Conns : ~w.conns[c].open}
            /\ Range(w.reuse) = {c \in Conns : w.conns[c].reusable}
            /\ \A c \in Conns : w.conns[c].reusable => w.conns[c].open

\* An event left in the posted queue belongs to an open connection: a handler that
\* closes other connections, as draining does, takes their events out.
PostedAreOpen ==
    \A i \in Workers : \A c \in worker[i].posted : worker[i].conns[c].open

\* No handler runs for an event that the kernel reported for the previous use of the
\* connection structure, closed and taken again while the batch was processed.
NoStaleHandler == \A i \in Workers : ~worker[i].misfired

\* A worker that queues its accept events holds the mutex until it has run them, unless
\* it ran out of descriptors on the way and gave the mutex up.
AcceptUnderMutex ==
    \A i \in Workers :
        LET w == worker[i]
        IN  w.posting /\ w.pc \in {"wait", "dispatch", "accept"} =>
                lock = i \/ w.emfile

\* Every connection that arrives is taken from its socket, even if the owner of the
\* mutex dies, runs out of descriptors or shuts down.  The exception: an epoll_ctl failure
\* that leaves a worker with the mutex and only some of the sockets enabled.
BacklogDrained == <>[](\/ \A s \in Sockets : backlog[s] = 0
                       \/ \E i \in Workers : worker[i].held /\ worker[i].active # Sockets)

=============================================================================
