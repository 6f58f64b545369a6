---------------------------- MODULE ProcessCycle ----------------------------
(***************************************************************************)
(* The processes of one nginx instance: the master's loop, its table of    *)
(* children, the channels to them, signals and deaths                      *)
(* (os/unix/ngx_process_cycle.c, ngx_process.c, ngx_channel.c).            *)
(*                                                                         *)
(* The master blocks its signals outside sigsuspend(), so one turn of its  *)
(* loop, the handlers of the signals pending at its start included, is one *)
(* step.  Workers run one turn of their event loop per step.  The table of *)
(* children holds the numbers of the channels' descriptors: closing one    *)
(* frees the number for the next socketpair(), as the kernel does.         *)
(*                                                                         *)
(* Left out: the workers' own copies of the table, kept up to date by the  *)
(* open-channel and close-channel commands, which nothing reads; pid       *)
(* files; affinity, limits and users of a process.                         *)
(***************************************************************************)
EXTENDS Integers, FiniteSets, SequencesExt

CONSTANTS Configurations, \* the configurations to start from, see below
          MaxProcesses, \* NGX_MAX_PROCESSES
          MaxPid,       \* bound: processes ever forked
          Signals       \* subset of {"hup", "quit", "term", "usr1", "usr2", "winch"}

\* A configuration gives worker_processes and the cache processes that its cache paths
\* need; signals bounds how many signals the administrator sends under it, maxFaults how
\* many of its faults happen: crashes, hangs, failed forks and failed starts.
ASSUME ConfigurationsAssumption ==
    \A c \in Configurations : /\ c.workers \in Nat \ {0}
                              /\ c.helpers \in {{}, {"manager"}, {"manager", "loader"}}
                              /\ c.signals \in Nat /\ c.maxFaults \in Nat
                              /\ c.faults \subseteq {"crash", "hang", "fork", "fatal"}

VARIABLES conf,   \* the configuration, the same for every reload
          master, \* the master's memory: flags, loop variables, table of children
          procs,  \* the kernel's view of the children
          disk,   \* how often the log files have been moved away
          sent,   \* signals sent so far
          faults  \* the faults so far, in order
vars == <<conf, master, procs, disk, sent, faults>>

Pids == 1..MaxPid
Slots == 1..MaxProcesses
NoPid == 0          \* a slot whose pid is -1, a descriptor nobody holds
Invalid == -1       \* NGX_INVALID_PID

\* ngx_process_t.  chan is the number of the channel, 0 for -1.
FreeSlot == [pid |-> NoPid, chan |-> 0, exiting |-> FALSE, exited |-> FALSE,
             respawn |-> FALSE, just |-> FALSE, detached |-> FALSE, kind |-> "none"]

\* A child as the kernel and its own memory have it.  from says what started it.
NoProc == [st |-> "none", kind |-> "none", gen |-> 0, from |-> "none", code |-> 0,
           queue |-> {}, signals |-> {}, exiting |-> FALSE, hung |-> FALSE, log |-> 0]

\* One turn of the master's loop works on a record [m, p, bad, how, ok]: its memory,
\* the processes, the fork of this turn that goes wrong (0 for none) and how, and
\* whether the last spawn succeeded.

-----------------------------------------------------------------------------
(* Spawning *)

LowestFree(m) == CHOOSE c \in Slots : m.chans[c] = NoPid
                                      /\ \A d \in Slots : m.chans[d] = NoPid => c <= d

\* The lowest slot whose pid is -1, or the one after the last.
SlotFor(m) ==
    LET holes == {s \in 1..m.last : m.slots[s].pid = NoPid}
    IN  IF holes = {} THEN m.last + 1 ELSE CHOOSE s \in holes : \A t \in holes : s <= t

CloseChannel(m, c) == IF c = 0 THEN m ELSE [m EXCEPT !.chans[c] = NoPid]

\* ngx_spawn_process: slot s, a channel unless the child is detached, fork.  A failed
\* fork closes the channel but leaves its number in the table.
Forked(w, s, kind, detached, from) ==
    LET c    == IF detached THEN 0 ELSE LowestFree(w.m)
        pid  == Cardinality({q \in Pids : w.p[q].st # "none"}) + 1
        m1   == [w.m EXCEPT !.slots[s].chan = c]
        goes == IF w.bad = 1 THEN w.how ELSE "well"
        w1   == [w EXCEPT !.bad = IF @ > 0 THEN @ - 1 ELSE 0]
    IN  IF goes = "fork" THEN [w1 EXCEPT !.m = m1, !.ok = FALSE]
        ELSE [w1 EXCEPT
                !.ok = TRUE,
                !.m = [m1 EXCEPT !.slots[s].pid = pid, !.slots[s].exited = FALSE,
                                 !.chans = IF c = 0 THEN @ ELSE [@ EXCEPT ![c] = pid],
                                 !.pending = IF goes = "fatal" THEN @ \cup {"chld"} ELSE @],
                !.p[pid] = [NoProc EXCEPT
                               !.st = IF goes = "fatal" THEN "zombie" ELSE "run",
                               !.code = IF goes = "fatal" THEN 2 ELSE 0,
                               !.kind = kind, !.gen = w.m.gen, !.from = from,
                               !.log = w.m.log]]

\* A spawn of a new child: mode is NGX_PROCESS_RESPAWN and so on.
Spawn(w, kind, mode, from) ==
    LET s == SlotFor(w.m)
        f == Forked(w, s, kind, mode = "detached", from)
    IN  IF s > MaxProcesses THEN [w EXCEPT !.ok = FALSE]
        ELSE IF ~f.ok THEN f
        ELSE [f EXCEPT !.m.slots[s].kind = kind,
                       !.m.slots[s].exiting = FALSE,
                       !.m.slots[s].respawn = mode \in {"respawn", "just_respawn"},
                       !.m.slots[s].just = mode \in {"just_spawn", "just_respawn"},
                       !.m.slots[s].detached = mode = "detached",
                       !.m.last = IF s = @ + 1 THEN s ELSE @]

\* ngx_start_worker_processes and ngx_start_cache_manager_processes.
StartProcesses(w, just, from) ==
    LET workers == [i \in 1..conf.workers |-> <<"worker", IF just THEN "just_respawn" ELSE "respawn">>]
        manager == IF "manager" \in conf.helpers
                   THEN << <<"manager", IF just THEN "just_respawn" ELSE "respawn">> >> ELSE <<>>
        loader  == IF "loader" \in conf.helpers
                   THEN << <<"loader", IF just THEN "just_spawn" ELSE "norespawn">> >> ELSE <<>>
    IN  FoldLeft(LAMBDA v, k : Spawn(v, k[1], k[2], from), w, workers \o manager \o loader)

-----------------------------------------------------------------------------
(* Signalling the children *)

Alive(w, pid) == pid \in Pids /\ w.p[pid].st = "run"

\* kill(): a child that is a zombie takes the signal and nothing happens.
Kill(w, pid, sig) ==
    IF ~Alive(w, pid) THEN w
    ELSE IF sig = "kill"
    THEN [w EXCEPT !.p[pid].st = "zombie", !.p[pid].code = 1, !.p[pid].queue = {},
                   !.p[pid].signals = {}, !.m.pending = @ \cup {"chld"}]
    ELSE [w EXCEPT !.p[pid].signals = @ \cup {sig}]

SignalSlot(w, s, sig) ==
    LET e   == w.m.slots[s]
        to  == IF e.chan = 0 THEN NoPid ELSE w.m.chans[e.chan]
        set == [w EXCEPT !.m.slots[s].exiting = @ \/ sig # "usr1"]
    IN  IF e.detached \/ e.pid = NoPid THEN w
        ELSE IF e.just THEN [w EXCEPT !.m.slots[s].just = FALSE]
        ELSE IF e.exiting /\ sig = "quit" THEN w
        ELSE IF sig # "kill" /\ to # NoPid
        THEN [set EXCEPT !.p[to].queue = IF w.p[to].st = "run" THEN @ \cup {sig} ELSE @]
        ELSE IF w.p[e.pid].st = "gone"
        THEN [w EXCEPT !.m.slots[s].exited = TRUE, !.m.slots[s].exiting = FALSE,
                       !.m.flags = @ \cup {"chld"}]
        ELSE Kill(set, e.pid, sig)

SignalProcesses(w, sig) ==
    FoldLeft(LAMBDA v, s : SignalSlot(v, s, sig), w, [s \in 1..w.m.last |-> s])

-----------------------------------------------------------------------------
(* One turn of the master's loop *)

\* ngx_signal_handler in the master, for every pending signal, and for SIGCHLD
\* ngx_process_get_status: wait for all zombies, mark their slots.
Handled(w) ==
    LET dead  == IF "chld" \in w.m.pending THEN {q \in Pids : w.p[q].st = "zombie"} ELSE {}
        drop  == IF w.m.newbin > 0 THEN {"usr2", "io"} ELSE {"io"}
    IN  [w EXCEPT
           !.m = [w.m EXCEPT
             !.pending = {},
             !.flags = @ \cup (w.m.pending \ drop),
             !.slots = [s \in Slots |->
                IF s <= w.m.last /\ @[s].pid \in dead
                THEN [@[s] EXCEPT !.exited = TRUE,
                                  !.respawn = @ /\ w.p[w.m.slots[s].pid].code # 2]
                ELSE @[s]]],
           !.p = [q \in Pids |-> IF q \in dead THEN [@[q] EXCEPT !.st = "gone"] ELSE @[q]]]

Closing(w) == "term" \in w.m.flags \/ "quit" \in w.m.flags

\* ngx_reap_children for one slot.
ReapSlotShrinks(w, s) ==
    IF w.m.slots[s].pid = NoPid \/ ~w.m.slots[s].exited THEN w
    ELSE [w EXCEPT !.m.slots[s] = FreeSlot, !.m.last = @ - 1]
ReapSlot(w, s) ==
    LET e  == w.m.slots[s]
        w1 == IF e.detached THEN w
              ELSE [w EXCEPT !.m = [CloseChannel(w.m, e.chan) EXCEPT !.slots[s].chan = 0]]
        f  == Forked(w1, s, e.kind, FALSE, "respawn")
        w2 == IF e.pid # w.m.newbin THEN w1
              ELSE [w1 EXCEPT !.m.newbin = 0, !.m.noaccepting = FALSE,
                              !.m.flags = IF w.m.noaccepting THEN @ \cup {"restart"} ELSE @]
    IN  IF e.pid = NoPid THEN w
        ELSE IF ~e.exited
        THEN [w EXCEPT !.m.live = @ \/ e.exiting \/ ~e.detached]
        ELSE IF e.respawn /\ ~e.exiting /\ ~Closing(w)
        THEN [f EXCEPT !.m.live = @ \/ f.ok]
        ELSE [w2 EXCEPT !.m.slots[s] = FreeSlot,
                        !.m.last = IF s = @ THEN s - 1 ELSE @]

ReapChildren(w) ==
    IF "chld" \notin w.m.flags THEN w
    ELSE FoldLeft(ReapSlot, [w EXCEPT !.m.live = FALSE, !.m.flags = @ \ {"chld"}],
                  [s \in 1..w.m.last |-> s])

\* The branch for ngx_terminate: SIGTERM first, SIGKILL once the delay exceeds 1000 ms.
TerminateNeverKills(w) ==
    IF w.m.sigio > 0 THEN [w EXCEPT !.m.delay = 50, !.m.sigio = @ - 1]
    ELSE SignalProcesses([w EXCEPT !.m.delay = 50, !.m.sigio = conf.workers + 2], "term")
Terminate(w) ==
    LET d  == IF w.m.delay = 0 THEN 50 ELSE w.m.delay
        w1 == [w EXCEPT !.m.delay = d]
    IN  IF w.m.sigio > 0 THEN [w1 EXCEPT !.m.sigio = @ - 1]
        ELSE SignalProcesses([w1 EXCEPT !.m.sigio = conf.workers + 2],
                             IF d > 1000 THEN "kill" ELSE "term")

\* The branch for ngx_quit.
Quit(w) == [SignalProcesses(w, "quit") EXCEPT !.m.listening = FALSE]

\* SIGHUP while a new binary runs, or has failed to start: the workers are started
\* again with the old configuration.
Restarted(w) ==
    [StartProcesses([w EXCEPT !.m.flags = @ \ {"hup"}], FALSE, "rollback")
        EXCEPT !.m.noaccepting = FALSE]

Reconfigured(w) ==
    LET new == [w EXCEPT !.m.flags = @ \ {"hup"}, !.m.gen = @ + 1]
    IN  SignalProcesses([StartProcesses(new, TRUE, "reload") EXCEPT !.m.live = TRUE], "quit")

Restart(w) ==
    IF "restart" \notin w.m.flags THEN w
    ELSE [StartProcesses([w EXCEPT !.m.flags = @ \ {"restart"}], FALSE, "restart")
             EXCEPT !.m.live = TRUE]

Reopen(w) ==
    IF "usr1" \notin w.m.flags THEN w
    ELSE SignalProcesses([w EXCEPT !.m.flags = @ \ {"usr1"}, !.m.log = disk], "usr1")

ChangeBinary(w) ==
    LET b == Spawn([w EXCEPT !.m.flags = @ \ {"usr2"}], "binary", "detached", "upgrade")
    IN  IF "usr2" \notin w.m.flags THEN w
        ELSE [b EXCEPT !.m.newbin = IF b.ok THEN b.m.slots[SlotFor(w.m)].pid ELSE Invalid]

Noaccept(w) ==
    IF "winch" \notin w.m.flags THEN w
    ELSE SignalProcesses([w EXCEPT !.m.flags = @ \ {"winch"}, !.m.noaccepting = TRUE], "quit")

Rest(w) == Noaccept(ChangeBinary(Reopen(Restart(w))))

Suspended(w) ==
    IF w.m.delay = 0 THEN w
    ELSE IF "alrm" \notin w.m.flags THEN [w EXCEPT !.m.timer = TRUE]
    ELSE [w EXCEPT !.m.timer = TRUE, !.m.flags = @ \ {"alrm"}, !.m.sigio = 0,
                   !.m.delay = IF @ > 1000 THEN @ ELSE 2 * @]

\* From sigsuspend() to the next one, or to ngx_master_process_exit.
Turn(w, accepted) ==
    LET r == ReapChildren(Handled(w))
    IN  IF ~r.m.live /\ Closing(r) THEN [r EXCEPT !.m.st = "exited"]
        ELSE Suspended(
             IF "term" \in r.m.flags THEN Terminate(r)
             ELSE IF "quit" \in r.m.flags THEN Quit(r)
             ELSE IF "hup" \notin r.m.flags THEN Rest(r)
             ELSE IF r.m.newbin # 0 THEN Restarted(r)
             ELSE IF ~accepted THEN [r EXCEPT !.m.flags = @ \ {"hup"}]
             ELSE Rest(Reconfigured(r)))

MasterCycle ==
    /\ master.st = "run"
    /\ master.pending # {}
    /\ \E accepted \in BOOLEAN, bad \in 0..conf.workers + Cardinality(conf.helpers) + 1,
          how \in {"fork", "fatal"} :
         LET t == Turn([m |-> master, p |-> procs, bad |-> bad, how |-> how, ok |-> TRUE],
                       accepted)
         IN  /\ bad > 0 => how \in conf.faults /\ Len(faults) < conf.maxFaults /\ t.bad = 0
             /\ bad = 0 => how = "fork"
             /\ master' = t.m
             /\ procs' = t.p
             /\ faults' = IF bad > 0 THEN Append(faults, how) ELSE faults
    /\ UNCHANGED <<conf, disk, sent>>

\* SIGALRM of the termination timer.
TimerExpires ==
    /\ master.st = "run" /\ master.timer
    /\ master' = [master EXCEPT !.timer = FALSE, !.pending = @ \cup {"alrm"}]
    /\ UNCHANGED <<conf, procs, disk, sent, faults>>

-----------------------------------------------------------------------------
(* The children *)

Exits(q, code, wake) ==
    /\ procs' = [procs EXCEPT ![q].st = "zombie", ![q].code = code, ![q].queue = {},
                              ![q].signals = {}]
    /\ master' = [master EXCEPT !.pending = @ \cup wake \cup {"chld"}]

\* One turn of ngx_worker_process_cycle or ngx_cache_manager_process_cycle that has
\* something to do: ngx_channel_handler drains the channel, which raises SIGIO in the
\* master, and the flags are looked at.
ChildCycle(q) ==
    LET c    == procs[q]
        told == c.queue \cup c.signals
        wake == IF c.queue = {} THEN {} ELSE {"io"}
    IN  /\ c.st = "run" /\ ~c.hung /\ c.kind # "binary"
        /\ told # {}
        /\ IF "term" \in told \/ (c.kind # "worker" /\ "quit" \in told)
           THEN Exits(q, 0, wake)
           ELSE /\ procs' = [procs EXCEPT ![q].queue = {}, ![q].signals = {},
                                          ![q].exiting = @ \/ "quit" \in told,
                                          ![q].log = IF "usr1" \in told THEN disk ELSE @]
                /\ master' = [master EXCEPT !.pending = @ \cup wake]
        /\ UNCHANGED <<conf, disk, sent, faults>>

\* A worker that is shutting down has no timers left; the cache loader is through.
ChildDone(q) ==
    /\ procs[q].st = "run" /\ ~procs[q].hung
    /\ procs[q].exiting \/ procs[q].kind = "loader"
    /\ Exits(q, 0, {})
    /\ UNCHANGED <<conf, disk, sent, faults>>

Crash(q) ==
    /\ "crash" \in conf.faults /\ Len(faults) < conf.maxFaults
    /\ procs[q].st = "run"
    /\ Exits(q, 1, {})
    /\ faults' = Append(faults, "crash")
    /\ UNCHANGED <<conf, disk, sent>>

\* A child stops running its event loop: a handler that never returns.
Hang(q) ==
    /\ "hang" \in conf.faults /\ Len(faults) < conf.maxFaults
    /\ procs[q].st = "run" /\ ~procs[q].hung /\ procs[q].kind # "binary"
    /\ procs' = [procs EXCEPT ![q].hung = TRUE]
    /\ faults' = Append(faults, "hang")
    /\ UNCHANGED <<conf, master, disk, sent>>

\* The administrator; moving the log files away precedes SIGUSR1.
Signal(sig) ==
    /\ master.st = "run" /\ sent < conf.signals /\ sig \notin master.pending
    /\ master' = [master EXCEPT !.pending = @ \cup {sig}]
    /\ disk' = IF sig = "usr1" THEN disk + 1 ELSE disk
    /\ sent' = sent + 1
    /\ UNCHANGED <<conf, procs, faults>>

\* The administrator stops the new binary.
StopBinary(q) ==
    /\ procs[q].st = "run" /\ procs[q].kind = "binary" /\ sent < conf.signals
    /\ Exits(q, 0, {})
    /\ sent' = sent + 1
    /\ UNCHANGED <<conf, disk, faults>>

Init ==
    /\ conf \in Configurations
    /\ LET m == [st |-> "run", slots |-> [s \in Slots |-> FreeSlot], last |-> 0,
                 chans |-> [c \in Slots |-> NoPid], flags |-> {}, pending |-> {}, live |-> TRUE,
                 delay |-> 0, sigio |-> 0, timer |-> FALSE, newbin |-> 0, noaccepting |-> FALSE,
                 listening |-> TRUE, gen |-> 0, log |-> 0]
           w == StartProcesses([m |-> m, p |-> [q \in Pids |-> NoProc], bad |-> 0,
                                how |-> "fork", ok |-> TRUE], FALSE, "start")
       IN  master = w.m /\ procs = w.p
    /\ disk = 0 /\ sent = 0 /\ faults = <<>>

Next ==
    \/ MasterCycle
    \/ TimerExpires
    \/ \E q \in Pids : ChildCycle(q) \/ ChildDone(q) \/ Crash(q) \/ Hang(q) \/ StopBinary(q)
    \/ \E sig \in Signals : Signal(sig)

Spec == Init /\ [][Next]_vars

\* The kernel delivers pending signals and runs timers; a process that is not hung
\* runs its loop, and a worker that is shutting down finishes its connections.
FairSpec ==
    /\ Spec
    /\ []<>(master.st = "exited" \/ master.pending = {})
    /\ WF_vars(TimerExpires)
    /\ \A q \in Pids : WF_vars(ChildCycle(q)) /\ WF_vars(ChildDone(q))

-----------------------------------------------------------------------------
TypeOK ==
    /\ master.last \in 0..MaxProcesses
    /\ \A s \in Slots : /\ master.slots[s].pid \in Pids \cup {NoPid}
                        /\ master.slots[s].chan \in Slots \cup {0}
                        /\ master.chans[s] \in Pids \cup {NoPid}
    /\ master.newbin \in Pids \cup {0, Invalid}
    /\ master.delay \in {0, 50, 100, 200, 400, 800, 1600}
    /\ master.sigio \in 0..conf.workers + 2
    /\ \A q \in Pids : procs[q].st \in {"none", "run", "zombie", "gone"}

\* Every child that has not been waited for is in the table, so that it can be told
\* to stop and its death can be acted on.
NoChildForgotten ==
    master.st = "run" =>
        \A q \in Pids : procs[q].st \in {"run", "zombie"} =>
            \E s \in 1..master.last : master.slots[s].pid = q

\* The master takes its children for alive and has none: ngx_master_process_cycle sets
\* live after it started them, without asking whether a fork succeeded.
Deluded == master.live /\ \A q \in Pids : procs[q].st \in {"none", "gone"}

\* A fast shutdown ends, whatever the children do and whatever forks failed before: those
\* that hang are killed, and a slot that a failed respawn left with the number of another
\* child's channel is let go.  The one case left out is a master that is Deluded: it waits
\* for the death of a child it does not have.
TerminateEnds == "term" \in master.flags ~> master.st = "exited" \/ Deluded

=============================================================================
