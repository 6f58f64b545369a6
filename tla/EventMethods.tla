---------------------------- MODULE EventMethods ----------------------------
(***************************************************************************)
(* The event methods: how select, poll, kqueue, /dev/poll, event ports and *)
(* real-time signals are told what to watch, and what is made of their     *)
(* reports (event/modules; epoll is in EventLoop), with the calls that     *)
(* handlers make: ngx_handle_read_event, ngx_handle_write_event and        *)
(* ngx_close_connection.                                                   *)
(*                                                                         *)
(* Descriptors are numbers from 1; cond[f] is the set of directions "in"   *)
(* and "out" in which f can be read or written.  Memory does not run out.  *)
(***************************************************************************)
EXTENDS Integers, Sequences, SequencesExt, FiniteSets, FiniteSetsExt

CONSTANTS Fds,        \* 1 .. n
          Setups,     \* method, post (events are posted), the limits of the method, and
                      \* the bound on what arrives
          MaxHandled  \* bound

VARIABLES setup, s, cond, batch, posted, arrived, handled

vars == <<setup, s, cond, batch, posted, arrived, handled>>

Dirs == {"in", "out"}
Pair(d) == IF d = "in" THEN "out" ELSE "in"

Event == [active |-> FALSE, ready |-> FALSE, index |-> 0, oneshot |-> FALSE, closed |-> TRUE]

(* c: the connections with their two events and the instance bit; list:    *)
(* event_index, event_list or change_list; the rest is in the kernel: fd   *)
(* sets, notes of kqueue, polled of /dev/poll, associations of the event   *)
(* port, the signal queue.                                                 *)
Init ==
    /\ setup \in Setups
    /\ s = [c |-> [f \in Fds |-> [open |-> FALSE, inst |-> 0, ev |-> [d \in Dirs |-> Event]]],
            list |-> << >>, fdset |-> [d \in Dirs |-> {}], max |-> 0, notes |-> {},
            polled |-> [f \in Fds |-> {}], assoc |-> [f \in Fds |-> {}], user |-> [f \in Fds |-> "in"],
            async |-> [f \in Fds |-> 2], queue |-> << >>, sigio |-> FALSE,
            overflow |-> FALSE, current |-> 1, tested |-> 0]
    /\ cond = [f \in Fds |-> {}]
    /\ batch = << >> /\ posted = << >>
    /\ arrived = 0 /\ handled = 0

ev(S, f, d) == S.c[f].ev[d]

----------------------------------------------------------------------------
(* select *)
select_add_event(S, f, d) ==
    IF ev(S, f, d).index # 0 THEN S
    ELSE [S EXCEPT !.fdset[d] = @ \cup {f}, !.max = IF @ # 0 /\ @ < f THEN f ELSE @,
                   !.list = Append(@, <<f, d>>), !.c[f].ev[d].active = TRUE,
                   !.c[f].ev[d].index = Len(S.list) + 1]

select_del_event(S, f, d) ==
    LET i == ev(S, f, d).index
        last == Last(S.list)
        T == [S EXCEPT !.fdset[d] = @ \ {f}, !.max = IF @ = f THEN 0 ELSE @,
                       !.list = Front(S.list), !.c[f].ev[d].active = FALSE]
        moved == IF i < Len(S.list)
                 THEN [T EXCEPT !.list[i] = last, !.c[last[1]].ev[last[2]].index = i] ELSE T
    IN  IF i = 0 THEN [S EXCEPT !.c[f].ev[d].active = FALSE]
        ELSE [moved EXCEPT !.c[f].ev[d].index = 0]

select_repair_fd_sets(S) ==
    [S EXCEPT !.fdset = [d \in Dirs |-> {f \in @[d] : f > S.max \/ S.c[f].open}], !.max = 0]

(* What it reports, and the state after the call.                          *)
select_process_events(S) ==
    LET max == IF S.max # 0 THEN S.max
               ELSE Max({0} \cup {S.list[i][1] : i \in DOMAIN S.list})
        set == {x \in Fds \X Dirs : x[1] <= max /\ x[1] \in S.fdset[x[2]]}
        work == {x \in set : x[2] \in cond[x[1]]}
        found == SelectSeq(S.list, LAMBDA x : x \in work)
        T == [S EXCEPT !.max = max]
    IN  IF \E x \in set : ~S.c[x[1]].open THEN [s |-> select_repair_fd_sets(T), found |-> << >>]
        ELSE [s |-> IF Len(found) # Cardinality(work) THEN select_repair_fd_sets(T) ELSE T,
              found |-> found]

----------------------------------------------------------------------------
(* poll: one entry for both events of a connection.                        *)
poll_add_event(S, f, d) ==
    LET T == [S EXCEPT !.c[f].ev[d].active = TRUE]
        e == ev(S, f, Pair(d)).index
    IN  CASE ev(S, f, d).index # 0 -> T
          [] ev(S, f, d).index = 0 /\ e = 0 ->
               [T EXCEPT !.list = Append(@, <<f, {d}>>), !.c[f].ev[d].index = Len(S.list) + 1]
          [] ev(S, f, d).index = 0 /\ e # 0 ->
               [T EXCEPT !.list[e][2] = @ \cup {d}, !.c[f].ev[d].index = e]

PollMovedReadOnly(S, i) ==     \* mutant: the write event keeps its index
    LET last == Last(S.list)
        T == [S EXCEPT !.list = Front(@)]
    IN  IF i = Len(S.list) THEN T
        ELSE [T EXCEPT !.list[i] = last, !.c[last[1]].ev["in"].index = i]

PollMoved(S, i) ==     \* the last entry takes place i
    LET last == Last(S.list)
        n == Len(S.list)
        renamed(x) == [x EXCEPT !.index = IF @ = n THEN i ELSE @]
        T == [S EXCEPT !.list = Front(@)]
    IN  IF i = n THEN T
        ELSE [T EXCEPT !.list[i] = last,
                       !.c[last[1]].ev = [d \in Dirs |-> renamed(@[d])]]

poll_del_event(S, f, d) ==
    LET i == ev(S, f, d).index
        e == ev(S, f, Pair(d)).index
        T == IF e = 0 THEN PollMoved(S, i) ELSE [S EXCEPT !.list[e][2] = @ \ {d}]
    IN  IF i = 0 THEN [S EXCEPT !.c[f].ev[d].active = FALSE]
        ELSE [T EXCEPT !.c[f].ev[d].active = FALSE, !.c[f].ev[d].index = 0]

poll_process_events(S) ==
    FlattenSeq([i \in DOMAIN S.list |->
        LET f == S.list[i][1]
            revents == S.list[i][2] \cap cond[f]
            found(d) == IF d \in revents /\ ev(S, f, d).active THEN <<<<f, d>>>> ELSE << >>
        IN  found("in") \o found("out")])

----------------------------------------------------------------------------
(* kqueue: changes are passed with the next call, or when the list is      *)
(* full.  A note is hot while a change of its condition is unreported.     *)
Applied(S, x) ==
    LET others == {n \in S.notes : n.f # x.f \/ n.d # x.d}
        mine == S.notes \ others
    IN  CASE ~S.c[x.f].open -> S
          [] S.c[x.f].open /\ x.flags = "add" ->
               [S EXCEPT !.notes = others \cup {[f |-> x.f, d |-> x.d, inst |-> x.inst,
                                                 hot |-> x.d \in cond[x.f]]}]
          [] S.c[x.f].open /\ x.flags = "delete" -> [S EXCEPT !.notes = others]

kevent_changes(S) == [FoldLeft(Applied, S, S.list) EXCEPT !.list = << >>]

kqueue_set_event(S0, f, d, flags) ==
    LET S == IF Len(S0.list) >= setup.changes THEN kevent_changes(S0) ELSE S0
    IN  [S EXCEPT !.list = Append(@, [f |-> f, d |-> d, inst |-> S.c[f].inst, flags |-> flags]),
                  !.c[f].ev[d].index = Len(S.list) + 1]

kqueue_add_event(S, f, d) ==
    kqueue_set_event([S EXCEPT !.c[f].ev[d].active = TRUE], f, d, "add")

Unpassed(S, f, d) ==
    LET i == ev(S, f, d).index
    IN  i \in DOMAIN S.list /\ S.list[i].f = f /\ S.list[i].d = d

kqueue_del_event(S, f, d, close) ==
    LET i == ev(S, f, d).index
        last == Last(S.list)
        T == [S EXCEPT !.c[f].ev[d].active = FALSE]
        short == [T EXCEPT !.list = Front(@)]
    IN  CASE Unpassed(S, f, d) ->
               IF i = Len(S.list) THEN short
               ELSE [short EXCEPT !.list[i] = last, !.c[last.f].ev[last.d].index = i]
          [] ~Unpassed(S, f, d) /\ close -> T
          [] ~Unpassed(S, f, d) /\ ~close -> kqueue_set_event(T, f, d, "delete")

kqueue_process_events(S) ==          \* once its changes are passed
    LET all == {n \in S.notes : n.hot}
    IN  {[s |-> [S EXCEPT !.notes = {IF n \in h THEN [n EXCEPT !.hot = FALSE] ELSE n : n \in @}],
          found |-> SetToSeq({<<n.f, n.d, n.inst>> : n \in h})] :
           h \in {x \in SUBSET all : Cardinality(x) = Min({setup.events, Cardinality(all)})}}

----------------------------------------------------------------------------
(* /dev/poll: a removal removes both directions of a descriptor.           *)
devpoll_write(S) ==
    [S EXCEPT !.polled = FoldLeft(LAMBDA p, x : [p EXCEPT ![x.f] = IF x.events = "remove" THEN {}
                                                                   ELSE @ \cup {x.events}],
                                  @, S.list),
              !.list = << >>]

devpoll_set_event(S0, f, d, events, close) ==
    LET S == IF Len(S0.list) >= setup.changes THEN devpoll_write(S0) ELSE S0
        T == [S EXCEPT !.list = Append(@, [f |-> f, events |-> events]),
                       !.c[f].ev[d].index = Len(S.list) + 1]
    IN  IF close THEN devpoll_write(T) ELSE T

devpoll_add_event(S, f, d) ==
    devpoll_set_event([S EXCEPT !.c[f].ev[d].active = TRUE], f, d, d, FALSE)

devpoll_del_event(S, f, d, close) ==
    LET T == [devpoll_set_event(S, f, d, "remove", close) EXCEPT !.c[f].ev[d].active = FALSE]
    IN  CASE close -> [T EXCEPT !.c[f].ev[Pair(d)].active = FALSE]
          [] ~close /\ ev(T, f, Pair(d)).active ->
               devpoll_set_event(T, f, Pair(d), Pair(d), FALSE)
          [] ~close /\ ~ev(T, f, Pair(d)).active -> T

devpoll_process_events(S) ==
    LET all == {f \in Fds : S.polled[f] \cap cond[f] # {}}
    IN  {[s |-> S, found |-> SetToSeq({<<f, S.polled[f] \cap cond[f]>> : f \in h})] :
           h \in {x \in SUBSET all : Cardinality(x) = Min({setup.events, Cardinality(all)})}}

----------------------------------------------------------------------------
(* Event ports: an association is of a descriptor, replaces the former and *)
(* ends with its report.                                                   *)
port_associate(S, f, events, d) == [S EXCEPT !.assoc[f] = events, !.user[f] = d]

eventport_add_event(S, f, d) ==
    LET events == {d} \cup (IF ev(S, f, Pair(d)).oneshot THEN {Pair(d)} ELSE {})
    IN  [port_associate(S, f, events, d) EXCEPT !.c[f].ev[d].active = TRUE,
                                               !.c[f].ev[d].oneshot = TRUE]

eventport_del_event(S, f, d, close) ==
    LET T == CASE close -> S
               [] ~close /\ ev(S, f, Pair(d)).oneshot -> port_associate(S, f, {Pair(d)}, d)
               [] ~close /\ ~ev(S, f, Pair(d)).oneshot -> port_associate(S, f, {}, d)
    IN  [T EXCEPT !.c[f].ev[d].active = FALSE, !.c[f].ev[d].oneshot = FALSE]

eventport_process_events(S) ==
    LET all == {f \in Fds : S.assoc[f] \cap cond[f] # {}}
    IN  {[s |-> [S EXCEPT !.assoc = [f \in Fds |-> IF f \in h THEN {} ELSE @[f]]],
          found |-> SetToSeq({<<f, S.assoc[f] \cap cond[f], S.c[f].inst>> : f \in h})] :
           h \in {x \in SUBSET all : Cardinality(x) = Min({setup.events, Cardinality(all)})}}

----------------------------------------------------------------------------
(* Real-time signals: async[f] is the instance in the signal of f, 2 if    *)
(* none is sent.  A signal that finds the queue full becomes a SIGIO.      *)
rtsig_add_connection(S, f) ==
    [S EXCEPT !.async[f] = S.c[f].inst, !.c[f].ev["in"].active = TRUE, !.c[f].ev["out"].active = TRUE]

rtsig_del_connection(S, f) ==        \* with NGX_CLOSE_EVENT
    [S EXCEPT !.c[f].ev["in"].active = FALSE, !.c[f].ev["out"].active = FALSE]

Signalled(S, f, d) ==
    CASE S.async[f] = 2 -> S
      [] S.async[f] # 2 /\ Len(S.queue) < setup.events ->
           [S EXCEPT !.queue = Append(@, [f |-> f, d |-> d, inst |-> S.async[f]])]
      [] S.async[f] # 2 /\ Len(S.queue) >= setup.events -> [S EXCEPT !.sigio = TRUE]

(* SIGIO is the lower signal and is taken first; the queue is flushed.     *)
rtsig_overflows(S) ==
    [S EXCEPT !.sigio = FALSE, !.queue = << >>, !.overflow = TRUE, !.current = 1]

Watched(S, f) == {d \in Dirs : S.c[f].open /\ ev(S, f, d).active}

rtsig_process_events(S) ==
    LET x == Head(S.queue)
        T == [S EXCEPT !.queue = Tail(@)]
        stale == S.c[x.f].inst # x.inst \/ ~S.c[x.f].open
        later == S.overflow /\ x.f > S.current
    IN  CASE S.sigio -> [s |-> rtsig_overflows(S), found |-> << >>]
          [] ~S.sigio /\ S.queue = << >> -> [s |-> S, found |-> << >>]
          [] ~S.sigio /\ S.queue # << >> ->
               [s |-> T, found |-> IF later \/ stale \/ ~ev(S, x.f, x.d).active THEN << >>
                                   ELSE <<<<x.f, {x.d}>>>>]

(* One turn of the loop of the recovery: the next descriptors are polled,  *)
(* or the queue is drained after enough reports, or it is over.            *)
rtsig_process_overflow(S) ==
    LET rest == {f \in Fds : f >= S.current /\ Watched(S, f) # {}}
        chunk == {f \in rest : Cardinality({g \in rest : g <= f}) <= setup.changes}
        ready == {f \in chunk : Watched(S, f) \cap cond[f] # {}}
        next == IF Cardinality(rest) <= setup.changes THEN Max(Fds) + 1 ELSE Max(chunk) + 1
    IN  CASE S.tested >= setup.test /\ S.queue = << >> /\ ~S.sigio ->
               [s |-> [S EXCEPT !.tested = 0], found |-> << >>]
          [] S.tested >= setup.test /\ (S.queue # << >> \/ S.sigio) -> rtsig_process_events(S)
          [] S.tested < setup.test /\ rest = {} ->
               [s |-> [S EXCEPT !.overflow = FALSE, !.tested = 0], found |-> << >>]
          [] S.tested < setup.test /\ rest # {} ->
               [s |-> [S EXCEPT !.current = next, !.tested = @ + Cardinality(ready)],
                found |-> SetToSeq({<<f, Watched(S, f) \cap cond[f]>> : f \in ready})]

----------------------------------------------------------------------------
add_event(S, f, d) ==
    CASE setup.method = "select" -> select_add_event(S, f, d)
      [] setup.method = "poll" -> poll_add_event(S, f, d)
      [] setup.method = "kqueue" -> kqueue_add_event(S, f, d)
      [] setup.method = "devpoll" -> devpoll_add_event(S, f, d)
      [] setup.method = "eventport" -> eventport_add_event(S, f, d)

del_event(S, f, d, close) ==
    CASE setup.method = "select" -> select_del_event(S, f, d)
      [] setup.method = "poll" -> poll_del_event(S, f, d)
      [] setup.method = "kqueue" -> kqueue_del_event(S, f, d, close)
      [] setup.method = "devpoll" -> devpoll_del_event(S, f, d, close)
      [] setup.method = "eventport" -> eventport_del_event(S, f, d, close)

(* ngx_handle_read_event and ngx_handle_write_event.                       *)
handle_event(S, f, d) ==
    LET e == ev(S, f, d)
        level == setup.method \in {"select", "poll", "devpoll"}
        once == setup.method = "eventport" /\ e.oneshot /\ (IF d = "in" THEN ~e.ready ELSE e.ready)
    IN  CASE setup.method = "rtsig" -> S
          [] setup.method # "rtsig" /\ ~e.active /\ ~e.ready -> add_event(S, f, d)
          [] setup.method # "rtsig" /\ (e.active \/ e.ready) ->
               IF (level /\ e.active /\ e.ready) \/ once THEN del_event(S, f, d, FALSE) ELSE S

(* ngx_close_connection; the kernel forgets a closed descriptor, but not   *)
(* in /dev/poll nor in a queue of signals.                                 *)
DelActive(S, f, d) == IF ev(S, f, d).active THEN del_event(S, f, d, TRUE) ELSE S

close_connection(S, f) ==
    LET T == IF setup.method = "rtsig" THEN rtsig_del_connection(S, f)
             ELSE DelActive(DelActive(S, f, "in"), f, "out")
    IN  [T EXCEPT !.c[f].open = FALSE,
                  !.c[f].ev = [d \in Dirs |-> [@[d] EXCEPT !.closed = TRUE]],
                  !.notes = {n \in @ : n.f # f}, !.assoc[f] = {}, !.async[f] = 2]

(* ngx_get_connection, as after an accept: it can be written.              *)
get_connection(S, f) ==
    LET T == [S EXCEPT !.c[f].open = TRUE, !.c[f].inst = 1 - @,
                       !.c[f].ev = [d \in Dirs |-> [Event EXCEPT !.closed = FALSE,
                                                                 !.ready = d = "out"]]]
    IN  IF setup.method = "rtsig" THEN rtsig_add_connection(T, f) ELSE handle_event(T, f, "in")

----------------------------------------------------------------------------
(* The kernel: f can be read or written; a new descriptor can be written.  *)
Arrive(f, d) ==
    /\ arrived < setup.arrivals /\ s.c[f].open /\ d \notin cond[f]
    /\ cond' = [cond EXCEPT ![f] = @ \cup {d}]
    /\ s' = IF setup.method = "rtsig" THEN Signalled(s, f, d)
            ELSE [s EXCEPT !.notes = {IF n.f = f /\ n.d = d THEN [n EXCEPT !.hot = TRUE] ELSE n :
                                         n \in @}]
    /\ arrived' = arrived + 1
    /\ UNCHANGED <<setup, batch, posted, handled>>

(* process_events of the method: what it found waits in batch.             *)
Processed(S) ==
    CASE setup.method = "select" -> {select_process_events(S)}
      [] setup.method = "poll" -> {[s |-> S, found |-> poll_process_events(S)]}
      [] setup.method = "kqueue" -> kqueue_process_events(kevent_changes(S))
      [] setup.method = "devpoll" -> devpoll_process_events(devpoll_write(S))
      [] setup.method = "eventport" -> eventport_process_events(S)
      [] setup.method = "rtsig" ->
           {IF S.overflow THEN rtsig_process_overflow(S) ELSE rtsig_process_events(S)}

Process ==
    /\ batch = << >> /\ posted = << >>
    /\ \E p \in Processed(s) : s' = p.s /\ batch' = p.found
    /\ UNCHANGED <<setup, cond, posted, arrived, handled>>

Ready(S, f, D) == [S EXCEPT !.c[f].ev = [d \in Dirs |-> IF d \in D THEN [@[d] EXCEPT !.ready = TRUE]
                                                                   ELSE @[d]]]

Post(f, D) == (IF "in" \in D THEN <<<<f, "in">>>> ELSE << >>)
              \o (IF "out" \in D THEN <<<<f, "out">>>> ELSE << >>)

(* The loop over what was found: the next report is taken, once the        *)
(* handlers that the last one called have returned.                        *)
Reported(x) ==       \* the events that a report is for
    LET f == x[1]
        D == IF setup.method \in {"devpoll", "eventport", "rtsig"} THEN x[2] ELSE {x[2]}
    IN  CASE setup.method \in {"select", "poll"} -> D
          [] setup.method = "kqueue" ->
               IF ev(s, f, x[2]).closed \/ s.c[f].inst # x[3] THEN {} ELSE D
          [] setup.method = "eventport" ->
               IF ev(s, f, s.user[f]).closed \/ s.c[f].inst # x[3] THEN {} ELSE D
          [] setup.method \in {"devpoll", "rtsig"} ->
               {d \in D : s.c[f].open /\ ev(s, f, d).active}

Deliver ==
    /\ batch # << >> /\ (posted = << >> \/ setup.post \/ setup.method \in {"select", "poll"})
    /\ LET x == Head(batch)
           D == Reported(x)
           T == IF setup.method = "eventport" /\ D # {}
                THEN [s EXCEPT !.c[x[1]].ev = [d \in Dirs |-> [@[d] EXCEPT !.active = FALSE]]] ELSE s
       IN  /\ s' = Ready(T, x[1], D)
           /\ posted' = posted \o SelectSeq(Post(x[1], D), LAMBDA y : ~Contains(posted, y))
    /\ batch' = Tail(batch)
    /\ UNCHANGED <<setup, cond, arrived, handled>>

(* A handler runs: it takes all there is, or leaves it; it may try to      *)
(* write and have to wait; or it closes a connection, its own or another.  *)
Drained(S, f, d) == [S EXCEPT !.c[f].ev[d].ready = FALSE]

Handle ==
    /\ posted # << >>
    /\ setup.post => batch = << >>
    /\ handled < MaxHandled /\ handled' = handled + 1
    /\ LET f == Head(posted)[1]
           d == Head(posted)[2]
       IN  \/ /\ cond' = [cond EXCEPT ![f] = @ \ {d}]
              /\ s' = handle_event(Drained(s, f, d), f, d)
              /\ posted' = Tail(posted)
           \/ /\ s' = handle_event(s, f, d)
              /\ posted' = Tail(posted) /\ UNCHANGED cond
           \/ /\ d = "in"
              /\ cond' = [cond EXCEPT ![f] = {}]
              /\ s' = handle_event(handle_event(Drained(Drained(s, f, d), f, "out"), f, d), f, "out")
              /\ posted' = Tail(posted)
           \/ \E g \in Fds :
                /\ s.c[g].open
                /\ s' = close_connection(s, g)
                /\ cond' = [cond EXCEPT ![g] = {}]
                /\ posted' = SelectSeq(Tail(posted), LAMBDA y : y[1] # g)
    /\ UNCHANGED <<setup, batch, arrived>>

(* A connection is opened by a handler (an accept, an upstream), which     *)
(* takes the lowest free descriptor.                                       *)
Open ==
    /\ \E f \in Fds :
         /\ ~s.c[f].open /\ \A g \in Fds : g < f => s.c[g].open
         /\ s' = get_connection(s, f)
         /\ cond' = [cond EXCEPT ![f] = {"out"}]
    /\ handled < MaxHandled /\ handled' = handled + 1
    /\ UNCHANGED <<setup, batch, posted, arrived>>

Next == (\E f \in Fds, d \in Dirs : Arrive(f, d)) \/ Process \/ Deliver \/ Handle \/ Open

Spec == Init /\ [][Next]_vars

----------------------------------------------------------------------------
(* What the kernel would report of direction d of f, now or with the       *)
(* changes that wait.                                                      *)
WillReport(f, d) ==
    CASE setup.method = "select" -> f \in s.fdset[d] /\ (s.max = 0 \/ f <= s.max)
                                    /\ Contains(s.list, <<f, d>>)
      [] setup.method = "poll" -> \E i \in DOMAIN s.list : s.list[i][1] = f /\ d \in s.list[i][2]
      [] setup.method = "kqueue" ->
           \E n \in kevent_changes(s).notes :
              n.f = f /\ n.d = d /\ n.hot /\ n.inst = s.c[f].inst
      [] setup.method = "devpoll" -> d \in devpoll_write(s).polled[f]
      [] setup.method = "eventport" -> d \in s.assoc[f]
      [] setup.method = "rtsig" ->
           \/ s.sigio \/ (s.overflow /\ s.current <= f)
           \/ \E i \in DOMAIN s.queue :
                s.queue[i].f = f /\ s.queue[i].d = d /\ s.queue[i].inst = s.c[f].inst

(* No event is lost and none is left behind: an event that waits for what  *)
(* has happened will be reported, whatever was added, deleted, closed and  *)
(* opened again meanwhile and however the changes were merged, moved or    *)
(* overflowed; and a level-triggered method watches nothing that is not    *)
(* active, which it would report for ever.                                 *)
EventsNotLost ==
    batch = << >> =>
      \A f \in Fds, d \in Dirs :
        /\ s.c[f].open /\ ev(s, f, d).active /\ d \in cond[f] /\ ~ev(s, f, d).ready
             => WillReport(f, d)
        /\ setup.method \in {"select", "poll", "devpoll"} /\ WillReport(f, d)
             => s.c[f].open /\ ev(s, f, d).active
=============================================================================
