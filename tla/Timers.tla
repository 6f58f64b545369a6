------------------------------- MODULE Timers -------------------------------
(***************************************************************************)
(* The timers of a worker (event/ngx_event_timer.c, ngx_event_timer.h): a   *)
(* red-black tree of expiry times in milliseconds of a clock that wraps     *)
(* around, with a lazy update of timers that move only a little.            *)
(***************************************************************************)
EXTENDS RbTree

CONSTANTS Events,   \* events that may have a timer
          Wrap,     \* the clock counts modulo Wrap (2^32 or 2^64)
          Instances,\* set of [lazy, slack, delays, until]: NGX_TIMER_LAZY_DELAY in units of
                    \* the clock; how late epoll_wait may return; the timeouts that handlers
                    \* ask for, for each event; and a bound on the true time
          Start     \* the true time at the start

\* Half the clock's range exceeds every delay, with the laziness of an update and the
\* slack on top.

VARIABLES inst,     \* the instance
          tree,     \* ngx_event_timer_rbtree
          set,      \* events with timer_set
          time,     \* the true time; ngx_current_msec is time modulo Wrap
          due,      \* the true time at which each set timer was last asked to fire
          pc        \* "handlers" or "expire": the loop of ngx_event_expire_timers
vars == <<inst, tree, set, time, due, pc>>

Lazy == inst.lazy
Slack == inst.slack
Now == time % Wrap

\* The cast to a signed integer of a difference.
Signed(d) == LET u == d % Wrap IN IF u >= Wrap \div 2 THEN u - Wrap ELSE u

Earlier(a, b) == Signed(a - b) < 0

\* ngx_rbtree_insert with the insert handler of the timer tree.
InsertTimer(t, e, key) ==
    Insert(t, e, key, {y \in DOMAIN t.node : Earlier(key, t.node[y].key)})

\* ngx_event_find_timer; -1 is NGX_TIMER_INFINITE.
FindTimer ==
    IF tree.root = Sentinel THEN -1
    ELSE LET d == Signed(tree.node[MinNode(tree, tree.root)].key - Now) IN IF d > 0 THEN d ELSE 0

AddTimerLazier(e, ms) ==
    /\ tree' = IF e \in set THEN tree ELSE InsertTimer(tree, e, (Now + ms) % Wrap)
    /\ set' = set \cup {e}
    /\ due' = [due EXCEPT ![e] = time + ms]
AddTimer(e, ms) ==
    LET key  == (Now + ms) % Wrap
        diff == Signed(key - tree.node[e].key)
        near == e \in set /\ diff < Lazy /\ -diff < Lazy
    IN  /\ tree' = IF near THEN tree
                   ELSE InsertTimer(IF e \in set THEN Delete(tree, e) ELSE tree, e, key)
        /\ set' = set \cup {e}
        /\ due' = [due EXCEPT ![e] = time + ms]

\* Handlers add and delete timers, of their own and of other events, at any point: from
\* epoll, from posted events and from the expiry loop itself.
Add(e) ==
    /\ \E ms \in inst.delays[e] : AddTimer(e, ms)
    /\ UNCHANGED <<inst, time, pc>>

Del(e) ==
    /\ e \in set
    /\ tree' = Delete(tree, e)
    /\ set' = set \ {e}
    /\ due' = [due EXCEPT ![e] = 0]
    /\ UNCHANGED <<inst, time, pc>>

\* A turn of the loop: epoll_wait returns after some time, later than the earliest timer
\* by at most what handlers and the system take.
Turn ==
    /\ pc = "handlers"
    /\ time' \in time + 1 .. inst.until
    /\ FindTimer # -1 => time' <= time + FindTimer + Slack
    /\ pc' = "expire"
    /\ UNCHANGED <<inst, tree, set, due>>

Expire ==
    /\ pc = "expire"
    /\ IF tree.root # Sentinel /\ Signed(tree.node[MinNode(tree, tree.root)].key - Now) <= 0
       THEN LET e == MinNode(tree, tree.root)
            IN  /\ tree' = Delete(tree, e)
                /\ set' = set \ {e}
                /\ due' = [due EXCEPT ![e] = 0]
                /\ UNCHANGED pc
       ELSE pc' = "handlers" /\ UNCHANGED <<tree, set, due>>
    /\ UNCHANGED <<inst, time>>

Init ==
    /\ inst \in Instances
    /\ tree = EmptyTree(Events) /\ set = {} /\ time = Start /\ pc = "handlers"
    /\ due = [e \in Events |-> 0]

Next == Turn \/ Expire \/ \E e \in Events : Add(e) \/ Del(e)
Spec == Init /\ [][Next]_vars

-----------------------------------------------------------------------------
TypeOK ==
    /\ set \subseteq Events
    /\ tree.root \in Events \cup {Sentinel}
    /\ \A x \in Events : tree.node[x].key \in 0..Wrap - 1

\* The timers that are set, and no others, are in the tree: no node is lost by a rotation
\* or when another one takes its place.  The tree is in the order of the times, across the
\* wrap of the clock, and balanced: every path has the same number of black nodes, and no
\* red node has a red child (ngx_rbtree_insert, ngx_rbtree_delete).
TreeBalanced == IsRedBlack(tree) /\ IsOrdered(tree, Earlier) /\ Below(tree, tree.root) = set

\* A timer that is about to fire is not early, by as much as a lazy update leaves it where
\* it was; and no timer that is set is late by more than that and, until the loop of
\* ngx_event_expire_timers is through, what epoll_wait was late: when the loop ends, every
\* timer that is due has fired, whatever the clock did and the handlers changed meanwhile.
FiresInTime ==
    /\ pc = "expire" /\ FindTimer = 0 => due[MinNode(tree, tree.root)] - time < Lazy
    /\ \A e \in set : time - due[e] < Lazy + (IF pc = "expire" THEN Slack ELSE 0)
=============================================================================
