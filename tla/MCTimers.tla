------------------------------ MODULE MCTimers ------------------------------
(* Instances of Timers. *)
EXTENDS Timers

Rank == [e1 |-> 1, e2 |-> 2, e3 |-> 3, e4 |-> 4, e5 |-> 5, e6 |-> 6, e7 |-> 7, e8 |-> 8,
         e9 |-> 9, e10 |-> 10]
MCEvents == DOMAIN Rank

\* Every tree that can be built of ten nodes, the clock standing still: ten are the fewest
\* with which each case of the two repairs happens, also away from the root.
Trees == [lazy |-> 1, slack |-> 0, until |-> Start, delays |-> [e \in MCEvents |-> {Rank[e]}]]

\* n timers that are set, moved and deleted while the clock runs over its wrap.
Clock(n, delays, lazy, slack, until) ==
    [lazy |-> lazy, slack |-> slack, until |-> until,
     delays |-> [e \in MCEvents |-> IF Rank[e] <= n THEN delays ELSE {}]]

MCInstances == {Trees, Clock(2, {1, 3, 6}, 1, 2, 26), Clock(3, {1, 4}, 1, 1, 23),
                Clock(2, {1, 2, 5}, 2, 1, 26)}
=============================================================================
