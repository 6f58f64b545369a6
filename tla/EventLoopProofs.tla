--------------------------- MODULE EventLoopProofs ---------------------------
(***************************************************************************)
(* Proofs about EventLoop, for any number of workers, sockets and           *)
(* connections and any configuration.                                       *)
(*                                                                         *)
(* The pool of a worker is consistent because every operation keeps three   *)
(* views of a connection in step: its descriptor, its place in the free     *)
(* list and its place in the queue of idle connections.  That an event      *)
(* never reaches the next user of its connection rests on the instance      *)
(* bit: while the batch lasts the bit of a structure taken once differs     *)
(* from the one in the events of its former user.                           *)
(***************************************************************************)
EXTENDS EventLoop, SequenceTheorems, TLAPS

Holds(q, c) == \E j \in 1..Len(q) : q[j] = c
Single(q) == \A j, k \in 1..Len(q) : q[j] = q[k] => j = k

-----------------------------------------------------------------------------
(* Sequences without repetition *)

\* The members of a sequence.
LEMMA Members ==
    ASSUME NEW S, NEW q \in Seq(S), NEW c
    PROVE  /\ c \in Range(q) <=> Holds(q, c)
           /\ IsInjective(q) <=> Single(q)
           /\ Holds(q, c) => c \in S
<1>1. DOMAIN q = 1..Len(q) /\ \A j \in 1..Len(q) : q[j] \in S
    BY LenProperties, ElementOfSeq
<1> QED BY <1>1, Zenon DEF Range, IsInjective, Holds, Single

\* One sequence after another.
LEMMA Joined ==
    ASSUME NEW S, NEW a \in Seq(S), NEW b \in Seq(S), Single(a), Single(b),
           \A d \in S : ~(Holds(a, d) /\ Holds(b, d))
    PROVE  /\ a \o b \in Seq(S) /\ Single(a \o b)
           /\ \A d : Holds(a \o b, d) <=> Holds(a, d) \/ Holds(b, d)
<1>1. /\ a \o b \in Seq(S) /\ Len(a \o b) = Len(a) + Len(b)
      /\ \A i \in 1..Len(a) + Len(b) :
            (a \o b)[i] = IF i <= Len(a) THEN a[i] ELSE b[i - Len(a)]
    BY ConcatProperties
<1>2. Len(a) \in Nat /\ Len(b) \in Nat BY LenProperties
<1>3. \A i \in 1..Len(a) : i \in 1..Len(a) + Len(b) /\ (a \o b)[i] = a[i]
    BY <1>1, <1>2
<1>4. \A i \in 1..Len(b) : Len(a) + i \in 1..Len(a) + Len(b) /\ (a \o b)[Len(a) + i] = b[i]
    BY <1>1, <1>2
<1>5. \A i \in 1..Len(a) + Len(b) : i \notin 1..Len(a) => i - Len(a) \in 1..Len(b) /\ (a \o b)[i] = b[i - Len(a)]
    BY <1>1, <1>2
<1>6. \A d : Holds(a \o b, d) <=> Holds(a, d) \/ Holds(b, d)
    <2> TAKE d
    <2>1. Holds(a, d) => Holds(a \o b, d) BY <1>1, <1>3 DEF Holds
    <2>2. Holds(b, d) => Holds(a \o b, d) BY <1>1, <1>4 DEF Holds
    <2>3. Holds(a \o b, d) => Holds(a, d) \/ Holds(b, d)
        BY <1>1, <1>3, <1>5 DEF Holds
    <2> QED BY <2>1, <2>2, <2>3
<1>7. \A i \in 1..Len(a), j \in 1..Len(b) : a[i] # b[j]
    BY ElementOfSeq DEF Holds
<1>8. \A j, k \in 1..Len(a) + Len(b) : (a \o b)[j] = (a \o b)[k] => j = k
    <2> SUFFICES ASSUME NEW j \in 1..Len(a) + Len(b), NEW k \in 1..Len(a) + Len(b),
                        (a \o b)[j] = (a \o b)[k]
                 PROVE  j = k
        OBVIOUS
    <2>1. CASE j \in 1..Len(a) /\ k \in 1..Len(a) BY <2>1, <1>3 DEF Single
    <2>2. CASE j \in 1..Len(a) /\ k \notin 1..Len(a) BY SMTT(30), <2>2, <1>3, <1>5, <1>7
    <2>3. CASE j \notin 1..Len(a) /\ k \in 1..Len(a) BY <2>3, <1>3, <1>5, <1>7
    <2>4. CASE j \notin 1..Len(a) /\ k \notin 1..Len(a)
        <3>1. j - Len(a) = k - Len(a) BY <2>4, <1>5 DEF Single
        <3> QED BY <3>1, <1>2
    <2> QED BY <2>1, <2>2, <2>3, <2>4
<1> QED BY <1>1, <1>6, <1>8 DEF Single

\* A part of a sequence.
LEMMA Part ==
    ASSUME NEW S, NEW q \in Seq(S), Single(q), NEW m \in 1..Len(q) + 1, NEW n \in 0..Len(q)
    PROVE  /\ SubSeq(q, m, n) \in Seq(S) /\ Single(SubSeq(q, m, n))
           /\ \A d : Holds(SubSeq(q, m, n), d) <=> \E i \in m..n : q[i] = d
<1> DEFINE p == SubSeq(q, m, n)
<1>0. Len(q) \in Nat BY LenProperties
<1>1. m \in Int /\ n \in Int /\ \A i \in m..n : i \in 1..Len(q) BY <1>0
<1>2. /\ p \in Seq(S)
      /\ Len(p) = IF m <= n THEN n - m + 1 ELSE 0
      /\ \A i \in 1 .. n - m + 1 : p[i] = q[m + i - 1]
    <2>1. \A i \in m..n : i \in 1..Len(q) /\ q[i] \in S BY <1>1, ElementOfSeq
    <2> QED BY <1>0, <1>1, <2>1, SubSeqProperties
<1> HIDE DEF p
<1>3. \A i \in 1..Len(p) : m + i - 1 \in m..n /\ p[i] = q[m + i - 1] BY <1>1, <1>2
<1>4. \A i \in m..n : i - m + 1 \in 1..Len(p) /\ p[i - m + 1] = q[i] BY <1>1, <1>2
<1>5. Single(p)
    <2> SUFFICES ASSUME NEW j \in 1..Len(p), NEW k \in 1..Len(p), p[j] = p[k] PROVE j = k
        BY DEF Single
    <2>1. m + j - 1 = m + k - 1 BY <1>1, <1>3 DEF Single
    <2> QED BY <2>1, <1>1
<1>6. \A d : Holds(p, d) <=> \E i \in m..n : q[i] = d BY Zenon, <1>3, <1>4 DEF Holds
<1> QED BY <1>2, <1>5, <1>6 DEF p

\* ngx_free_connection and ngx_queue_insert_head: one more at the head.
LEMMA Pushed ==
    ASSUME NEW S, NEW q \in Seq(S), Single(q), NEW c \in S, ~Holds(q, c)
    PROVE  /\ <<c>> \o q \in Seq(S) /\ Single(<<c>> \o q)
           /\ \A d : Holds(<<c>> \o q, d) <=> d = c \/ Holds(q, d)
<1> DEFINE a == <<c>>
<1>1. a \in Seq(S) /\ Len(a) = 1 /\ a[1] = c OBVIOUS
<1> HIDE DEF a
<1>2. \A d : Holds(a, d) <=> d = c BY <1>1 DEF Holds
<1>3. Single(a) BY <1>1 DEF Single
<1>4. \A d \in S : ~(Holds(a, d) /\ Holds(q, d)) BY <1>2
<1>5. /\ a \o q \in Seq(S) /\ Single(a \o q)
      /\ \A d : Holds(a \o q, d) <=> Holds(a, d) \/ Holds(q, d)
    BY <1>1, <1>3, <1>4, Joined
<1> QED BY <1>2, <1>5, Zenon DEF a

\* ngx_get_connection takes the head of the free list.
LEMMA Popped ==
    ASSUME NEW S, NEW q \in Seq(S), Single(q), q # <<>>
    PROVE  /\ Tail(q) \in Seq(S) /\ Single(Tail(q)) /\ Head(q) \in S /\ Holds(q, Head(q))
           /\ \A d : Holds(Tail(q), d) <=> d # Head(q) /\ Holds(q, d)
<1>1. Len(q) \in Nat /\ Len(q) # 0 BY EmptySeq, LenProperties
<1>2. Head(q) \in S /\ Head(q) = q[1] BY <1>1, HeadTailProperties
<1>3. Tail(q) = SubSeq(q, 2, Len(q)) BY TailIsSubSeq
<1>4. /\ Tail(q) \in Seq(S) /\ Single(Tail(q))
      /\ \A d : Holds(Tail(q), d) <=> \E i \in 2..Len(q) : q[i] = d
    <2>1. 2 \in 1..Len(q) + 1 /\ Len(q) \in 0..Len(q) BY <1>1
    <2>2. /\ SubSeq(q, 2, Len(q)) \in Seq(S) /\ Single(SubSeq(q, 2, Len(q)))
          /\ \A d : Holds(SubSeq(q, 2, Len(q)), d) <=> \E i \in 2..Len(q) : q[i] = d
        BY <2>1, Part
    <2> QED BY <2>2, <1>3, Zenon
<1>5. Holds(q, Head(q)) BY <1>1, <1>2 DEF Holds
<1>6. \A d : (\E i \in 2..Len(q) : q[i] = d) <=> d # Head(q) /\ Holds(q, d)
    <2>1. \A i \in 1..Len(q) : q[i] = q[1] => i = 1 BY <1>1 DEF Single
    <2> QED BY <2>1, <1>1, <1>2 DEF Holds
<1> QED BY <1>2, <1>4, <1>5, <1>6, Zenon

\* ngx_queue_remove leaves the others in the queue.
LEMMA Removed ==
    ASSUME NEW S, NEW q \in Seq(S), Single(q), NEW c
    PROVE  /\ Without(q, c) \in Seq(S) /\ Single(Without(q, c))
           /\ \A d : Holds(Without(q, c), d) <=> d # c /\ Holds(q, d)
<1>1. CASE ~Holds(q, c)
    <2>1. Without(q, c) = q BY <1>1, Members, Zenon DEF Without
    <2> QED BY <2>1, <1>1
<1>2. CASE Holds(q, c)
    <2> DEFINE k == CHOOSE j \in DOMAIN q : q[j] = c
               a == SubSeq(q, 1, k - 1)
               b == SubSeq(q, k + 1, Len(q))
    <2>1. Without(q, c) = a \o b BY <1>2, Members, Zenon DEF Without
    <2>2. k \in 1..Len(q) /\ q[k] = c
        <3>1. DOMAIN q = 1..Len(q) BY LenProperties
        <3> QED BY <1>2, <3>1, Zenon DEF Holds
    <2> HIDE DEF k
    <2>3. Len(q) \in Nat BY LenProperties
    <2>4. 1 \in 1..Len(q) + 1 /\ k - 1 \in 0..Len(q) /\ k + 1 \in 1..Len(q) + 1 /\ Len(q) \in 0..Len(q)
        BY <2>2, <2>3
    <2>5. /\ a \in Seq(S) /\ Single(a)
          /\ \A d : Holds(a, d) <=> \E i \in 1..k - 1 : q[i] = d
        BY <2>4, Part
    <2>6. /\ b \in Seq(S) /\ Single(b)
          /\ \A d : Holds(b, d) <=> \E i \in k + 1..Len(q) : q[i] = d
        BY <2>4, Part
    <2> HIDE DEF a, b
    <2>7. \A d \in S : ~(Holds(a, d) /\ Holds(b, d))
        BY <2>2, <2>3, <2>5, <2>6 DEF Single
    <2>8. /\ a \o b \in Seq(S) /\ Single(a \o b)
          /\ \A d : Holds(a \o b, d) <=> Holds(a, d) \/ Holds(b, d)
        BY <2>5, <2>6, <2>7, Joined
    <2>9. \A d : Holds(a, d) \/ Holds(b, d) <=> d # c /\ Holds(q, d)
        <3> TAKE d
        <3>1. ASSUME NEW i \in 1..k - 1 PROVE i \in 1..Len(q) /\ q[i] # c
            BY <2>2, <2>3 DEF Single
        <3>2. ASSUME NEW i \in k + 1..Len(q) PROVE i \in 1..Len(q) /\ q[i] # c
            BY <2>2, <2>3 DEF Single
        <3>3. ASSUME NEW i \in 1..Len(q), q[i] # c PROVE i \in 1..k - 1 \/ i \in k + 1..Len(q)
            BY <3>3, <2>2, <2>3
        <3>4. Holds(a, d) => d # c /\ Holds(q, d) BY <2>5, <3>1 DEF Holds
        <3>5. Holds(b, d) => d # c /\ Holds(q, d) BY Zenon, <2>6, <3>2 DEF Holds
        <3>6. d # c /\ Holds(q, d) => Holds(a, d) \/ Holds(b, d) BY Zenon, <2>5, <2>6, <3>3 DEF Holds
        <3> QED BY <3>4, <3>5, <3>6
    <2> QED BY <2>1, <2>8, <2>9, Zenon
<1> QED BY <1>1, <1>2

-----------------------------------------------------------------------------
(* The state of a worker *)

Places == {"begin", "wait", "dispatch", "accept", "timers", "posted", "dead"}
ConnState == [open : BOOLEAN, inst : {0, 1}, reusable : BOOLEAN, taken : Nat]
Event == [sock : Sockets \cup {NoSocket}, c : Nat, inst : {0, 1}]
WorkerState ==
    [pc : Places, listening : BOOLEAN, mutex : BOOLEAN, held : BOOLEAN, disabled : Int,
     posting : BOOLEAN, active : SUBSET Sockets, timers : SUBSET Sockets, emfile : BOOLEAN,
     conns : [Conns -> ConnState], free : Seq(Conns), reuse : Seq(Conns),
     batch : SUBSET Event, accepts : SUBSET Sockets, posted : SUBSET Conns,
     cur : Sockets \cup {NoSocket}, ret : {"begin", "dispatch", "timers"},
     misfired : BOOLEAN]

\* The three views of a connection agree.
PoolInv(w) ==
    /\ Single(w.free) /\ Single(w.reuse)
    /\ \A c \in Conns : Holds(w.free, c) <=> ~w.conns[c].open
    /\ \A c \in Conns : Holds(w.reuse, c) <=> w.conns[c].reusable
    /\ \A c \in Conns : w.conns[c].reusable => w.conns[c].open
    /\ \A c \in w.posted : w.conns[c].open

\* An event of the batch has the instance bit of its connection until the structure is
\* taken again, and the other one then.
BatchInv(w) ==
    \A e \in w.batch : e.sock = NoSocket =>
        /\ e.c \in Conns
        /\ w.conns[e.c].taken = 0 => w.conns[e.c].inst = e.inst
        /\ w.conns[e.c].taken = 1 => w.conns[e.c].inst # e.inst

\* Between two batches.
Quiet(w) == w.batch = {} /\ \A c \in Conns : w.conns[c].taken = 0

\* What the operations on the pool leave alone.
SameTurn(w, v) ==
    /\ v.pc = w.pc /\ v.ret = w.ret /\ v.cur = w.cur /\ v.batch = w.batch
    /\ v.accepts = w.accepts /\ v.timers = w.timers /\ v.mutex = w.mutex /\ v.held = w.held
    /\ v.posting = w.posting /\ v.emfile = w.emfile /\ v.misfired = w.misfired

\* What they are given and what they return.
Sound(w) == w \in WorkerState /\ PoolInv(w) /\ BatchInv(w)
Follows(w, v) == Sound(v) /\ SameTurn(w, v) /\ (Quiet(w) => Quiet(v))

LEMMA SameTurnTrans ==
    ASSUME NEW u, NEW v, NEW w, Follows(u, v), Follows(v, w)
    PROVE  Follows(u, w)
BY Zenon DEF Follows, SameTurn

\* ngx_reusable_connection.
LEMMA SetReusableSound ==
    ASSUME NEW w, Sound(w), NEW c \in Conns, NEW on \in BOOLEAN, on => w.conns[c].open
    PROVE  /\ Follows(w, SetReusable(w, c, on))
           /\ SetReusable(w, c, on).conns[c].reusable = on
           /\ SetReusable(w, c, on).conns[c].open = w.conns[c].open
           /\ SetReusable(w, c, on).free = w.free
           /\ ~on => ~Holds(SetReusable(w, c, on).reuse, c)
<1> DEFINE v == SetReusable(w, c, on)
           q == Without(w.reuse, c)
           r == IF on THEN <<c>> \o q ELSE q
<1>0. w \in WorkerState /\ PoolInv(w) /\ BatchInv(w) BY DEF Sound
<1>1. /\ q \in Seq(Conns) /\ Single(q)
      /\ \A d : Holds(q, d) <=> d # c /\ Holds(w.reuse, d)
    <2>1. w.reuse \in Seq(Conns) /\ Single(w.reuse) BY <1>0 DEF WorkerState, PoolInv
    <2> QED BY <2>1, Removed
<1> HIDE DEF q
<1>2. /\ r \in Seq(Conns) /\ Single(r)
      /\ \A d : Holds(r, d) <=> IF d = c THEN on ELSE Holds(w.reuse, d)
    <2>1. CASE on
        <3>1. /\ <<c>> \o q \in Seq(Conns) /\ Single(<<c>> \o q)
              /\ \A d : Holds(<<c>> \o q, d) <=> d = c \/ Holds(q, d)
            BY <1>1, Pushed
        <3> QED BY <3>1, <1>1, <2>1, Zenon
    <2>2. CASE ~on BY <1>1, <2>2
    <2> QED BY <2>1, <2>2
<1>3. v = [w EXCEPT !.conns[c].reusable = on, !.reuse = r] BY DEF SetReusable, q
<1> HIDE DEF r, v
<1>4. /\ v \in WorkerState /\ SameTurn(w, v) /\ v.reuse = r /\ v.free = w.free
      /\ v.posted = w.posted
      /\ \A d \in Conns : /\ v.conns[d].open = w.conns[d].open
                          /\ v.conns[d].inst = w.conns[d].inst
                          /\ v.conns[d].taken = w.conns[d].taken
                          /\ v.conns[d].reusable = IF d = c THEN on ELSE w.conns[d].reusable
    <2> DEFINE K == [w.conns EXCEPT ![c] = [w.conns[c] EXCEPT !.reusable = on]]
    <2>1. w.conns \in [Conns -> ConnState] BY <1>0 DEF WorkerState
    <2>2. K \in [Conns -> ConnState] BY <2>1 DEF ConnState
    <2>3. \A d \in Conns : /\ K[d].open = w.conns[d].open /\ K[d].inst = w.conns[d].inst
                           /\ K[d].taken = w.conns[d].taken
                           /\ K[d].reusable = IF d = c THEN on ELSE w.conns[d].reusable
        BY <2>1 DEF ConnState
    <2>4. v = [w EXCEPT !.conns = K, !.reuse = r] BY <1>0, <1>3 DEF WorkerState
    <2> HIDE DEF K
    <2>5. /\ v \in WorkerState /\ SameTurn(w, v) /\ v.reuse = r /\ v.free = w.free
          /\ v.posted = w.posted /\ v.conns = K
        BY Zenon, <1>0, <1>2, <2>2, <2>4 DEF WorkerState, SameTurn
    <2> QED BY <2>3, <2>5, Zenon
<1>5. PoolInv(v) BY SMTT(30), <1>0, <1>2, <1>4 DEF PoolInv, WorkerState
<1>6. BatchInv(v) BY <1>0, <1>4 DEF BatchInv, SameTurn
<1>7. Quiet(w) => Quiet(v) BY <1>4, Zenon DEF Quiet, SameTurn
<1> QED BY <1>2, <1>4, <1>5, <1>6, <1>7 DEF v, Follows, Sound

\* ngx_close_connection.
LEMMA CloseSound ==
    ASSUME NEW w, Sound(w), NEW c \in Conns, w.conns[c].open
    PROVE  Follows(w, CloseConnection(w, c))
<1> DEFINE u == SetReusable(w, c, FALSE)
           v == CloseConnection(w, c)
           f == <<c>> \o u.free
<1>1. /\ Follows(w, u) /\ u.conns[c].reusable = FALSE
      /\ u.conns[c].open /\ ~Holds(u.reuse, c)
    BY Zenon, SetReusableSound
<1>2. u \in WorkerState /\ PoolInv(u) /\ BatchInv(u) BY Zenon, <1>1 DEF Follows, Sound
<1>3. v = [u EXCEPT !.conns[c].open = FALSE, !.free = f, !.posted = u.posted \ {c}]
    BY <1>2 DEF CloseConnection, WorkerState
<1> HIDE DEF u, v
<1>4. f \in Seq(Conns) /\ Single(f) /\ \A d : Holds(f, d) <=> d = c \/ Holds(u.free, d)
    <2>1. u.free \in Seq(Conns) /\ Single(u.free) /\ ~Holds(u.free, c)
        BY <1>1, <1>2 DEF WorkerState, PoolInv
    <2> QED BY <2>1, Pushed
<1> HIDE DEF f
<1>5. /\ v \in WorkerState /\ SameTurn(u, v) /\ v.reuse = u.reuse /\ v.free = f
      /\ v.posted = u.posted \ {c}
      /\ \A d \in Conns : /\ v.conns[d].open = (d # c /\ u.conns[d].open)
                          /\ v.conns[d].inst = u.conns[d].inst
                          /\ v.conns[d].taken = u.conns[d].taken
                          /\ v.conns[d].reusable = u.conns[d].reusable
    BY ZenonT(30), <1>2, <1>3, <1>4 DEF WorkerState, ConnState, SameTurn
<1>6. PoolInv(v)
    <2>1. \A d \in v.posted : d \in Conns BY <1>5 DEF WorkerState
    <2> QED BY Zenon, <2>1, <1>1, <1>2, <1>4, <1>5 DEF PoolInv
<1>7. BatchInv(v) BY <1>2, <1>5 DEF BatchInv, SameTurn
<1>8. Quiet(u) => Quiet(v) BY ZenonT(30), <1>5, Zenon DEF Quiet, SameTurn
<1>9. Follows(u, v) BY <1>5, <1>6, <1>7, <1>8 DEF Follows, Sound
<1> QED BY <1>1, <1>9, SameTurnTrans DEF v

\* ngx_drain_connections: the connections closed are the oldest of the queue, and they are
\* open because they are idle.
LEMMA DrainSound ==
    ASSUME NEW w, Sound(w)
    PROVE  Follows(w, DrainConnections(w))
<1> DEFINE q == w.reuse
           kept == IF Len(q) <= 32 THEN 0 ELSE Len(q) - 32
           gone == SubSeq(q, kept + 1, Len(q))
           rest == SubSeq(q, 1, kept)
           f == gone \o w.free
           K == [c \in Conns |-> IF c \notin Range(gone) THEN w.conns[c]
                    ELSE [w.conns[c] EXCEPT !.open = FALSE, !.reusable = FALSE]]
           v == DrainConnections(w)
<1>0. w \in WorkerState /\ PoolInv(w) /\ BatchInv(w) BY DEF Sound
<1>1. v = [w EXCEPT !.conns = K, !.free = f, !.reuse = rest, !.posted = w.posted \ Range(gone)]
    BY <1>0 DEF DrainConnections, WorkerState
<1>2. q \in Seq(Conns) /\ Single(q) /\ Len(q) \in Nat
    BY <1>0, LenProperties DEF WorkerState, PoolInv
<1>3. /\ kept + 1 \in 1..Len(q) + 1 /\ Len(q) \in 0..Len(q)
      /\ 1 \in 1..Len(q) + 1 /\ kept \in 0..Len(q)
    BY <1>2
<1> HIDE DEF kept, v
<1>4. /\ gone \in Seq(Conns) /\ Single(gone)
      /\ \A d : Holds(gone, d) <=> \E i \in kept + 1..Len(q) : q[i] = d
    BY SMTT(30), <1>2, <1>3, Part
<1>5. /\ rest \in Seq(Conns) /\ Single(rest)
      /\ \A d : Holds(rest, d) <=> \E i \in 1..kept : q[i] = d
    BY <1>2, <1>3, Part
<1> HIDE DEF q, gone, rest
<1>5a. /\ \A i \in 1..Len(q) : i \in 1..kept \/ i \in kept + 1..Len(q)
       /\ \A i \in 1..kept : i \in 1..Len(q)
       /\ \A i \in kept + 1..Len(q) : i \in 1..Len(q)
       /\ \A i \in 1..kept, j \in kept + 1..Len(q) : i # j
    BY <1>2, <1>3
<1>6. \A d : Holds(q, d) => (Holds(rest, d) <=> ~Holds(gone, d))
    <2> SUFFICES ASSUME NEW d, Holds(q, d) PROVE Holds(rest, d) <=> ~Holds(gone, d) OBVIOUS
    <2>1. PICK k \in 1..Len(q) : q[k] = d BY Zenon DEF Holds
    <2>2. \A i \in 1..Len(q) : q[i] = d => i = k BY <1>2, <2>1 DEF Single
    <2>3. Holds(rest, d) <=> k \in 1..kept BY <1>5, <1>5a, <2>1, <2>2, Zenon
    <2>4. Holds(gone, d) <=> k \in kept + 1..Len(q) BY <1>4, <1>5a, <2>1, <2>2, Zenon
    <2> QED BY <1>5a, <2>3, <2>4, Zenon
<1>7. \A d : Holds(gone, d) \/ Holds(rest, d) => Holds(q, d)
    BY <1>4, <1>5, <1>5a, Zenon DEF Holds
<1> USE DEF q
<1>8. \A d : d \in Range(gone) <=> Holds(gone, d) BY <1>4, Members
<1>9. \A d \in Conns : /\ Holds(w.free, d) <=> ~w.conns[d].open
                       /\ Holds(q, d) <=> w.conns[d].reusable
                       /\ w.conns[d].reusable => w.conns[d].open
    BY <1>0 DEF PoolInv
<1>10. f \in Seq(Conns) /\ Single(f) /\ \A d : Holds(f, d) <=> Holds(gone, d) \/ Holds(w.free, d)
    <2>1. w.free \in Seq(Conns) /\ Single(w.free) BY <1>0 DEF WorkerState, PoolInv
    <2>2. \A d \in Conns : ~(Holds(gone, d) /\ Holds(w.free, d)) BY <1>7, <1>9
    <2> QED BY <1>4, <2>1, <2>2, Joined
<1>11. K \in [Conns -> ConnState] /\ \A d \in Conns :
             /\ K[d].inst = w.conns[d].inst /\ K[d].taken = w.conns[d].taken
             /\ K[d].open = (~Holds(gone, d) /\ w.conns[d].open)
             /\ K[d].reusable = (~Holds(gone, d) /\ w.conns[d].reusable)
    <2>1. w.conns \in [Conns -> ConnState] BY <1>0 DEF WorkerState
    <2> QED BY ZenonT(30), <2>1, <1>8 DEF ConnState
<1> HIDE DEF f, K
<1>12. /\ v \in WorkerState /\ SameTurn(w, v) /\ v.reuse = rest /\ v.free = f
       /\ v.posted = w.posted \ Range(gone) /\ v.conns = K
    BY Zenon, <1>0, <1>1, <1>5, <1>10, <1>11 DEF WorkerState, SameTurn
<1>13. PoolInv(v)
    <2>1. \A d \in w.posted : d \in Conns /\ w.conns[d].open BY <1>0 DEF WorkerState, PoolInv
    <2>2. \A d \in Conns : Holds(f, d) <=> ~K[d].open BY Zenon, <1>9, <1>10, <1>11
    <2>3. \A d \in Conns : Holds(rest, d) <=> K[d].reusable BY Zenon, <1>6, <1>7, <1>9, <1>11
    <2>4. \A d \in Conns : K[d].reusable => K[d].open BY Zenon, <1>9, <1>11
    <2>5. \A d \in v.posted : K[d].open BY Zenon, <2>1, <1>8, <1>11, <1>12
    <2> QED BY <1>5, <1>10, <1>12, <2>2, <2>3, <2>4, <2>5, Zenon DEF PoolInv
<1>14. BatchInv(v) BY <1>0, <1>11, <1>12 DEF BatchInv, SameTurn
<1>15. Quiet(w) => Quiet(v) BY <1>11, <1>12 DEF Quiet, SameTurn
<1> QED BY <1>12, <1>13, <1>14, <1>15 DEF v, Follows, Sound

\* ngx_get_connection: the structure taken has the other instance bit.
LEMMA GetSound ==
    ASSUME NEW w, Sound(w)
    PROVE  Follows(w, GetConnection(w))
<1> DEFINE d == IF w.free = <<>> THEN DrainConnections(w) ELSE w
           v == GetConnection(w)
           c == Head(d.free)
           new == [open |-> TRUE, inst |-> 1 - d.conns[c].inst, reusable |-> FALSE,
                   taken |-> IF d.batch = {} THEN 0 ELSE d.conns[c].taken + 1]
           K == [d.conns EXCEPT ![c] = new]
<1>1. Follows(w, d)
    <2>1. Follows(w, w) BY DEF Follows, SameTurn
    <2> QED BY <2>1, DrainSound
<1>2. d \in WorkerState /\ PoolInv(d) /\ BatchInv(d) BY <1>1 DEF Follows, Sound
<1>3. CASE d.free = <<>>
    <2>1. v = d BY <1>3 DEF GetConnection
    <2> QED BY <1>1, <2>1
<1>4. CASE d.free # <<>>
    <2>1. v = [d EXCEPT !.free = Tail(d.free), !.conns = K]
        BY <1>4, <1>2 DEF GetConnection, WorkerState
    <2> HIDE DEF d, v
    <2>2. d.free \in Seq(Conns) /\ Single(d.free) /\ d.conns \in [Conns -> ConnState]
        BY <1>2 DEF WorkerState, PoolInv
    <2>3. /\ Tail(d.free) \in Seq(Conns) /\ Single(Tail(d.free)) /\ c \in Conns /\ Holds(d.free, c)
          /\ \A x : Holds(Tail(d.free), x) <=> x # c /\ Holds(d.free, x)
        BY <1>4, <2>2, Popped
    <2> HIDE DEF c
    <2>4. ~d.conns[c].open /\ ~d.conns[c].reusable /\ c \notin d.posted
        BY <1>2, <2>3 DEF PoolInv
    <2>5. /\ new \in ConnState /\ new.open /\ ~new.reusable /\ new.inst = 1 - d.conns[c].inst
          /\ new.taken = IF d.batch = {} THEN 0 ELSE d.conns[c].taken + 1
        BY <2>2, <2>3 DEF ConnState
    <2> HIDE DEF new
    <2>6. K \in [Conns -> ConnState] /\ \A x \in Conns : K[x] = IF x = c THEN new ELSE d.conns[x]
        BY <2>2, <2>3, <2>5
    <2> HIDE DEF K
    <2>7. /\ v \in WorkerState /\ SameTurn(d, v) /\ v.free = Tail(d.free) /\ v.conns = K
          /\ v.reuse = d.reuse /\ v.posted = d.posted
        BY Zenon, <1>2, <2>1, <2>3, <2>6 DEF WorkerState, SameTurn
    <2>8. PoolInv(v)
        <3>1. \A x \in d.posted : x \in Conns BY <1>2 DEF WorkerState
        <3> QED BY <3>1, <1>2, <2>3, <2>4, <2>5, <2>6, <2>7 DEF PoolInv
    <2>9. BatchInv(v)
        <3> SUFFICES ASSUME NEW e \in d.batch, e.sock = NoSocket
                     PROVE  /\ e.c \in Conns
                            /\ K[e.c].taken = 0 => K[e.c].inst = e.inst
                            /\ K[e.c].taken = 1 => K[e.c].inst # e.inst
            BY <2>7 DEF BatchInv, SameTurn
        <3>1. /\ e.c \in Conns
              /\ d.conns[e.c].taken = 0 => d.conns[e.c].inst = e.inst
              /\ d.conns[e.c].taken = 1 => d.conns[e.c].inst # e.inst
            BY <1>2 DEF BatchInv
        <3>2. CASE e.c # c BY <3>1, <3>2, <2>6
        <3>3. CASE e.c = c
            <4>1. /\ d.conns[c].taken \in Nat /\ d.conns[c].inst \in {0, 1}
                BY <2>2, <2>3 DEF ConnState
            <4>2. K[c].taken = d.conns[c].taken + 1 /\ K[c].inst = 1 - d.conns[c].inst
                BY <2>3, <2>5, <2>6
            <4> QED BY <3>1, <3>3, <4>1, <4>2
        <3> QED BY <3>2, <3>3
    <2>10. Quiet(d) => Quiet(v) BY <2>5, <2>6, <2>7 DEF Quiet, SameTurn
    <2>11. Follows(d, v) BY <2>7, <2>8, <2>9, <2>10 DEF Follows, Sound
    <2> QED BY <1>1, <2>11, SameTurnTrans DEF v
<1> QED BY <1>3, <1>4

\* A handler of an open connection.
LEMMA HandlerSound ==
    ASSUME NEW w, Sound(w), NEW c \in Conns, w.conns[c].open, NEW connect \in BOOLEAN,
           NEW r \in HandlerResults(w, c, connect)
    PROVE  Follows(w, r)
<1>1. Follows(w, SetReusable(w, c, TRUE)) BY Zenon, SetReusableSound
<1>2. Follows(w, SetReusable(w, c, FALSE)) BY Zenon, SetReusableSound
<1>3. Follows(w, CloseConnection(w, c)) BY CloseSound
<1>4. Follows(w, GetConnection(SetReusable(w, c, FALSE)))
    <2>1. Sound(SetReusable(w, c, FALSE)) BY Zenon, <1>2 DEF Follows
    <2>2. Follows(SetReusable(w, c, FALSE), GetConnection(SetReusable(w, c, FALSE)))
        BY Zenon, <2>1, GetSound
    <2> QED BY Zenon, <1>2, <2>2, SameTurnTrans
<1> QED BY Zenon, <1>1, <1>2, <1>3, <1>4 DEF HandlerResults

-----------------------------------------------------------------------------
(* The loop *)

\* The events of a batch, and the history of the structures taken, are gone when the turn
\* goes on to the timers; accept events are posted, and timers of sockets set, only by the
\* two ways of accepting, with and without the mutex.
TurnInv(w) ==
    /\ \/ w.pc = "dispatch"
       \/ w.pc = "accept" /\ w.ret = "dispatch"
       \/ Quiet(w)
    /\ ~w.misfired
    /\ w.posting => w.mutex
    /\ w.timers # {} => ~w.mutex
    /\ w.pc = "accept" => w.cur \in Sockets

Good(w) == Sound(w) /\ TurnInv(w)

\* The mutex covers the posted accept events of worker i; the lack of descriptors in an
\* earlier turn, still noted, does not excuse the wait.
Covers(w, l, i) ==
    /\ w.posting /\ w.pc = "wait" => l = i
    /\ w.posting /\ w.pc \in {"dispatch", "accept"} => l = i \/ w.emfile

LoopInv ==
    /\ mode \in Modes /\ DOMAIN worker = Workers
    /\ \A i \in Workers : Good(worker[i]) /\ Covers(worker[i], lock, i)

\* What a step of worker i does to the others.
StepOf(i) ==
    /\ \E v : Set(i, v) /\ Good(v) /\ Covers(v, lock', i)
    /\ mode' = mode
    /\ \A j \in Workers \ {i} : lock = j => lock' = j

\* ngx_event_process_init.
LEMMA FreshGood ==
    ASSUME NEW m \in BOOLEAN, NEW l, NEW i
    PROVE  Good(Fresh(m)) /\ Covers(Fresh(m), l, i)
<1> DEFINE w == Fresh(m)
           f == [c \in Conns |-> c]
           K == [c \in Conns |-> FreeConn]
<1>1. f \in Seq(Conns) /\ Len(f) = Connections BY EventLoopAssumption DEF Conns
<1>2. K \in [Conns -> ConnState] /\ \A c \in Conns : K[c] = FreeConn
    BY DEF FreeConn, ConnState
<1>3. Single(f) /\ \A c \in Conns : Holds(f, c) BY Zenon, <1>1 DEF Single, Holds, Conns
<1>4. /\ w.conns = K /\ w.free = f /\ w.reuse = <<>> /\ w.posted = {} /\ w.batch = {}
      /\ w.posting = FALSE /\ w.timers = {} /\ w.misfired = FALSE /\ w.pc = "begin"
    BY DEF Fresh
<1> HIDE DEF f, K
<1>5. w \in WorkerState
    <2>1. w = [pc |-> "begin", listening |-> TRUE, mutex |-> m, held |-> FALSE, disabled |-> 0,
               posting |-> FALSE, active |-> IF m THEN {} ELSE Sockets, timers |-> {},
               emfile |-> FALSE, conns |-> K, free |-> f, reuse |-> <<>>, batch |-> {},
               accepts |-> {}, posted |-> {}, cur |-> NoSocket, ret |-> "begin",
               misfired |-> FALSE]
        BY DEF Fresh, f, K
    <2> HIDE DEF w
    <2> QED BY SMTT(30), <2>1, <1>1, <1>2 DEF WorkerState, Places
<1> HIDE DEF w
<1>6. \A c : ~Holds(<<>>, c) BY DEF Holds
<1>7. Single(<<>>) BY DEF Single
<1>8. PoolInv(w) BY <1>2, <1>3, <1>4, <1>6, <1>7 DEF PoolInv, FreeConn
<1>9. BatchInv(w) BY <1>4 DEF BatchInv
<1>10. TurnInv(w) BY <1>2, <1>4 DEF TurnInv, Quiet, FreeConn
<1> QED BY <1>4, <1>5, <1>8, <1>9, <1>10 DEF Good, Sound, Covers, w

\* Steps that leave the pool and the batch alone.
LEMMA Elsewhere ==
    ASSUME NEW w, Sound(w), NEW v \in WorkerState, v.conns = w.conns, v.free = w.free,
           v.reuse = w.reuse, v.posted \subseteq w.posted, v.batch \subseteq w.batch
    PROVE  Sound(v) /\ (Quiet(w) => Quiet(v))
<1>1. PoolInv(w) /\ BatchInv(w) BY DEF Sound
<1>2. PoolInv(v) BY <1>1, Zenon DEF PoolInv
<1>3. BatchInv(v) BY <1>1 DEF BatchInv
<1>4. Quiet(w) => Quiet(v) BY DEF Quiet
<1> QED BY <1>2, <1>3, <1>4 DEF Sound

LEMMA InitLoop == Init => LoopInv
<1> SUFFICES ASSUME Init PROVE LoopInv OBVIOUS
<1>1. mode \in Modes /\ mode.mutex \in BOOLEAN BY EventLoopAssumption DEF Init
<1>2. worker = [i \in Workers |-> Fresh(mode.mutex)] BY DEF Init
<1>3. \A i \in Workers : Good(Fresh(mode.mutex)) /\ Covers(Fresh(mode.mutex), lock, i)
    BY <1>1, FreshGood
<1> QED BY <1>1, <1>2, <1>3 DEF LoopInv

\* A step of worker i that leaves its pool and its batch alone.
LEMMA PlainStep ==
    ASSUME LoopInv, NEW i \in Workers, NEW v \in WorkerState, Set(i, v), mode' = mode,
           v.conns = worker[i].conns, v.free = worker[i].free, v.reuse = worker[i].reuse,
           v.posted = worker[i].posted, v.batch = worker[i].batch,
           v.misfired = worker[i].misfired,
           v.pc = "dispatch" \/ (v.pc = "accept" /\ v.ret = "dispatch") \/ Quiet(worker[i]),
           v.posting => v.mutex, v.timers # {} => ~v.mutex, Covers(v, lock', i),
           v.pc = "accept" => v.cur \in Sockets,
           \A j \in Workers \ {i} : lock = j => lock' = j
    PROVE  StepOf(i)
<1>1. Sound(worker[i]) /\ ~worker[i].misfired BY DEF LoopInv, Good, TurnInv
<1>2. Sound(v) /\ (Quiet(worker[i]) => Quiet(v)) BY <1>1, Elsewhere
<1>3. TurnInv(v) BY <1>1, <1>2 DEF TurnInv
<1> QED BY <1>2, <1>3 DEF StepOf, Good

\* The steps of ngx_process_events_and_timers that run no handler.
LEMMA PlainSteps ==
    ASSUME LoopInv, NEW i \in Workers,
           Begin(i) \/ BeginFails(i) \/ PostedAccept(i) \/ AcceptTimer(i) \/ Timers(i) \/ Quit(i)
    PROVE  StepOf(i)
<1> DEFINE w == worker[i]
<1>1. /\ w \in WorkerState /\ TurnInv(w) /\ Covers(w, lock, i)
      /\ i \in Nat /\ i # 0 /\ Workers \subseteq Nat \ {0}
    BY EventLoopAssumption DEF LoopInv, Good, Sound
<1>2. w.pc \notin {"dispatch", "accept"} => Quiet(w) BY <1>1 DEF TurnInv
<1>3. CASE Begin(i)
    <2>1. CASE ~w.mutex /\ Set(i, [w EXCEPT !.pc = "wait"]) /\ UNCHANGED <<lock, count>>
        <3> DEFINE v == [w EXCEPT !.pc = "wait"]
        <3>a. w.pc = "begin" /\ mode' = mode /\ Set(i, v) /\ lock' = lock /\ ~w.mutex
            BY <1>3, <2>1 DEF Begin
        <3>b. /\ v \in WorkerState /\ v.conns = w.conns /\ v.free = w.free /\ v.reuse = w.reuse
              /\ v.posted = w.posted /\ v.batch = w.batch /\ v.misfired = w.misfired
              /\ v.pc = "wait" /\ v.posting = w.posting /\ v.mutex = w.mutex /\ v.timers = w.timers
            BY Zenon, <1>1, <3>a DEF WorkerState, Places
        <3> HIDE DEF v
        <3>c. /\ v.posting => v.mutex
              /\ v.timers # {} => ~v.mutex
              /\ Covers(v, lock', i) /\ (v.pc = "accept" => v.cur \in Sockets)
              /\ \A j \in Workers \ {i} : lock = j => lock' = j
            BY <1>1, <3>a, <3>b DEF TurnInv, Covers
        <3> QED BY SMTT(30), <1>2, <3>a, <3>b, <3>c, PlainStep
    <2>2. CASE /\ w.mutex /\ w.disabled > 0
               /\ Set(i, [w EXCEPT !.pc = "wait", !.disabled = @ - 1, !.posting = FALSE])
               /\ UNCHANGED <<lock, count>>
        <3> DEFINE n == w.disabled - 1
                   v == [w EXCEPT !.pc = "wait", !.disabled = n, !.posting = FALSE]
        <3>a. w.pc = "begin" /\ mode' = mode /\ Set(i, v) /\ lock' = lock
            BY <1>3, <2>2 DEF Begin
        <3>n. n \in Int BY SMTT(30), <1>1 DEF WorkerState
        <3> HIDE DEF n
        <3>b. /\ v \in WorkerState /\ v.conns = w.conns /\ v.free = w.free /\ v.reuse = w.reuse
              /\ v.posted = w.posted /\ v.batch = w.batch /\ v.misfired = w.misfired
              /\ v.pc = "wait" /\ v.posting = FALSE /\ v.mutex = w.mutex /\ v.timers = w.timers
            BY Zenon, <1>1, <3>a, <3>n DEF WorkerState, Places
        <3> HIDE DEF v
        <3>c. /\ v.posting => v.mutex
              /\ v.timers # {} => ~v.mutex
              /\ Covers(v, lock', i) /\ (v.pc = "accept" => v.cur \in Sockets)
              /\ \A j \in Workers \ {i} : lock = j => lock' = j
            BY SMTT(30), <1>1, <3>a, <3>b DEF TurnInv, Covers
        <3> QED BY SMTT(30), <1>2, <3>a, <3>b, <3>c, PlainStep
    <2>3. CASE /\ w.mutex /\ w.disabled <= 0 /\ lock = 0 /\ lock' = i
               /\ Set(i, [w EXCEPT !.pc = "wait", !.held = TRUE, !.posting = TRUE,
                                   !.active = IF w.held THEN @ ELSE Sockets])
        <3> DEFINE v == [w EXCEPT !.pc = "wait", !.held = TRUE, !.posting = TRUE,
                                 !.active = IF w.held THEN @ ELSE Sockets]
        <3>a. w.pc = "begin" /\ mode' = mode /\ Set(i, v) /\ lock = 0 /\ lock' = i /\ w.mutex
            BY <1>3, <2>3 DEF Begin
        <3>b. /\ v \in WorkerState /\ v.conns = w.conns /\ v.free = w.free /\ v.reuse = w.reuse
              /\ v.posted = w.posted /\ v.batch = w.batch /\ v.misfired = w.misfired
              /\ v.pc = "wait" /\ v.posting = TRUE /\ v.mutex = w.mutex /\ v.timers = w.timers
            BY ZenonT(30), <1>1, <3>a DEF WorkerState, Places
        <3> HIDE DEF v
        <3>c. /\ v.posting => v.mutex
              /\ v.timers # {} => ~v.mutex
              /\ Covers(v, lock', i) /\ (v.pc = "accept" => v.cur \in Sockets)
              /\ \A j \in Workers \ {i} : lock = j => lock' = j
            BY <1>1, <3>a, <3>b DEF TurnInv, Covers
        <3> QED BY Zenon, <1>2, <3>a, <3>b, <3>c, PlainStep
    <2>4. CASE /\ w.mutex /\ w.disabled <= 0 /\ lock # 0
               /\ Set(i, [w EXCEPT !.pc = "wait", !.held = FALSE, !.posting = FALSE,
                                   !.active = IF w.held THEN {} ELSE @])
               /\ UNCHANGED <<lock, count>>
        <3> DEFINE v == [w EXCEPT !.pc = "wait", !.held = FALSE, !.posting = FALSE,
                                 !.active = IF w.held THEN {} ELSE @]
        <3>a. w.pc = "begin" /\ mode' = mode /\ Set(i, v) /\ lock' = lock
            BY <1>3, <2>4 DEF Begin
        <3>b. /\ v \in WorkerState /\ v.conns = w.conns /\ v.free = w.free /\ v.reuse = w.reuse
              /\ v.posted = w.posted /\ v.batch = w.batch /\ v.misfired = w.misfired
              /\ v.pc = "wait" /\ v.posting = FALSE /\ v.mutex = w.mutex /\ v.timers = w.timers
            BY ZenonT(30), <1>1, <3>a DEF WorkerState, Places
        <3> HIDE DEF v
        <3>c. /\ v.posting => v.mutex
              /\ v.timers # {} => ~v.mutex
              /\ Covers(v, lock', i) /\ (v.pc = "accept" => v.cur \in Sockets)
              /\ \A j \in Workers \ {i} : lock = j => lock' = j
            BY <1>1, <3>a, <3>b DEF TurnInv, Covers
        <3> QED BY <1>2, <3>a, <3>b, <3>c, PlainStep
    <2> QED BY <1>3, <2>1, <2>2, <2>3, <2>4 DEF Begin
<1>4. CASE BeginFails(i)
    <2>1. \E a \in SUBSET Sockets : Set(i, [w EXCEPT !.active = a])
        BY Zenon, <1>1, <1>4 DEF BeginFails, WorkerState
    <2>2. PICK a \in SUBSET Sockets : Set(i, [w EXCEPT !.active = a]) BY <2>1
    <2> DEFINE v == [w EXCEPT !.active = a]
    <2>a. w.pc = "begin" /\ mode' = mode /\ Set(i, v) /\ lock' = lock
        BY <1>4, <2>2 DEF BeginFails
    <2>b. /\ v \in WorkerState /\ v.conns = w.conns /\ v.free = w.free /\ v.reuse = w.reuse
          /\ v.posted = w.posted /\ v.batch = w.batch /\ v.misfired = w.misfired
          /\ v.pc = "begin" /\ v.posting = w.posting /\ v.mutex = w.mutex /\ v.timers = w.timers
        BY Zenon, <1>1, <2>a DEF WorkerState, Places
    <2> HIDE DEF v
    <2>c. /\ v.posting => v.mutex
          /\ v.timers # {} => ~v.mutex
          /\ Covers(v, lock', i) /\ (v.pc = "accept" => v.cur \in Sockets)
          /\ \A j \in Workers \ {i} : lock = j => lock' = j
        BY <1>1, <2>a, <2>b DEF TurnInv, Covers
    <2> QED BY SMTT(30), <1>2, <2>a, <2>b, <2>c, PlainStep
<1>5. CASE PostedAccept(i)
    <2>1. PICK s \in w.accepts :
              Set(i, [w EXCEPT !.pc = "accept", !.cur = s, !.ret = "dispatch", !.accepts = @ \ {s}])
        BY Zenon, <1>5 DEF PostedAccept
    <2> DEFINE v == [w EXCEPT !.pc = "accept", !.cur = s, !.ret = "dispatch", !.accepts = @ \ {s}]
    <2>a. w.pc = "dispatch" /\ mode' = mode /\ Set(i, v) /\ lock' = lock
        BY Zenon, <1>5, <2>1 DEF PostedAccept
    <2>b. /\ v \in WorkerState /\ v.conns = w.conns /\ v.free = w.free /\ v.reuse = w.reuse
          /\ v.posted = w.posted /\ v.batch = w.batch /\ v.misfired = w.misfired
          /\ v.pc = "accept" /\ v.cur \in Sockets /\ v.ret = "dispatch" /\ v.emfile = w.emfile /\ v.posting = w.posting /\ v.mutex = w.mutex /\ v.timers = w.timers
        BY Zenon, <1>1, <2>a DEF WorkerState, Places
    <2> HIDE DEF v
    <2>c. /\ v.posting => v.mutex
          /\ v.timers # {} => ~v.mutex
          /\ Covers(v, lock', i) /\ (v.pc = "accept" => v.cur \in Sockets)
          /\ \A j \in Workers \ {i} : lock = j => lock' = j
        BY SMTT(30), <1>1, <2>a, <2>b DEF TurnInv, Covers
    <2> QED BY SMTT(30), <1>2, <2>a, <2>b, <2>c, PlainStep
<1>6. CASE AcceptTimer(i)
    <2>1. PICK s \in w.timers :
              Set(i, [w EXCEPT !.timers = @ \ {s}, !.active = Sockets, !.pc = "accept",
                               !.cur = s, !.ret = "timers"])
        BY Zenon, <1>6 DEF AcceptTimer
    <2> DEFINE v == [w EXCEPT !.timers = @ \ {s}, !.active = Sockets, !.pc = "accept",
                             !.cur = s, !.ret = "timers"]
    <2>a. w.pc = "timers" /\ mode' = mode /\ Set(i, v) /\ lock' = lock
        BY Zenon, <1>6, <2>1 DEF AcceptTimer
    <2>b. /\ v \in WorkerState /\ v.conns = w.conns /\ v.free = w.free /\ v.reuse = w.reuse
          /\ v.posted = w.posted /\ v.batch = w.batch /\ v.misfired = w.misfired
          /\ v.posting = w.posting /\ v.mutex = w.mutex /\ w.timers # {} /\ v.cur \in Sockets
        BY Zenon, <1>1, <2>a DEF WorkerState, Places
    <2> HIDE DEF v
    <2>c. /\ v.posting => v.mutex
          /\ v.timers # {} => ~v.mutex
          /\ Covers(v, lock', i) /\ (v.pc = "accept" => v.cur \in Sockets)
          /\ \A j \in Workers \ {i} : lock = j => lock' = j
        BY <1>1, <2>a, <2>b DEF TurnInv, Covers
    <2> QED BY SMTT(30), <1>2, <2>a, <2>b, <2>c, PlainStep
<1>7. CASE Timers(i)
    <2> DEFINE v == [w EXCEPT !.pc = "posted"]
    <2>a. w.pc = "timers" /\ mode' = mode /\ Set(i, v) /\ lock' = lock
        BY <1>7 DEF Timers
    <2>b. /\ v \in WorkerState /\ v.conns = w.conns /\ v.free = w.free /\ v.reuse = w.reuse
          /\ v.posted = w.posted /\ v.batch = w.batch /\ v.misfired = w.misfired
          /\ v.pc = "posted" /\ v.posting = w.posting /\ v.mutex = w.mutex /\ v.timers = w.timers
        BY Zenon, <1>1, <2>a DEF WorkerState, Places
    <2> HIDE DEF v
    <2>c. /\ v.posting => v.mutex
          /\ v.timers # {} => ~v.mutex
          /\ Covers(v, lock', i) /\ (v.pc = "accept" => v.cur \in Sockets)
          /\ \A j \in Workers \ {i} : lock = j => lock' = j
        BY <1>1, <2>a, <2>b DEF TurnInv, Covers
    <2> QED BY SMTT(30), <1>2, <2>a, <2>b, <2>c, PlainStep
<1>8. CASE Quit(i)
    <2> DEFINE v == [w EXCEPT !.listening = FALSE, !.held = FALSE, !.mutex = FALSE, !.active = {},
                             !.timers = {}, !.posting = FALSE]
    <2>a. w.pc = "begin" /\ mode' = mode /\ Set(i, v) /\ lock' = lock
        BY <1>8 DEF Quit
    <2>b. /\ v \in WorkerState /\ v.conns = w.conns /\ v.free = w.free /\ v.reuse = w.reuse
          /\ v.posted = w.posted /\ v.batch = w.batch /\ v.misfired = w.misfired
          /\ v.posting = FALSE /\ v.timers = {} /\ v.pc = "begin"
        BY Zenon, <1>1, <2>a DEF WorkerState, Places
    <2> HIDE DEF v
    <2>c. /\ v.posting => v.mutex
          /\ v.timers # {} => ~v.mutex
          /\ Covers(v, lock', i) /\ (v.pc = "accept" => v.cur \in Sockets)
          /\ \A j \in Workers \ {i} : lock = j => lock' = j
        BY <1>1, <2>a, <2>b DEF TurnInv, Covers
    <2> QED BY SMTT(30), <1>2, <2>a, <2>b, <2>c, PlainStep
<1> QED BY <1>3, <1>4, <1>5, <1>6, <1>7, <1>8

\* Death and the start of the next worker in the slot.
LEMMA ProcessSteps ==
    ASSUME LoopInv, NEW i \in Workers, Die(i) \/ Reap(i)
    PROVE  StepOf(i)
<1>1. mode.mutex \in BOOLEAN /\ i \in Nat /\ i # 0 BY EventLoopAssumption DEF LoopInv
<1>2. Good(Fresh(mode.mutex)) /\ Covers(Fresh(mode.mutex), lock', i) BY <1>1, FreshGood
<1>3. CASE Reap(i)
    <2>1. /\ Set(i, Fresh(mode.mutex)) /\ mode' = mode
          /\ lock' = IF lock = i THEN 0 ELSE lock
        BY <1>3 DEF Reap, UnlockMutexes
    <2> QED BY <1>2, <2>1 DEF StepOf
<1>4. CASE Die(i)
    <2> DEFINE w == Fresh(mode.mutex)
               v == [w EXCEPT !.pc = "dead"]
    <2>1. Set(i, v) /\ mode' = mode /\ lock' = lock BY <1>4 DEF Die
    <2>2. w \in WorkerState /\ Sound(w) /\ TurnInv(w) BY <1>2 DEF Good, Sound
    <2>3. w.pc = "begin" BY DEF Fresh
    <2> HIDE DEF w
    <2>4. /\ v \in WorkerState /\ v.conns = w.conns /\ v.free = w.free /\ v.reuse = w.reuse
          /\ v.posted = w.posted /\ v.batch = w.batch /\ v.pc = "dead" /\ v.misfired = w.misfired
          /\ v.posting = w.posting /\ v.mutex = w.mutex /\ v.timers = w.timers
        BY Zenon, <2>2 DEF WorkerState, Places
    <2> HIDE DEF v
    <2>5. Sound(v) /\ (Quiet(w) => Quiet(v)) BY <2>2, <2>4, Elsewhere
    <2>6. Good(v) /\ Covers(v, lock', i) BY <2>2, <2>3, <2>4, <2>5 DEF Good, TurnInv, Covers
    <2> QED BY <2>1, <2>6 DEF StepOf
<1> QED BY <1>3, <1>4

\* Steps that touch the pool: v comes from the pool operations on u, which differs from the
\* state of worker i in its place only.
LEMMA PoolStep ==
    ASSUME LoopInv, NEW i \in Workers, NEW u, NEW v, Follows(u, v), Set(i, v),
           mode' = mode, lock' = lock, TurnInv(u), Covers(u, lock, i)
    PROVE  StepOf(i)
<1>1. Sound(v) /\ SameTurn(u, v) /\ (Quiet(u) => Quiet(v)) BY DEF Follows
<1>2. TurnInv(v) BY <1>1 DEF TurnInv, SameTurn
<1>3. Covers(v, lock', i) BY <1>1 DEF Covers, SameTurn
<1> QED BY <1>1, <1>2, <1>3 DEF StepOf, Good

\* ngx_epoll_process_events collects the events of a batch.
LEMMA WaitStep ==
    ASSUME LoopInv, NEW i \in Workers, Wait(i)
    PROVE  StepOf(i)
<1> DEFINE w == worker[i]
           socks == {s \in w.active : backlog[s] > 0}
<1>1. /\ w \in WorkerState /\ PoolInv(w) /\ TurnInv(w) /\ Covers(w, lock, i)
      /\ w.pc = "wait" /\ mode' = mode /\ lock' = lock
    BY DEF LoopInv, Good, Sound, Wait
<1>2. Quiet(w) BY <1>1 DEF TurnInv
<1>3. socks \subseteq Sockets BY <1>1 DEF WorkerState
<1> HIDE DEF socks
<1>4. PICK ready \in SUBSET {c \in Conns : w.conns[c].open} :
          \/ w.posting /\ Set(i, [[w EXCEPT !.pc = "dispatch", !.emfile = FALSE]
                                      EXCEPT !.accepts = socks, !.posted = ready])
          \/ ~w.posting
             /\ Set(i, [[w EXCEPT !.pc = "dispatch", !.emfile = FALSE] EXCEPT !.batch =
                    {[sock |-> s, c |-> 0, inst |-> 0] : s \in socks}
                    \cup {[sock |-> NoSocket, c |-> c, inst |-> w.conns[c].inst] : c \in ready}])
    BY Zenon DEF Wait, socks
<1>5. CASE w.posting
    <2> DEFINE v == [[w EXCEPT !.pc = "dispatch", !.emfile = FALSE]
                         EXCEPT !.accepts = socks, !.posted = ready]
    <2>1. Set(i, v) BY <1>4, <1>5
    <2>2. /\ v \in WorkerState /\ v.conns = w.conns /\ v.free = w.free /\ v.reuse = w.reuse
          /\ v.posted = ready /\ v.batch = w.batch /\ v.misfired = w.misfired /\ v.pc = "dispatch"
          /\ v.posting = w.posting /\ v.mutex = w.mutex /\ v.timers = w.timers
        BY Zenon, <1>1, <1>3 DEF WorkerState, Places
    <2> HIDE DEF v
    <2>3. PoolInv(v) BY <1>1, <2>2, Zenon DEF PoolInv
    <2>4. BatchInv(v) BY SMTT(30), <1>2, <2>2 DEF BatchInv, Quiet
    <2>5. TurnInv(v) BY SMTT(30), <1>1, <2>2 DEF TurnInv
    <2>6. Covers(v, lock', i)
        <3>1. lock = i BY <1>1, <1>5 DEF Covers
        <3> QED BY <1>1, <2>2, <3>1 DEF Covers
    <2> QED BY SMTT(30), <1>1, <2>1, <2>2, <2>3, <2>4, <2>5, <2>6 DEF StepOf, Good, Sound
<1>6. CASE ~w.posting
    <2> DEFINE b == {[sock |-> s, c |-> 0, inst |-> 0] : s \in socks}
                    \cup {[sock |-> NoSocket, c |-> c, inst |-> w.conns[c].inst] : c \in ready}
               v == [[w EXCEPT !.pc = "dispatch", !.emfile = FALSE] EXCEPT !.batch = b]
    <2>1. Set(i, v) BY <1>4, <1>6
    <2>2. w.conns \in [Conns -> ConnState] BY SMTT(30), <1>1 DEF WorkerState
    <2>3. \A c \in Conns : w.conns[c].inst \in {0, 1} /\ c \in Nat
        BY <2>2, EventLoopAssumption DEF ConnState, Conns
    <2>4. b \subseteq Event BY <1>3, <2>3 DEF Event
    <2>5. \A e \in b : e.sock = NoSocket => e.c \in Conns /\ e.inst = w.conns[e.c].inst
        <3>1. NoSocket \notin socks BY <1>3, EventLoopAssumption
        <3> QED BY <3>1
    <2> HIDE DEF b
    <2>6. /\ v \in WorkerState /\ v.conns = w.conns /\ v.free = w.free /\ v.reuse = w.reuse
          /\ v.posted = w.posted /\ v.batch = b /\ v.misfired = w.misfired /\ v.pc = "dispatch"
          /\ v.posting = w.posting /\ v.mutex = w.mutex /\ v.timers = w.timers
        BY Zenon, <1>1, <2>4 DEF WorkerState, Places
    <2> HIDE DEF v
    <2>7. PoolInv(v) BY <1>1, <2>6, Zenon DEF PoolInv
    <2>8. BatchInv(v) BY <1>2, <2>5, <2>6 DEF BatchInv, Quiet
    <2>9. TurnInv(v) BY <1>1, <2>6 DEF TurnInv
    <2>10. Covers(v, lock', i) BY <1>6, <2>6 DEF Covers
    <2> QED BY SMTT(30), <1>1, <2>1, <2>6, <2>7, <2>8, <2>9, <2>10 DEF StepOf, Good, Sound
<1> QED BY <1>5, <1>6

\* The loop over the events: the handler of an event that is not stale.
LEMMA DispatchStep ==
    ASSUME LoopInv, NEW i \in Workers, Dispatch(i)
    PROVE  StepOf(i)
<1> DEFINE w == worker[i]
<1>1. /\ w \in WorkerState /\ Sound(w) /\ BatchInv(w) /\ TurnInv(w) /\ Covers(w, lock, i)
      /\ w.pc = "dispatch" /\ mode' = mode /\ lock' = lock
    BY DEF LoopInv, Good, Sound, Dispatch
<1>2. PICK e \in w.batch :
          \/ e.sock # NoSocket
             /\ Set(i, [[w EXCEPT !.batch = @ \ {e}] EXCEPT !.pc = "accept", !.cur = e.sock,
                                                            !.ret = "dispatch"])
          \/ e.sock = NoSocket /\ Set(i, [w EXCEPT !.batch = @ \ {e}])
          \/ /\ e.sock = NoSocket /\ w.conns[e.c].open /\ w.conns[e.c].inst = e.inst
             /\ \E connect \in BOOLEAN :
                  \E r \in HandlerResults([[w EXCEPT !.batch = @ \ {e}]
                               EXCEPT !.misfired = w.conns[e.c].taken = 1], e.c, connect) :
                     Set(i, r)
    BY Zenon DEF Dispatch
<1>3. e \in Event /\ e.sock \in Sockets \cup {NoSocket} BY SMTT(30), <1>1 DEF WorkerState, Event
<1> DEFINE b == w.batch \ {e}
<1>4. b \in SUBSET Event BY SMTT(30), <1>1 DEF WorkerState
<1>5. CASE /\ e.sock # NoSocket
           /\ Set(i, [[w EXCEPT !.batch = @ \ {e}] EXCEPT !.pc = "accept", !.cur = e.sock,
                                                          !.ret = "dispatch"])
    <2> DEFINE v == [w EXCEPT !.batch = b, !.pc = "accept", !.cur = e.sock, !.ret = "dispatch"]
    <2>1. Set(i, v) BY <1>1, <1>5 DEF WorkerState
    <2> HIDE DEF b
    <2>2. /\ v \in WorkerState /\ v.conns = w.conns /\ v.free = w.free /\ v.reuse = w.reuse
          /\ v.posted = w.posted /\ v.batch = b /\ v.misfired = w.misfired /\ v.pc = "accept"
          /\ v.posting = w.posting /\ v.mutex = w.mutex /\ v.timers = w.timers
          /\ v.ret = "dispatch" /\ v.emfile = w.emfile /\ v.cur \in Sockets
        BY Zenon, <1>1, <1>3, <1>4, <1>5 DEF WorkerState, Places
    <2> HIDE DEF v
    <2>3. Sound(v) BY SMTT(30), <1>1, <2>2, Elsewhere DEF b
    <2>4. TurnInv(v) BY SMTT(30), <1>1, <2>2 DEF TurnInv
    <2>5. Covers(v, lock', i) BY SMTT(30), <1>1, <2>2 DEF Covers
    <2> QED BY <1>1, <2>1, <2>3, <2>4, <2>5 DEF StepOf, Good
<1>6. CASE e.sock = NoSocket /\ Set(i, [w EXCEPT !.batch = @ \ {e}])
    <2> DEFINE v == [w EXCEPT !.batch = b]
    <2>1. Set(i, v) BY <1>1, <1>6 DEF WorkerState
    <2> HIDE DEF b
    <2>2. /\ v \in WorkerState /\ v.conns = w.conns /\ v.free = w.free /\ v.reuse = w.reuse
          /\ v.posted = w.posted /\ v.batch = b /\ v.misfired = w.misfired /\ v.pc = "dispatch"
          /\ v.posting = w.posting /\ v.mutex = w.mutex /\ v.timers = w.timers
          /\ v.emfile = w.emfile
        BY Zenon, <1>1, <1>4, <1>6 DEF WorkerState, Places
    <2> HIDE DEF v
    <2>3. Sound(v) BY SMTT(30), <1>1, <2>2, Elsewhere DEF b
    <2>4. TurnInv(v) BY SMTT(30), <1>1, <2>2 DEF TurnInv
    <2>5. Covers(v, lock', i) BY SMTT(30), <1>1, <2>2 DEF Covers
    <2> QED BY <1>1, <2>1, <2>3, <2>4, <2>5 DEF StepOf, Good
<1>7. CASE /\ e.sock = NoSocket /\ w.conns[e.c].open /\ w.conns[e.c].inst = e.inst
           /\ \E connect \in BOOLEAN :
                  \E r \in HandlerResults([[w EXCEPT !.batch = @ \ {e}]
                               EXCEPT !.misfired = w.conns[e.c].taken = 1], e.c, connect) :
                     Set(i, r)
    <2>1. e.c \in Conns /\ (w.conns[e.c].taken = 1) = FALSE
        BY <1>1, <1>7, Zenon DEF BatchInv
    <2> DEFINE u == [w EXCEPT !.batch = b, !.misfired = FALSE]
    <2>2. PICK connect \in BOOLEAN : \E r \in HandlerResults(u, e.c, connect) : Set(i, r)
        <3>1. u = [[w EXCEPT !.batch = @ \ {e}] EXCEPT !.misfired = w.conns[e.c].taken = 1]
            BY Zenon, <1>1, <2>1 DEF WorkerState
        <3> QED BY <1>7, <3>1, Zenon
    <2>2a. PICK r \in HandlerResults(u, e.c, connect) : Set(i, r) BY <2>2
    <2> HIDE DEF b
    <2>3. /\ u \in WorkerState /\ u.conns = w.conns /\ u.free = w.free /\ u.reuse = w.reuse
          /\ u.posted = w.posted /\ u.batch = b /\ u.misfired = FALSE /\ u.pc = "dispatch"
          /\ u.posting = w.posting /\ u.mutex = w.mutex /\ u.timers = w.timers
          /\ u.emfile = w.emfile
        BY Zenon, <1>1, <1>4 DEF WorkerState, Places
    <2> HIDE DEF u
    <2>4. Sound(u) BY SMTT(30), <1>1, <2>3, Elsewhere DEF b
    <2>5. TurnInv(u) BY SMTT(30), <1>1, <2>3 DEF TurnInv
    <2>6. Covers(u, lock, i) BY <1>1, <2>3 DEF Covers
    <2>7. Follows(u, r)
        <3>1. u.conns[e.c].open BY <1>7, <2>3
        <3> QED BY <2>1, <2>2a, <2>4, <3>1, HandlerSound
    <2> QED BY SMTT(30), <1>1, <2>2a, <2>5, <2>6, <2>7, PoolStep
<1> QED BY <1>2, <1>5, <1>6, <1>7

\* ngx_event_process_posted.
LEMMA PostedStep ==
    ASSUME LoopInv, NEW i \in Workers, Posted(i)
    PROVE  StepOf(i)
<1> DEFINE w == worker[i]
<1>1. /\ w \in WorkerState /\ Sound(w) /\ PoolInv(w) /\ TurnInv(w) /\ Covers(w, lock, i)
      /\ w.pc = "posted" /\ mode' = mode /\ lock' = lock
    BY DEF LoopInv, Good, Sound, Posted
<1>2. Quiet(w) BY <1>1 DEF TurnInv
<1>3. CASE w.posted = {} /\ Set(i, [w EXCEPT !.pc = "begin"])
    <2> DEFINE v == [w EXCEPT !.pc = "begin"]
    <2>1. Set(i, v) BY <1>3
    <2>2. /\ v \in WorkerState /\ v.conns = w.conns /\ v.free = w.free /\ v.reuse = w.reuse
          /\ v.posted = w.posted /\ v.batch = w.batch /\ v.misfired = w.misfired /\ v.pc = "begin"
          /\ v.posting = w.posting /\ v.mutex = w.mutex /\ v.timers = w.timers
        BY SMTT(30), <1>1 DEF WorkerState, Places
    <2> HIDE DEF v
    <2>3. /\ v.posting => v.mutex
          /\ v.timers # {} => ~v.mutex
          /\ Covers(v, lock', i)
        BY SMTT(30), <1>1, <2>2 DEF TurnInv, Covers
    <2> QED BY SMTT(30), <1>1, <1>2, <2>1, <2>2, <2>3, PlainStep
<1>4. CASE \E c \in w.posted, connect \in BOOLEAN :
              \E r \in HandlerResults([w EXCEPT !.posted = @ \ {c}], c, connect) : Set(i, r)
    <2>0. PICK c \in w.posted, connect \in BOOLEAN :
              \E r \in HandlerResults([w EXCEPT !.posted = @ \ {c}], c, connect) : Set(i, r)
        BY Zenon, <1>4
    <2>1. PICK r \in HandlerResults([w EXCEPT !.posted = @ \ {c}], c, connect) : Set(i, r)
        BY <2>0
    <2> DEFINE u == [w EXCEPT !.posted = @ \ {c}]
    <2>2. c \in Conns /\ w.conns[c].open BY <1>1 DEF WorkerState, PoolInv
    <2>3. /\ u \in WorkerState /\ u.conns = w.conns /\ u.free = w.free /\ u.reuse = w.reuse
          /\ u.posted \subseteq w.posted /\ u.batch = w.batch /\ u.misfired = w.misfired
          /\ u.pc = "posted" /\ u.posting = w.posting /\ u.mutex = w.mutex /\ u.timers = w.timers
        BY Zenon, <1>1 DEF WorkerState, Places
    <2>4. r \in HandlerResults(u, c, connect) BY <2>1
    <2> HIDE DEF u
    <2>5. Sound(u) /\ Quiet(u) BY <1>1, <1>2, <2>3, Elsewhere
    <2>6. TurnInv(u) /\ Covers(u, lock, i) BY <1>1, <2>3, <2>5 DEF TurnInv, Covers
    <2>7. Follows(u, r) BY <2>2, <2>3, <2>4, <2>5, HandlerSound
    <2> QED BY <1>1, <2>1, <2>6, <2>7, PoolStep
<1> QED BY <1>3, <1>4 DEF Posted

\* The end of the batch, and the release of the mutex.
LEMMA ReleaseStep ==
    ASSUME LoopInv, NEW i \in Workers, Release(i)
    PROVE  StepOf(i)
<1> DEFINE w == worker[i]
           K == [c \in Conns |-> [w.conns[c] EXCEPT !.taken = 0]]
           z == IF w.timers # {} THEN "timers" ELSE IF w.posted # {} THEN "posted" ELSE "begin"
           v == [w EXCEPT !.pc = z, !.conns = K]
<1>1. /\ w \in WorkerState /\ PoolInv(w) /\ TurnInv(w)
      /\ w.batch = {} /\ mode' = mode /\ Unlock(i)
    BY DEF LoopInv, Good, Sound, Release
<1>2. Set(i, v) BY <1>1 DEF Release, WorkerState
<1>3. z \in {"timers", "posted", "begin"} OBVIOUS
<1>4. K \in [Conns -> ConnState] /\ \A c \in Conns :
          /\ K[c].taken = 0 /\ K[c].open = w.conns[c].open
          /\ K[c].reusable = w.conns[c].reusable
    <2>1. w.conns \in [Conns -> ConnState] BY <1>1 DEF WorkerState
    <2> QED BY <2>1 DEF ConnState
<1> HIDE DEF K, z
<1>5. /\ v \in WorkerState /\ v.conns = K /\ v.free = w.free /\ v.reuse = w.reuse
      /\ v.posted = w.posted /\ v.batch = {} /\ v.misfired = w.misfired /\ v.pc = z
      /\ v.posting = w.posting /\ v.mutex = w.mutex /\ v.timers = w.timers
    BY Zenon, <1>1, <1>3, <1>4 DEF WorkerState, Places
<1> HIDE DEF v
<1>6. PoolInv(v)
    <2>1. \A c \in w.posted : c \in Conns BY <1>1 DEF WorkerState
    <2> QED BY SMTT(30), <2>1, <1>1, <1>4, <1>5 DEF PoolInv
<1>7. BatchInv(v) BY <1>5 DEF BatchInv
<1>8. TurnInv(v) BY SMTT(30), <1>1, <1>3, <1>4, <1>5 DEF TurnInv, Quiet
<1>9. Covers(v, lock', i) BY <1>3, <1>5 DEF Covers
<1>10. \A j \in Workers \ {i} : lock = j => lock' = j BY <1>1 DEF Unlock
<1> QED BY SMTT(30), <1>1, <1>2, <1>5, <1>6, <1>7, <1>8, <1>9, <1>10 DEF StepOf, Good, Sound

\* ngx_event_accept.
LEMMA AcceptSteps ==
    ASSUME LoopInv, NEW i \in Workers, Accept(i) \/ AcceptNothing(i) \/ AcceptFails(i)
    PROVE  StepOf(i)
<1> DEFINE w == worker[i]
<1>1. /\ w \in WorkerState /\ Sound(w) /\ TurnInv(w) /\ Covers(w, lock, i) /\ w.pc = "accept"
      /\ mode' = mode /\ w.cur \in Sockets
    BY DEF LoopInv, Good, Sound, TurnInv, Accept, AcceptNothing, AcceptFails
<1>2. w.ret \in {"begin", "dispatch", "timers"} /\ (w.ret # "dispatch" => Quiet(w))
    BY SMTT(30), <1>1 DEF WorkerState, TurnInv
<1>3. CASE AcceptNothing(i)
    <2> DEFINE v == [w EXCEPT !.pc = w.ret, !.cur = NoSocket]
    <2>1. Set(i, v) /\ lock' = lock BY <1>3 DEF AcceptNothing
    <2>2. /\ v \in WorkerState /\ v.conns = w.conns /\ v.free = w.free /\ v.reuse = w.reuse
          /\ v.posted = w.posted /\ v.batch = w.batch /\ v.misfired = w.misfired /\ v.pc = w.ret
          /\ v.posting = w.posting /\ v.mutex = w.mutex /\ v.timers = w.timers
          /\ v.emfile = w.emfile
        BY Zenon, <1>1, <1>2 DEF WorkerState, Places
    <2> HIDE DEF v
    <2>3. /\ v.posting => v.mutex
          /\ v.timers # {} => ~v.mutex
          /\ Covers(v, lock', i) /\ v.pc # "accept"
        BY SMTT(30), <1>1, <1>2, <2>1, <2>2 DEF TurnInv, Covers
    <2> QED BY SMTT(30), <1>1, <1>2, <2>1, <2>2, <2>3, PlainStep
<1>4. CASE AcceptFails(i)
    <2> DEFINE n == IF w.mutex THEN 1 ELSE w.disabled
               t == IF w.mutex THEN w.timers ELSE w.timers \cup {w.cur}
               v == [w EXCEPT !.pc = w.ret, !.cur = NoSocket, !.active = {}, !.emfile = TRUE,
                              !.held = FALSE, !.disabled = n, !.timers = t]
    <2>1. Set(i, v) /\ Unlock(i) BY <1>1, <1>4 DEF AcceptFails, WorkerState
    <2> HIDE DEF w
    <2>a. w.disabled \in Int /\ w.timers \in SUBSET Sockets /\ w.cur \in Sockets
        BY <1>1 DEF WorkerState
    <2>2. n \in Int /\ t \in SUBSET Sockets /\ (w.mutex => t = w.timers)
      <3>1. n \in Int BY <2>a
      <3>2. t \in SUBSET Sockets BY <2>a
      <3>3. w.mutex => t = w.timers OBVIOUS
      <3> QED BY SMTT(30), <3>1, <3>2, <3>3
    <2> USE DEF w
    <2> HIDE DEF n, t
    <2>3. /\ v \in WorkerState /\ v.conns = w.conns /\ v.free = w.free /\ v.reuse = w.reuse
          /\ v.posted = w.posted /\ v.batch = w.batch /\ v.misfired = w.misfired /\ v.pc = w.ret
          /\ v.posting = w.posting /\ v.mutex = w.mutex /\ v.timers = t /\ v.emfile = TRUE
        BY Zenon, <1>1, <1>2, <2>2 DEF WorkerState, Places
    <2> HIDE DEF v
    <2>4. /\ v.posting => v.mutex
          /\ v.timers # {} => ~v.mutex
          /\ Covers(v, lock', i) /\ v.pc # "accept"
        BY SMTT(30), <1>1, <1>2, <2>2, <2>3 DEF TurnInv, Covers
    <2>5. \A j \in Workers \ {i} : lock = j => lock' = j BY <2>1 DEF Unlock
    <2> QED BY SMTT(30), <1>1, <1>2, <2>1, <2>3, <2>4, <2>5, PlainStep
<1>5. CASE Accept(i)
    <2> DEFINE n == Connections \div Share - Len(w.free)
               u == [w EXCEPT !.disabled = n]
               g == GetConnection(u)
               v == [g EXCEPT !.pc = w.ret, !.cur = NoSocket]
    <2>1. lock' = lock /\ (Set(i, g) \/ Set(i, v)) BY <1>5 DEF Accept
    <2>2. n \in Int
        <3>1. Len(w.free) \in Nat BY SMTT(30), <1>1, LenProperties DEF WorkerState
        <3>2. Connections \div Share \in Int BY EventLoopAssumption
        <3> QED BY <3>1, <3>2
    <2> HIDE DEF n
    <2>3. /\ u \in WorkerState /\ u.conns = w.conns /\ u.free = w.free /\ u.reuse = w.reuse
          /\ u.posted = w.posted /\ u.batch = w.batch /\ u.misfired = w.misfired
          /\ u.pc = "accept" /\ u.posting = w.posting /\ u.mutex = w.mutex
          /\ u.timers = w.timers /\ u.emfile = w.emfile /\ u.ret = w.ret /\ u.cur = w.cur
        BY Zenon, <1>1, <2>2 DEF WorkerState, Places
    <2> HIDE DEF u
    <2>4. Sound(u) /\ (Quiet(w) => Quiet(u)) BY SMTT(30), <1>1, <2>3, Elsewhere
    <2>5. TurnInv(u) /\ Covers(u, lock, i) BY SMTT(30), <1>1, <2>3, <2>4 DEF TurnInv, Covers
    <2>6. Follows(u, g) BY <2>4, GetSound
    <2> HIDE DEF g
    <2>7. CASE Set(i, g) BY <1>1, <2>1, <2>5, <2>6, <2>7, PoolStep
    <2>8. CASE Set(i, v)
        <3>1. g \in WorkerState /\ Sound(g) /\ SameTurn(u, g) /\ (Quiet(u) => Quiet(g))
            BY <2>6 DEF Follows, Sound
        <3>2. /\ v \in WorkerState /\ v.conns = g.conns /\ v.free = g.free /\ v.reuse = g.reuse
              /\ v.posted = g.posted /\ v.batch = g.batch /\ v.misfired = g.misfired
              /\ v.pc = w.ret /\ v.posting = g.posting /\ v.mutex = g.mutex
              /\ v.timers = g.timers /\ v.emfile = g.emfile
            BY Zenon, <1>2, <3>1 DEF WorkerState, Places
        <3> HIDE DEF v
        <3>3. Sound(v) /\ (Quiet(g) => Quiet(v)) BY <3>1, <3>2, Elsewhere
        <3>4. TurnInv(v) BY SMTT(30), <1>2, <2>4, <2>5, <3>1, <3>2, <3>3 DEF TurnInv, SameTurn
        <3>5. Covers(v, lock', i) BY SMTT(30), <1>2, <2>1, <2>3, <2>5, <3>1, <3>2 DEF Covers, SameTurn
        <3> QED BY SMTT(30), <1>1, <2>1, <2>8, <3>3, <3>4, <3>5 DEF StepOf, Good
    <2> QED BY <2>1, <2>7, <2>8
<1> QED BY <1>3, <1>4, <1>5

\* Every step keeps the invariant, of the worker that takes it and of the others.
LEMMA LoopNext == LoopInv /\ [Next]_vars => LoopInv'
<1> SUFFICES ASSUME LoopInv, [Next]_vars PROVE LoopInv' OBVIOUS
<1>1. ASSUME NEW i \in Workers, StepOf(i) PROVE LoopInv'
    <2>1. PICK v : Set(i, v) /\ Good(v) /\ Covers(v, lock', i) BY <1>1 DEF StepOf
    <2>2. worker' = [worker EXCEPT ![i] = v] /\ DOMAIN worker = Workers
        BY <2>1 DEF Set, LoopInv
    <2>3. \A j \in Workers : worker'[j] = IF j = i THEN v ELSE worker[j] BY <2>2
    <2>4. \A j \in Workers \ {i} : Covers(worker[j], lock', j)
        BY <1>1, Zenon DEF LoopInv, StepOf, Covers
    <2> QED BY <1>1, <2>1, <2>2, <2>3, <2>4 DEF LoopInv, StepOf
<1>2. CASE \E i \in Workers : Step(i) \/ BeginFails(i) \/ AcceptFails(i) \/ Quit(i) \/ Die(i)
    <2>1. PICK i \in Workers : Step(i) \/ BeginFails(i) \/ AcceptFails(i) \/ Quit(i) \/ Die(i)
        BY <1>2
    <2>2. StepOf(i)
        BY <2>1, PlainSteps, ProcessSteps, WaitStep, DispatchStep, PostedStep, ReleaseStep,
           AcceptSteps DEF Step
    <2> QED BY <1>1, <2>2
<1>3. CASE \E s \in Sockets : Arrive(s) BY <1>3, Zenon DEF LoopInv, Arrive
<1>4. CASE UNCHANGED vars BY <1>4 DEF LoopInv, vars
<1> QED BY <1>2, <1>3, <1>4 DEF Next

LEMMA LoopHolds == Spec => []LoopInv
BY InitLoop, LoopNext, PTL DEF Spec

-----------------------------------------------------------------------------
\* No handler runs for an event that the kernel reported for the previous use of its
\* connection structure, whatever the handlers before it in the batch closed, drained and
\* opened: the check of the instance bit in ngx_epoll_process_events() finds every structure
\* that was taken again once.
THEOREM NoHandlerMisfires == Spec => []NoStaleHandler
<1>1. LoopInv => NoStaleHandler BY Zenon DEF LoopInv, Good, TurnInv, NoStaleHandler
<1> QED BY <1>1, LoopHolds, PTL

\* The free list, the queue of idle connections and the descriptors of a worker agree after
\* any sequence of ngx_get_connection(), ngx_close_connection(), ngx_reusable_connection()
\* and ngx_drain_connections(): no structure is handed out twice or lost.
THEOREM PoolStaysConsistent == Spec => [](PoolConsistent /\ PostedAreOpen)
<1>1. ASSUME LoopInv PROVE PoolConsistent /\ PostedAreOpen
    <2> SUFFICES ASSUME NEW i \in Workers
                 PROVE  /\ IsInjective(worker[i].free) /\ IsInjective(worker[i].reuse)
                        /\ Range(worker[i].free) = {c \in Conns : ~worker[i].conns[c].open}
                        /\ Range(worker[i].reuse) = {c \in Conns : worker[i].conns[c].reusable}
                        /\ \A c \in Conns : worker[i].conns[c].reusable => worker[i].conns[c].open
                        /\ \A c \in worker[i].posted : worker[i].conns[c].open
        BY DEF PoolConsistent, PostedAreOpen
    <2>1. worker[i] \in WorkerState /\ PoolInv(worker[i]) BY <1>1 DEF LoopInv, Good, Sound
    <2>2. worker[i].free \in Seq(Conns) /\ worker[i].reuse \in Seq(Conns)
        BY <2>1 DEF WorkerState
    <2>3. \A c : /\ c \in Range(worker[i].free) <=> Holds(worker[i].free, c)
                 /\ Holds(worker[i].free, c) => c \in Conns
                 /\ c \in Range(worker[i].reuse) <=> Holds(worker[i].reuse, c)
                 /\ Holds(worker[i].reuse, c) => c \in Conns
        BY <2>2, Members
    <2>4. IsInjective(worker[i].free) /\ IsInjective(worker[i].reuse)
        BY SMTT(30), <2>1, <2>2, Members DEF PoolInv
    <2> QED BY SMTT(30), <2>1, <2>3, <2>4 DEF PoolInv
<1> QED BY <1>1, LoopHolds, PTL

\* A worker that queues accept events holds the accept mutex until it has run them, unless
\* it ran out of descriptors on the way: deaths, forced unlocks and the turns of the other
\* workers never take it away (ngx_trylock_accept_mutex(), ngx_shmtx_unlock(),
\* ngx_unlock_mutexes()).
THEOREM MutexCoversAccepts == Spec => []AcceptUnderMutex
<1>1. LoopInv => AcceptUnderMutex BY Zenon DEF LoopInv, Covers, AcceptUnderMutex
<1> QED BY <1>1, LoopHolds, PTL
=============================================================================
