------------------------------- MODULE Peers -------------------------------
(***************************************************************************)
(* The balancers of an upstream block: weighted round robin                *)
(* (ngx_http_upstream_round_robin.c), least_conn and ip_hash.  A block is  *)
(* a record G with the sequences of peers G.primary and G.backup (the list *)
(* peers->next, empty when there is none) and G.conns, least_conn's count  *)
(* of the requests at each peer.  A request's balancer data q is what the  *)
(* code keeps in ngx_peer_connection_t and in rr_peer_data_t.  Each get    *)
(* returns [rc, G, q].  The clock is in seconds, as ngx_time() is.         *)
(***************************************************************************)
EXTENDS Integers, Sequences, SequencesExt, FiniteSets, FiniteSetsExt

(* init_round_robin: a configured server becomes a peer.                   *)
Peer(s) == [weight |-> s.weight, effective |-> s.weight, current |-> 0,
            maxFails |-> s.maxFails, failTimeout |-> s.failTimeout,
            down |-> s.down, fails |-> 0, accessed |-> 0, checked |-> 0]

Block(c) == [primary |-> [i \in DOMAIN c.servers |-> Peer(c.servers[i])],
             backup  |-> [i \in DOMAIN c.backup  |-> Peer(c.backup[i])],
             conns   |-> [g \in {"primary", "backup"} |->
                             [i \in DOMAIN (IF g = "primary" THEN c.servers
                                                             ELSE c.backup) |-> 0]]]

Single(G) == Len(G.primary) = 1 /\ G.backup = << >>

HasNext(G, g) == g = "primary" /\ G.backup # << >>

(* init_round_robin_peer, with the fields init_ip_hash_peer adds: the      *)
(* hash, 89 at first, and the number of hashes computed.                   *)
InitPeer(G) == [group |-> "primary", tried |-> {}, at |-> 0, tries |-> Len(G.primary),
                sockaddr |-> FALSE, cached |-> FALSE, hash |-> 89, hashes |-> 0]

Usable(p, now) ==
    /\ ~p.down
    /\ \/ p.maxFails = 0
       \/ p.fails < p.maxFails
       \/ now - p.checked > p.failTimeout

Candidates(ps, q, now) == {i \in DOMAIN ps : i \notin q.tried /\ Usable(ps[i], now)}

(* Mutant: the weights are left out.                                       *)
WeighedEqually(ps, C) ==
    [i \in DOMAIN ps |->
        IF i \notin C THEN ps[i] ELSE [ps[i] EXCEPT !.current = @ + 1]]

(* Every candidate gains its effective weight, and a weight lowered by     *)
(* failures recovers by one.                                               *)
Weighed(ps, C) ==
    [i \in DOMAIN ps |->
        IF i \notin C THEN ps[i]
        ELSE [ps[i] EXCEPT !.current = @ + ps[i].effective,
                           !.effective = Min({@ + 1, ps[i].weight})]]

(* The first candidate of the largest current weight.                      *)
Best(ps, C) ==
    CHOOSE i \in C : \A j \in C : \/ ps[j].current < ps[i].current
                                  \/ ps[j].current = ps[i].current /\ i <= j

TotalWeight(ps, C) == MapThenSumSet(LAMBDA i : ps[i].effective, C)

(* The chosen peer pays the total, and its probe period starts over.       *)
Charged(ps, i, total, now) ==
    [ps EXCEPT ![i].current = @ - total,
               ![i].checked = IF now - @ > ps[i].failTimeout THEN now ELSE @]

(* What every balancer stores in the request for the peer it chose.        *)
Taken(q, i, more) ==
    [q EXCEPT !.at = i, !.sockaddr = TRUE, !.cached = FALSE,
              !.tried = @ \cup {i}, !.tries = @ + more]

(* "all peers failed, mark them as live for quick recovery"                *)
Revived(ps) == [i \in DOMAIN ps |-> [ps[i] EXCEPT !.fails = 0]]

(* The tries of the next group are added when the last try of this one is  *)
(* taken.                                                                  *)
BackupTries(G, q) ==
    IF q.tries = 1 /\ HasNext(G, q.group) THEN Len(G.backup) ELSE 0

(* get_round_robin_peer and get_peer in the request's own group.           *)
RoundRobinIn(G, q, now) ==
    LET ps == G[q.group]
        C  == Candidates(ps, q, now)
        w  == Weighed(ps, C)
        i  == Best(w, C)
    IN  IF Single(G)
        THEN IF ps[1].down THEN [rc |-> "busy", G |-> G, q |-> q]
             ELSE [rc |-> "ok", G |-> G,
                   q |-> [q EXCEPT !.at = 1, !.sockaddr = TRUE, !.cached = FALSE]]
        ELSE IF C = {} THEN [rc |-> "busy", G |-> G, q |-> q]
        ELSE [rc |-> "ok",
              G  |-> [G EXCEPT ![q.group] = Charged(w, i, TotalWeight(ps, C), now)],
              q  |-> Taken(q, i, BackupTries(G, q))]

(* get_least_conn_peer: the least loaded candidates by connections per     *)
(* weight; when several are, round robin among them.                       *)
Least(G, q, C) ==
    LET ps == G[q.group]
        n  == G.conns[q.group]
    IN  {i \in C : \A j \in C : n[i] * ps[j].weight <= n[j] * ps[i].weight}

LeastConnIn(G, q, now) ==
    LET ps == G[q.group]
        C  == Candidates(ps, q, now)
        L  == Least(G, q, C)
        w  == IF Cardinality(L) > 1 THEN Weighed(ps, L) ELSE ps
        i  == Best(w, L)
        t  == IF Cardinality(L) > 1 THEN TotalWeight(ps, L) ELSE 0
    IN  IF Single(G) THEN RoundRobinIn(G, q, now)
        ELSE IF C = {} THEN [rc |-> "busy", G |-> G, q |-> q]
        ELSE [rc |-> "ok",
              G  |-> [G EXCEPT ![q.group] = Charged(w, i, t, now),
                               !.conns[q.group][i] = @ + 1],
              q  |-> Taken(q, i, BackupTries(G, q))]

(* A group without a candidate gives way to the backup group; when that    *)
(* one has none either, the peers of both are marked live.                 *)
ToBackup(G, q) ==
    [q EXCEPT !.group = "backup", !.tried = {}, !.tries = Len(G.backup)]

GetFrom(G, q, first, second) ==
    IF first.rc = "ok" THEN first
    ELSE IF ~HasNext(G, q.group)
    THEN [first EXCEPT !.G[q.group] = Revived(@)]
    ELSE IF second.rc = "ok" THEN second
    ELSE [second EXCEPT !.G.backup = Revived(@), !.G.primary = Revived(@)]

GetRoundRobin(G, q, now) ==
    GetFrom(G, q, RoundRobinIn(G, q, now), RoundRobinIn(G, ToBackup(G, q), now))

GetLeastConn(G, q, now) ==
    GetFrom(G, q, LeastConnIn(G, q, now), LeastConnIn(G, ToBackup(G, q), now))

(***************************************************************************)
(* ip_hash: the client's address is hashed, again and again until the hash *)
(* names a peer that is neither tried nor marked failed; after twenty      *)
(* hashes round robin takes over.                                          *)
(***************************************************************************)
Rehash(hash, addr) == FoldLeft(LAMBDA h, byte : (h * 113 + byte) % 6271, hash, addr)

HashedPeer(ps, hash) ==
    LET weight == MapThenSumSet(LAMBDA i : ps[i].weight, DOMAIN ps)
        upTo(i) == MapThenSumSet(LAMBDA j : ps[j].weight, 1..i)
    IN  IF weight = Len(ps) THEN 1 + (hash % Len(ps))
        ELSE Min({i \in DOMAIN ps : (hash % weight) < upTo(i)})

(* One turn of the loop: the next hash, and the peer it names given up     *)
(* when it is not usable.                                                  *)
HashTurn(ps, q, addr, now) ==
    LET h == Rehash(q.hash, addr)
        i == HashedPeer(ps, h)
    IN  IF i \notin q.tried /\ Usable(ps[i], now)
        THEN [q EXCEPT !.hash = h, !.at = i, !.sockaddr = TRUE, !.cached = FALSE,
                       !.tried = @ \cup {i}]
        ELSE [q EXCEPT !.hash = h, !.hashes = @ + 1, !.tried = @ \cup {i},
                       !.tries = @ - (IF i \in q.tried THEN 0 ELSE 1)]

MaxHashes == 20

GetIpHash(G, q, addr, now) ==
    LET Turn(t, k) == IF k > 1 /\ (t.sockaddr \/ t.hashes >= MaxHashes) THEN t
                      ELSE HashTurn(G.primary, t, addr, now)
        t == FoldLeft(Turn, q, [k \in 1..MaxHashes |-> k])
        probed == [G EXCEPT !.primary[t.at].checked =
                       IF G.primary[t.at].maxFails > 0
                          /\ G.primary[t.at].fails >= G.primary[t.at].maxFails
                       THEN now ELSE @]
    IN  IF q.hashes > MaxHashes \/ Single(G) THEN GetRoundRobin(G, q, now)
        ELSE IF t.sockaddr THEN [rc |-> "ok", G |-> probed, q |-> t]
        ELSE GetRoundRobin(G, [t EXCEPT !.hash = q.hash], now)

Get(method, G, q, addr, now) ==
    CASE method = "least_conn" -> GetLeastConn(G, q, now)
      [] method = "ip_hash"    -> GetIpHash(G, q, addr, now)
      [] OTHER                 -> GetRoundRobin(G, q, now)

(***************************************************************************)
(* free_round_robin_peer and free_least_conn_peer.                         *)
(***************************************************************************)
Failed(p, now) ==
    [p EXCEPT !.fails = @ + 1, !.accessed = now, !.checked = now,
              !.effective = IF p.maxFails > 0
                            THEN Max({0, @ - p.weight \div p.maxFails}) ELSE @]

(* "mark peer live if check passed"                                        *)
Passed(p) == [p EXCEPT !.fails = IF p.accessed < p.checked THEN 0 ELSE @]

Released(method, G, q) ==
    IF method = "least_conn" THEN [G EXCEPT !.conns[q.group][q.at] = @ - 1] ELSE G

(* The result is [G, q].                                                   *)
Free(method, G, q, failed, now) ==
    IF Single(G)
    THEN [G |-> G, q |-> [q EXCEPT !.tries = 0, !.sockaddr = FALSE]]
    ELSE [G |-> [Released(method, G, q) EXCEPT
                    ![q.group][q.at] = IF failed THEN Failed(@, now) ELSE Passed(@)],
          q |-> [q EXCEPT !.tries = Max({0, @ - 1}), !.sockaddr = FALSE]]
=============================================================================
