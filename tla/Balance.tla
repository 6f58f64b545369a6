------------------------------ MODULE Balance ------------------------------
(***************************************************************************)
(* The requests of one worker process share the peers of an upstream       *)
(* block: each asks the balancer for a peer, reports how the attempt went  *)
(* and asks again while it has tries left (ngx_http_upstream_next).  The   *)
(* requests' attempts overlap in any order and the clock advances between  *)
(* them.                                                                   *)
(***************************************************************************)
EXTENDS Peers

CONSTANTS Requests,        \* requests being served at one time
          Configurations,  \* the upstream blocks explored, each with a bound on the
                           \* attempts that fail
          Addresses,       \* client addresses, as sequences of bytes
          Start,           \* the first time, past every fail_timeout
          MaxTime          \* bound: the clock

Idle == [group |-> "none", tried |-> {}, at |-> 0, tries |-> 0,
         sockaddr |-> FALSE, cached |-> FALSE, hash |-> 0, hashes |-> 0]

VARIABLES config, G, q, addr, now,
          failures,
          picks,     \* how often each primary peer was chosen, since the last full round
          evenly,    \* no attempt has failed so far
          probe      \* when a request was sent to a peer marked failed, or 0

vars == <<config, G, q, addr, now, failures, picks, evenly, probe>>

Init == /\ config \in Configurations
        /\ G = Block(config)
        /\ q = [r \in Requests |-> Idle]
        /\ addr \in [Requests -> Addresses]
        /\ config.method # "ip_hash" => \E a \in Addresses : addr = [r \in Requests |-> a]
        /\ now = Start
        /\ failures = 0
        /\ picks = [i \in DOMAIN config.servers |-> 0]
        /\ evenly = TRUE
        /\ probe = [r \in Requests |-> 0]

Round == MapThenSumSet(LAMBDA i : picks[i], DOMAIN picks)

AllWeight == MapThenSumSet(LAMBDA i : config.servers[i].weight, DOMAIN config.servers)

MarkedFailed(p) == p.maxFails > 0 /\ p.fails >= p.maxFails

(* ngx_event_connect_peer: the balancer's get.  NGX_BUSY ends the request: *)
(* FT_NOLIVE is in no proxy_next_upstream.                                 *)
Connect(r, data) ==
    \E g \in {Get(config.method, G, data, addr[r], now)} :
        /\ G' = g.G
        /\ q' = [q EXCEPT ![r] = IF g.rc = "ok" THEN g.q ELSE Idle]
        /\ probe' = [probe EXCEPT ![r] =
                        IF g.rc = "ok" /\ ~Single(G) /\ MarkedFailed(G[g.q.group][g.q.at])
                        THEN now ELSE 0]
        /\ picks' = IF ~evenly \/ g.rc # "ok" \/ g.q.group # "primary" THEN picks
                    ELSE IF Round = AllWeight
                    THEN [i \in DOMAIN picks |-> IF i = g.q.at THEN 1 ELSE 0]
                    ELSE [picks EXCEPT ![g.q.at] = @ + 1]
        /\ UNCHANGED <<config, addr, now>>

Begin(r) == /\ q[r] = Idle
            /\ Connect(r, InitPeer(G))
            /\ UNCHANGED <<failures, evenly>>

Succeed(r) ==
    /\ q[r] # Idle /\ q[r].sockaddr
    /\ G' = Free(config.method, G, q[r], FALSE, now).G
    /\ q' = [q EXCEPT ![r] = Idle]
    /\ probe' = [probe EXCEPT ![r] = 0]
    /\ UNCHANGED <<config, addr, now, failures, picks, evenly>>

(* ngx_http_upstream_next: the peer is freed as failed, and the request    *)
(* ends when no tries are left.                                            *)
Fail(r) ==
    /\ q[r] # Idle /\ q[r].sockaddr /\ failures < config.failures
    /\ LET f == Free(config.method, G, q[r], TRUE, now)
       IN  /\ G' = f.G
           /\ q' = [q EXCEPT ![r] = IF f.q.tries = 0 THEN Idle ELSE f.q]
    /\ probe' = [probe EXCEPT ![r] = 0]
    /\ failures' = failures + 1
    /\ evenly' = FALSE
    /\ picks' = [i \in DOMAIN picks |-> 0]
    /\ UNCHANGED <<config, addr, now>>

(* The retry: the same handler goes on with ngx_http_upstream_connect.     *)
Retry(r) == /\ q[r] # Idle /\ ~q[r].sockaddr
            /\ Connect(r, q[r])
            /\ UNCHANGED <<failures, evenly>>

(* Time matters to the balancers only once a peer has failed.              *)
Tick == /\ now < MaxTime /\ failures > 0
        /\ now' = now + 1
        /\ UNCHANGED <<config, G, q, addr, failures, picks, evenly, probe>>

Retrying == {r \in Requests : q[r] # Idle /\ ~q[r].sockaddr}

Next == \/ \E r \in Retrying : Retry(r)
        \/ /\ Retrying = {}
           /\ \/ \E r \in Requests : Begin(r) \/ Succeed(r) \/ Fail(r)
              \/ Tick

Spec == Init /\ [][Next]_vars

----------------------------------------------------------------------------

(* Every field keeps its type: in particular a request's tries are never   *)
(* negative (pc->tries is unsigned: ip_hash takes one off for each peer it *)
(* skips) and an effective weight stays between 0 and the weight.          *)
TypeOK ==
    /\ \A r \in Requests : q[r] # Idle => /\ q[r].tries \in 0..(Len(G.primary) + Len(G.backup))
                                          /\ q[r].tried \subseteq DOMAIN G[q[r].group]
    /\ \A g \in {"primary", "backup"} : \A i \in DOMAIN G[g] :
          /\ G[g][i].effective \in 0..G[g][i].weight
          /\ G[g][i].fails \in 0..config.failures
          /\ G.conns[g][i] \in Int


(* Round robin is fair to the weights: while no attempt fails, every round *)
(* of as many choices as the weights add up to gives each peer exactly its *)
(* weight's share, however the requests overlap.                           *)
SharesFollowWeights ==
    config.method = "round_robin" /\ evenly /\ ~Single(G) /\ Round = AllWeight
        /\ (\A i \in DOMAIN G.primary : ~G.primary[i].down) =>
        picks = [i \in DOMAIN picks |-> config.servers[i].weight]

=============================================================================
