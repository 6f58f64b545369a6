------------------------------ MODULE Upstream ------------------------------
(***************************************************************************)
(* A request handed to an upstream server (ngx_http_upstream.c) by one     *)
(* worker: a peer is chosen, the connection made or taken from the         *)
(* keepalive cache, the request sent, the response header read and the     *)
(* body relayed, and at every step an error, a timeout, the client or the  *)
(* server can end the attempt; ngx_http_upstream_next then goes to another *)
(* peer or gives up.  The worker is single-threaded: run names the C       *)
(* function that is about to be called, and no event is handled before the *)
(* handler that runs has returned (run.fn = "none").                       *)
(*                                                                         *)
(* The upstream servers, the kernel and the client are the environment.    *)
(* What travels on a connection is abstracted to the kind of response.     *)
(***************************************************************************)
EXTENDS Peers

CONSTANTS Requests,        \* requests, each served once
          Conns,           \* connections the worker can have to upstreams
          Configurations,  \* the upstream configurations explored, each with the number
                           \* of requests and the answers its servers give
          MaxTries         \* bound: connection attempts of a request

Now == 100

NoConn == 0

Closed == [peer |-> <<"none", 0>>, net |-> "closed", secure |-> FALSE, in |-> "none",
           owed |-> FALSE]

VARIABLES config, blocks, u, conn, cache, run

vars == <<config, blocks, u, conn, cache, run>>

Shared == "shared"

Rest == [fn |-> "none", r |-> "none", arg |-> "none"]

Call(fn, r, arg) == [fn |-> fn, r |-> r, arg |-> arg]

NewUpstream == [st |-> "new", q |-> [InitPeer(Block(config)) EXCEPT !.tries = 0],
                conn |-> NoConn, sent |-> FALSE, headerSent |-> FALSE, from |-> 0,
                keepalive |-> FALSE, wh |-> "send", rh |-> "header", wt |-> FALSE,
                rt |-> FALSE, expired |-> FALSE, gone |-> FALSE, answer |-> "none",
                attempts |-> 0, late |-> FALSE]

Init == /\ config \in Configurations
        /\ blocks = [b \in Requests \cup {Shared} |-> Block(config)]
        /\ LET R == CHOOSE S \in SUBSET Requests : Cardinality(S) = config.requests
           IN  u = [r \in Requests |->
                       IF r \in R THEN NewUpstream ELSE [NewUpstream EXCEPT !.st = "done"]]
        /\ conn = [i \in Conns |-> Closed]
        /\ cache = << >>
        /\ run = Rest

(* An upstream name with variables is resolved for the request alone: the  *)
(* peers are its own and the keepalive cache is not asked.                 *)
BlockOf(r) == IF config.resolve THEN r ELSE Shared

Keepalive == config.keepalive > 0 /\ ~config.resolve

Cacheable == config.stale # {}

----------------------------------------------------------------------------
(* init_request: the request is created, and the peers are at hand or the  *)
(* name is resolved first.                                                 *)
Begin(r) ==
    /\ run.fn = "none" /\ u[r].st = "new"
    /\ \E expired \in IF Cacheable THEN BOOLEAN ELSE {FALSE} :
          IF config.resolve
          THEN /\ u' = [u EXCEPT ![r].st = "resolving", ![r].expired = expired]
               /\ UNCHANGED run
          ELSE /\ u' = [u EXCEPT ![r].st = "active", ![r].expired = expired,
                                 ![r].q = InitPeer(blocks[Shared])]
               /\ run' = Call("connect", r, "none")
    /\ UNCHANGED <<config, blocks, conn, cache>>

(* create_request fails: the upstream is not set up yet.                   *)
BeginFails(r) ==
    /\ run.fn = "none" /\ u[r].st = "new"
    /\ u' = [u EXCEPT ![r].st = "done", ![r].answer = "500"]
    /\ UNCHANGED <<config, blocks, conn, cache, run>>

(* resolve_handler: create_round_robin_peer, or 502.                       *)
Resolved(r) ==
    /\ run.fn = "none" /\ u[r].st = "resolving"
    /\ \/ /\ u' = [u EXCEPT ![r].st = "active", ![r].q = InitPeer(blocks[r])]
          /\ run' = Call("connect", r, "none")
       \/ /\ run' = Call("finalize", r, "502")
          /\ UNCHANGED u
    /\ UNCHANGED <<config, blocks, conn, cache>>

----------------------------------------------------------------------------
(* ngx_event_connect_peer, after the balancer has chosen: what the kernel  *)
(* makes of socket() and connect(); a local (UNIX-domain) server is        *)
(* connected to at once.                                                   *)
Sockets(peer) ==
    {[rc |-> "error", conn |-> NoConn, net |-> "closed"],
     [rc |-> "declined", conn |-> NoConn, net |-> "closed"]}
    \cup
    (IF \E i \in Conns : conn[i].net = "closed"
     THEN LET i == CHOOSE j \in Conns : conn[j].net = "closed"
          IN  {[rc |-> "ok", conn |-> i, net |-> "connected"]} \cup
              (IF config.local THEN {}
               ELSE {[rc |-> "again", conn |-> i, net |-> "connecting"]})
     ELSE {})

(* get_keepalive_peer: the most recently used connection to the peer.      *)
Suitable(peer) == {k \in DOMAIN cache : conn[cache[k]].peer = peer}

(* connect(), after ngx_event_connect_peer: the handlers, and reinit when  *)
(* the request was sent to another peer before.                            *)
Connected(w, q, i, cached, again) ==
    [w EXCEPT !.q = [q EXCEPT !.cached = cached], !.conn = i, !.attempts = @ + 1,
              !.wh = "send", !.rh = "header", !.sent = FALSE,
              !.keepalive = IF w.sent THEN FALSE ELSE @,
              !.wt = again, !.rt = FALSE]

AfterConnect(r, again, secure) ==
    IF again THEN Rest
    ELSE IF config.ssl /\ ~secure THEN Call("handshake", r, "none")
    ELSE Call("send", r, "none")

Connect(r) ==
    /\ run.fn = "connect" /\ run.r = r
    /\ u[r].attempts < MaxTries
    /\ \E g \in {Get("round_robin", blocks[BlockOf(r)], u[r].q, << >>, Now)} :
       LET peer == <<g.q.group, g.q.at>>
       IN  /\ blocks' = [blocks EXCEPT ![BlockOf(r)] = g.G]
           /\ IF g.rc = "busy"
              THEN /\ u' = [u EXCEPT ![r].q = g.q]
                   /\ run' = Call("next", r, "nolive")
                   /\ UNCHANGED <<conn, cache>>
              ELSE IF Keepalive /\ Suitable(peer) # {}
              THEN LET k == Min(Suitable(peer))
                   IN  /\ cache' = RemoveAt(cache, k)
                       /\ u' = [u EXCEPT ![r] = Connected(@, g.q, cache[k], TRUE, FALSE)]
                       /\ run' = AfterConnect(r, FALSE, conn[cache[k]].secure)
                       /\ UNCHANGED conn
              ELSE \E s \in Sockets(peer) :
                   /\ cache' = cache
                   /\ conn' = IF s.conn = NoConn THEN conn
                              ELSE [conn EXCEPT ![s.conn] =
                                       [Closed EXCEPT !.peer = peer, !.net = s.net]]
                   /\ u' = IF s.conn = NoConn
                           THEN [u EXCEPT ![r].q = g.q, ![r].attempts = @ + 1]
                           ELSE [u EXCEPT ![r] = Connected(@, g.q, s.conn, FALSE, s.rc = "again")]
                   /\ run' = CASE s.rc = "error"    -> Call("finalize", r, "500")
                               [] s.rc = "declined" -> Call("next", r, "error")
                               [] OTHER             -> AfterConnect(r, s.rc = "again", FALSE)
           /\ UNCHANGED config

(* ssl_init_connection and ssl_handshake.  A handshake that does not       *)
(* finish at once waits for the connection's events; no timer is set here. *)
Handshake(r) ==
    /\ run.fn = "handshake" /\ run.r = r
    /\ \/ /\ run' = Call("finalize", r, "500")
          /\ UNCHANGED <<u, conn>>
       \/ /\ u' = [u EXCEPT ![r].wh = "handshake", ![r].rh = "handshake"]
          /\ run' = Rest
          /\ UNCHANGED conn
       \/ /\ conn' = [conn EXCEPT ![u[r].conn].secure = TRUE]
          /\ u' = [u EXCEPT ![r].wh = "send", ![r].rh = "header"]
          /\ run' = Call("send", r, "none")
       \/ /\ run' = Call("next", r, "error")
          /\ UNCHANGED <<u, conn>>
    /\ UNCHANGED <<config, blocks, cache>>

(* The peer answers in the handshake.                                      *)
HandshakeEvent(r) ==
    /\ run.fn = "none" /\ u[r].wh = "handshake" /\ u[r].conn # NoConn
    /\ \/ /\ conn' = [conn EXCEPT ![u[r].conn].secure = TRUE]
          /\ u' = [u EXCEPT ![r].wh = "send", ![r].rh = "header"]
          /\ run' = Call("send", r, "none")
       \/ /\ run' = Call("next", r, "error")
          /\ UNCHANGED <<u, conn>>
    /\ UNCHANGED <<config, blocks, cache>>

(* send_request: the request goes out whole, in part, or not at all; two   *)
(* calls send all of it.                                                   *)
SendRequest(r) ==
    /\ run.fn = "send" /\ run.r = r
    /\ LET c == conn[u[r].conn]
       IN  \/ /\ \/ ~u[r].sent /\ c.net = "refused" /\ UNCHANGED u
                 \/ c.net # "refused" /\ u' = [u EXCEPT ![r].sent = TRUE]
              /\ run' = Call("next", r, "error")
              /\ UNCHANGED conn
           \/ /\ c.net # "refused" /\ ~u[r].sent
              /\ u' = [u EXCEPT ![r].sent = TRUE, ![r].wt = TRUE]
              /\ run' = Rest
              /\ conn' = [conn EXCEPT ![u[r].conn].owed = TRUE]
           \/ /\ c.net # "refused"
              /\ u' = [u EXCEPT ![r].sent = TRUE, ![r].wt = FALSE, ![r].rt = TRUE,
                                ![r].wh = IF c.in = "none" THEN "dummy" ELSE @]
              /\ run' = IF c.in = "none" THEN Rest ELSE Call("header", r, "none")
              /\ conn' = [conn EXCEPT ![u[r].conn].owed = TRUE]
    /\ UNCHANGED <<config, blocks, cache>>

(* send_request_handler, called for a write event.                         *)
WriteEvent(r) ==
    /\ run.fn = "none" /\ u[r].st = "active" /\ u[r].conn # NoConn
    /\ u[r].wh = "send" /\ conn[u[r].conn].net # "connecting"
    /\ IF config.ssl /\ ~conn[u[r].conn].secure
       THEN run' = Call("handshake", r, "none") /\ UNCHANGED u
       ELSE IF u[r].headerSent
       THEN u' = [u EXCEPT ![r].wh = "dummy"] /\ UNCHANGED run
       ELSE run' = Call("send", r, "none") /\ UNCHANGED u
    /\ UNCHANGED <<config, blocks, conn, cache>>

(* The write timer: connecting or sending took too long.                   *)
WriteTimeout(r) ==
    /\ run.fn = "none" /\ u[r].wt
    /\ u' = [u EXCEPT ![r].wt = FALSE,
                      ![r].late = @ \/ (u[r].wh = "send" /\ u[r].headerSent)]
    /\ run' = CASE u[r].wh = "send"      -> Call("next", r, "timeout")
                [] u[r].wh = "handshake" -> Call("next", r, "error")
                [] OTHER                 -> Rest
    /\ UNCHANGED <<config, blocks, conn, cache>>

----------------------------------------------------------------------------
(* process_header and the body handlers, called for a read event.          *)
ReadEvent(r) ==
    /\ run.fn = "none" /\ u[r].st = "active" /\ u[r].conn # NoConn
    /\ u[r].rh \in {"header", "body"}
    /\ conn[u[r].conn].in # "none" \/ conn[u[r].conn].net = "refused"
    /\ run' = Call(u[r].rh, r, "none")
    /\ UNCHANGED <<config, blocks, u, conn, cache>>

ReadTimeout(r) ==
    /\ run.fn = "none" /\ u[r].rt
    /\ u' = [u EXCEPT ![r].rt = FALSE]
    /\ run' = IF u[r].rh = "header" THEN Call("next", r, "timeout")
                                    ELSE Call("finalize", r, "0")
    /\ UNCHANGED <<config, blocks, conn, cache>>

(* test_next: a status that proxy_next_upstream names, while another try   *)
(* is left; or a stale answer.                                             *)
TestNext(r, status) ==
    IF u[r].q.tries > 1 /\ status \in config.next THEN {Call("next", r, status)}
    ELSE IF u[r].expired /\ status \in config.stale THEN {Call("finalize", r, "stale")}
    ELSE {}

(* What follows a response header that was parsed: the next peer, an       *)
(* intercepted error, X-Accel-Redirect, a failure to send the header, or   *)
(* the response.                                                           *)
Respond(r, in) ==
    LET status == IF in \in {"500", "404"} THEN in ELSE "200"
    IN  IF status # "200" /\ TestNext(r, status) # {} THEN TestNext(r, status)
        ELSE {Call("response", r, in), Call("finalize", r, "declined"),
              Call("finalize", r, "error")}
             \cup IF status = "200" THEN {} ELSE {Call("finalize", r, status)}

(* A response without a body leaves the connection usable.                 *)
Bodiless(in) == in \in {"404", "empty"}

ProcessHeader(r) ==
    /\ run.fn = "header" /\ run.r = r
    /\ LET in == conn[u[r].conn].in
           eaten == [conn EXCEPT ![u[r].conn].in = "none",
                                 ![u[r].conn].owed = @ /\ ~Bodiless(in)]
       IN  IF ~u[r].sent /\ conn[u[r].conn].net = "refused"
           THEN run' = Call("next", r, "error") /\ UNCHANGED <<u, conn>>
           ELSE IF in = "none" THEN run' = Rest /\ UNCHANGED <<u, conn>>
           ELSE IF in = "eof"
           THEN run' = Call("next", r, "error") /\ UNCHANGED <<u, conn>>
           ELSE IF in = "partial"
           THEN /\ run' \in {Rest, Call("next", r, "invalid_header")}
                /\ conn' = eaten
                /\ UNCHANGED u
           ELSE IF in = "invalid"
           THEN /\ run' \in {Call("next", r, "invalid_header"), Call("finalize", r, "500")}
                /\ conn' = eaten
                /\ UNCHANGED u
           ELSE /\ conn' = eaten
                /\ u' = [u EXCEPT ![r].keepalive = Bodiless(in)]
                /\ run' \in Respond(r, in)
    /\ UNCHANGED <<config, blocks, cache>>

(* send_response: the header goes to the client, and the body is relayed.  *)
SendResponse(r) ==
    /\ run.fn = "response" /\ run.r = r
    /\ u' = [u EXCEPT ![r].headerSent = TRUE, ![r].from = u[r].attempts, ![r].rh = "body",
                      ![r].rt = TRUE]
    /\ run' = IF Bodiless(run.arg) THEN Call("finalize", r, "0") ELSE Rest
    /\ UNCHANGED <<config, blocks, conn, cache>>

(* process_upstream and process_request: the body ends with the length the *)
(* header announced, or with the connection.                               *)
Body(r) ==
    /\ run.fn = "body" /\ run.r = r
    /\ LET in == conn[u[r].conn].in
       IN  /\ u' = [u EXCEPT ![r].keepalive = in = "end"]
           /\ conn' = [conn EXCEPT ![u[r].conn].in = IF in = "end" THEN "none" ELSE @,
                                   ![u[r].conn].owed = @ /\ in # "end"]
    /\ run' = Call("finalize", r, "0")
    /\ UNCHANGED <<config, blocks, cache>>

----------------------------------------------------------------------------
(* free_keepalive_peer: a connection whose response is over goes to the    *)
(* head of the cache, in the place of the last one when it is full; it is  *)
(* closed again when the peer has sent something more.                     *)
Savable(w, failed) ==
    /\ Keepalive /\ ~failed
    /\ w.conn # NoConn /\ w.keepalive
    /\ conn[w.conn].in # "eof"

Saved(i) == IF conn[i].in # "none" THEN cache
            ELSE <<i>> \o (IF Len(cache) = config.keepalive THEN Front(cache) ELSE cache)

Evicted(i) == IF conn[i].in # "none" THEN {i}
              ELSE IF Len(cache) = config.keepalive THEN {Last(cache)} ELSE {}

(* A mutant of FreePeer: u->peer.connection is kept.                       *)
FreePeerKeeps(r, failed) ==
    LET w == u[r]
        f == Free("round_robin", blocks[BlockOf(r)], w.q, failed, Now)
        s == Savable(w, failed)
    IN  IF ~w.q.sockaddr
        THEN [G |-> blocks[BlockOf(r)], q |-> w.q, cache |-> cache, drop |-> {}, conn |-> w.conn]
        ELSE [G |-> f.G, q |-> f.q,
              cache |-> IF s THEN Saved(w.conn) ELSE cache,
              drop  |-> IF s THEN Evicted(w.conn) ELSE {},
              conn  |-> w.conn]

(* peer.free: the keepalive cache first, the balancer then.  The result is *)
(* what becomes of the peer's data, of the cache and of the connection.    *)
FreePeer(r, failed) ==
    LET w == u[r]
        f == Free("round_robin", blocks[BlockOf(r)], w.q, failed, Now)
        s == Savable(w, failed)
    IN  IF ~w.q.sockaddr
        THEN [G |-> blocks[BlockOf(r)], q |-> w.q, cache |-> cache, drop |-> {}, conn |-> w.conn]
        ELSE [G |-> f.G, q |-> f.q,
              cache |-> IF s THEN Saved(w.conn) ELSE cache,
              drop  |-> IF s THEN Evicted(w.conn) ELSE {},
              conn  |-> IF s THEN NoConn ELSE w.conn]

CloseAll(C) == [i \in Conns |-> IF i \in C THEN Closed ELSE conn[i]]

(* A mutant of NextStatus: every failed connection is tried again.         *)
NextStatusFree(w, ft) ==
    IF ft = "error" THEN "0"
    ELSE CASE ft = "timeout" -> "504" [] ft = "500" -> "500" [] ft = "404" -> "404"
           [] OTHER -> "502"

(* The status a failure is reported with, "0" for a cached connection that *)
(* turned out to be dead: that costs no try.                               *)
NextStatus(w, ft) ==
    IF w.q.cached /\ ft = "error" THEN "0"
    ELSE CASE ft = "timeout" -> "504" [] ft = "500" -> "500" [] ft = "404" -> "404"
           [] OTHER -> "502"

UpstreamNext(r) ==
    /\ run.fn = "next" /\ run.r = r
    /\ LET ft     == run.arg
           f      == FreePeer(r, ft # "404")
           status == NextStatus(u[r], ft)
           q      == IF status = "0" THEN [f.q EXCEPT !.tries = @ + 1] ELSE f.q
           w      == [u[r] EXCEPT !.q = q, !.conn = f.conn]
           over   == status # "0" /\ (q.tries = 0 \/ ft \notin config.next)
           close  == ~u[r].gone /\ ~over
       IN  /\ blocks' = [blocks EXCEPT ![BlockOf(r)] = f.G]
           /\ cache' = f.cache
           /\ conn' = CloseAll(f.drop \cup (IF close THEN {f.conn} ELSE {}))
           /\ u' = [u EXCEPT ![r] = IF close
                                    THEN [w EXCEPT !.conn = NoConn, !.wt = FALSE, !.rt = FALSE]
                                    ELSE IF f.conn = NoConn
                                    THEN [w EXCEPT !.wt = FALSE, !.rt = FALSE] ELSE w]
           /\ run' = IF u[r].gone THEN Call("finalize", r, "499")
                     ELSE IF over /\ u[r].expired /\ ft \in config.stale
                     THEN Call("finalize", r, "stale")
                     ELSE IF over THEN Call("finalize", r, status)
                     ELSE Call("connect", r, "none")
    /\ UNCHANGED config

(* finalize_request: resolver, peer and connection are given back, and the *)
(* client gets the answer; once the header is sent only the end is left.   *)
Finalize(r) ==
    /\ run.fn = "finalize" /\ run.r = r
    /\ LET f == FreePeer(r, FALSE)
       IN  /\ blocks' = [blocks EXCEPT ![BlockOf(r)] = f.G]
           /\ cache' = f.cache
           /\ conn' = CloseAll(f.drop \cup {f.conn})
           /\ u' = [u EXCEPT ![r] = [NewUpstream EXCEPT
                        !.st = "done", !.q.sockaddr = f.q.sockaddr,
                        !.answer = IF u[r].headerSent THEN "response" ELSE run.arg]]
    /\ run' = Rest
    /\ UNCHANGED config

----------------------------------------------------------------------------
(* check_broken_connection: the client closed its connection.  A response  *)
(* that goes to the cache is fetched all the same.                         *)
ClientCloses(r) ==
    /\ run.fn = "none" /\ u[r].st \in {"resolving", "active"} /\ ~u[r].gone
    /\ ~config.ignoreAbort
    /\ u' = [u EXCEPT ![r].gone = TRUE]
    /\ run' = IF ~Cacheable \/ u[r].conn = NoConn THEN Call("finalize", r, "499") ELSE Rest
    /\ UNCHANGED <<config, blocks, conn, cache>>

(* ngx_http_upstream_cleanup: the request is freed by the server.          *)
Cleanup(r) ==
    /\ run.fn = "none" /\ u[r].st \in {"resolving", "active"}
    /\ run' = Call("finalize", r, "done")
    /\ UNCHANGED <<config, blocks, u, conn, cache>>

(* keepalive_close_handler: the server closed, or wrote to, an idle        *)
(* connection.                                                             *)
KeepaliveEvent(k) ==
    /\ run.fn = "none" /\ k \in DOMAIN cache /\ conn[cache[k]].in # "none"
    /\ conn' = CloseAll({cache[k]})
    /\ cache' = RemoveAt(cache, k)
    /\ UNCHANGED <<config, blocks, u, run>>

(* The servers: a connection is established or refused, and the server     *)
(* answers (perhaps before it has the whole request) or closes.            *)
ServerConnects(i) ==
    /\ run.fn = "none" /\ conn[i].net = "connecting"
    /\ conn' \in {[conn EXCEPT ![i].net = "connected"], [conn EXCEPT ![i].net = "refused"]}
    /\ UNCHANGED <<config, blocks, u, cache, run>>

Reading(i) == \E r \in Requests : u[r].conn = i /\ u[r].rh = "body"

ServerSends(i) ==
    /\ run.fn = "none" /\ conn[i].net = "connected" /\ conn[i].in = "none"
    /\ \/ conn' = [conn EXCEPT ![i].in = "eof"]
       \/ /\ conn[i].owed
          /\ conn' \in {[conn EXCEPT ![i].in = k] :
                           k \in IF Reading(i) THEN {"end"} ELSE config.responses}
    /\ UNCHANGED <<config, blocks, u, cache, run>>

Step(r) == \/ Connect(r) \/ Handshake(r) \/ SendRequest(r) \/ ProcessHeader(r)
           \/ SendResponse(r) \/ Body(r) \/ UpstreamNext(r) \/ Finalize(r)

Timeout(r) == WriteTimeout(r) \/ ReadTimeout(r)

Next == \/ \E r \in Requests : \/ Begin(r) \/ BeginFails(r) \/ Resolved(r) \/ Step(r)
                               \/ HandshakeEvent(r) \/ WriteEvent(r) \/ ReadEvent(r)
                               \/ Timeout(r) \/ ClientCloses(r) \/ Cleanup(r)
        \/ \E k \in DOMAIN cache : KeepaliveEvent(k)
        \/ \E i \in Conns : ServerConnects(i) \/ ServerSends(i)

Spec == Init /\ [][Next]_vars

(* A handler runs to its end; the resolver answers or times out; a timer   *)
(* expires whatever other events come before it, as nothing on this path   *)
(* sets it anew for ever.  Neither servers nor clients need do anything.   *)
FairSpec == Spec /\ \A r \in Requests : /\ WF_vars(Step(r))
                                        /\ SF_vars(Timeout(r))
                                        /\ WF_vars(Resolved(r))

----------------------------------------------------------------------------

(* The state has its type; above all the keepalive cache holds no more     *)
(* connections than keepalive's parameter says.                            *)
TypeOK ==
    /\ \A r \in Requests : /\ u[r].st \in {"new", "resolving", "active", "done"}
                           /\ u[r].conn \in Conns \cup {NoConn}
                           /\ u[r].q.tries \in Nat
    /\ cache \in BoundedSeq(Conns, config.keepalive)
    /\ \A i \in Conns : conn[i].net \in {"closed", "connecting", "connected", "refused"}

Held(i) == {r \in Requests : u[r].conn = i}

(* Every open connection belongs to exactly one request or one place of    *)
(* the keepalive cache: none is leaked by an error path, none is closed    *)
(* under its owner and none is shared, however requests retry and end.     *)
ConnectionsOwned ==
    \A i \in Conns :
        LET owners == Cardinality(Held(i)) + Cardinality({k \in DOMAIN cache : cache[k] = i})
        IN  owners = (IF conn[i].net = "closed" THEN 0 ELSE 1)

(* Two waits are not timed.  ssl_init_connection sets no timer: a          *)
(* handshake on a connection that connect() established at once has none.  *)
(* And a server may answer before it has the whole request; when the timer *)
(* of that request's sending expires after the header went to the client   *)
(* (send_request_handler looks at the timer before header_sent) another    *)
(* server is connected to, but header_sent keeps the request from being    *)
(* sent there.                                                             *)
Untimed(r) == u[r].wh = "handshake" \/ u[r].late

(* Every request that was begun ends, whatever servers and client do,      *)
(* unless it is left to one of the two untimed waits.                      *)
RequestsEnd ==
    \A r \in Requests : (u[r].st \in {"resolving", "active"}) ~> (u[r].st = "done" \/ Untimed(r))
=============================================================================
