------------------------------ MODULE Resolver ------------------------------
(***************************************************************************)
(* The resolver of a worker (ngx_resolver.c): contexts ask for the         *)
(* addresses of a name or for the name of an address, a node of a tree     *)
(* collects the contexts that wait for the same key, queries are resent    *)
(* until an answer comes, and answers are kept for their time to live.     *)
(*                                                                         *)
(* A key is a name or an address, and is in the tree of its kind.  A list  *)
(* of contexts is a sequence, head first; so is a queue.  A query is       *)
(* identified by its number, which a new query takes from Idents at        *)
(* random.  Allocations succeed.  The memory of names is not modelled: a   *)
(* name is a value.                                                        *)
(***************************************************************************)
EXTENDS Integers, Sequences, SequencesExt, FiniteSets, TLC

CONSTANTS
    Ctxs,            \* contexts
    Wanted,          \* Wanted[c]: the keys context c may ask for
    Zone,            \* what the servers know of each key
    Idents,          \* query identifiers
    NServers,        \* udp_connections.nelts
    ResendTimeout, Expire, CtxTimeout, TTL, MaxRecursion,
    MaxClock, MaxNoise   \* bounds: the time, and the failures and strange answers

VARIABLES r, ctx, wire, clock, noise, crashed

vars == <<r, ctx, wire, clock, noise, crashed>>

Keys == DOMAIN Zone

Kind(k) == IF Zone[k].kind = "ptr" THEN "addr" ELSE "name"

Kinds == {"name", "addr"}

Nil == [query |-> -1]

Never == 1000

Freed == [state |-> "freed", name |-> "none", asked |-> "none", recursion |-> 0,
          event |-> Never, loose |-> "no"]

Init ==
    /\ r = [tree |-> [k \in Keys |-> Nil], resend |-> [t \in Kinds |-> << >>],
            expire |-> [t \in Kinds |-> << >>], event |-> Never,
            udp |-> [i \in 1 .. NServers |-> "none"], last |-> 1]
    /\ ctx = [c \in Ctxs |-> [Freed EXCEPT !.state = "new"]]
    /\ wire = {}
    /\ clock = 1
    /\ noise = 0
    /\ crashed = "no"

(* What a function works on: the resolver, its contexts, the packets sent, *)
(* and whether freed memory or the head of a queue was read as a node.     *)
Now == [r |-> r, ctx |-> ctx, wire |-> wire, noise |-> noise, crashed |-> crashed]

Become(S) ==
    /\ r' = S.r /\ ctx' = S.ctx /\ wire' = S.wire /\ noise' = S.noise
    /\ crashed' = S.crashed

Dequeue(S, k) ==     \* ngx_queue_remove
    [S EXCEPT !.r.resend[Kind(k)] = Remove(@, k), !.r.expire[Kind(k)] = Remove(@, k)]

ToResend(S, k) == [S EXCEPT !.r.resend[Kind(k)] = <<k>> \o @]

ToExpire(S, k) ==
    [S EXCEPT !.r.tree[k].expire = clock + Expire, !.r.expire[Kind(k)] = <<k>> \o @]

FreeNode(S, k) == [S EXCEPT !.r.tree[k] = Nil]

lookup(S, k) == S.r.tree[k]

----------------------------------------------------------------------------
(* ngx_resolver_expire: at most two nodes, from the tail.                  *)
ExpireOne(S, t) ==
    LET q == S.r.expire[t]
    IN  IF q = << >> \/ clock <= S.r.tree[Last(q)].expire THEN S
        ELSE FreeNode(Dequeue(S, Last(q)), Last(q))

resolver_expire(S, t) == ExpireOne(ExpireOne(S, t), t)

resolve_done_keeps(S, c) ==
    [resolver_expire(S, Kind(S.ctx[c].asked))
       EXCEPT !.ctx[c] = [Freed EXCEPT !.loose = S.ctx[c].loose]]

(* ngx_resolve_name_done and ngx_resolve_addr_done: a context that has not *)
(* been answered leaves the list of the node of its present name.          *)
resolve_done(S, c) ==
    LET x == S.ctx[c]
        left == IF x.state \in {"again", "timedout"} /\ lookup(S, x.name) # Nil
                THEN [S EXCEPT !.r.tree[x.name].waiting = Remove(@, c)]
                ELSE S
    IN  [resolver_expire(left, Kind(x.asked))
           EXCEPT !.ctx[c] = [Freed EXCEPT !.loose = x.loose]]

(* ctx->handler: the users of the resolver take the answer and call        *)
(* ngx_resolve_name_done (external to the resolver).                       *)
handler(S, c, state) ==
    IF S.ctx[c].state = "freed" THEN [S EXCEPT !.crashed = "freed"]
    ELSE resolve_done([S EXCEPT !.ctx[c].state = state], c)

Handlers(S, list, state) ==
    FoldLeft(LAMBDA acc, c : handler(acc, c, state), S, list)

(* ngx_udp_connect and ngx_resolver_send_query: the servers take turns.  A *)
(* connect() that fails leaves a socket that cannot send, and an event     *)
(* that cannot be added one that is not read; a send may fail, too.        *)
udp_connect(S, i) ==
    IF S.r.udp[i] # "none" THEN {S}
    ELSE {[S EXCEPT !.r.udp[i] = "open"]}
         \cup (IF S.noise < MaxNoise
               THEN {[S EXCEPT !.r.udp[i] = u, !.noise = @ + 1] :
                        u \in {"none", "unconnected", "deaf"}}
               ELSE {})

(* The outcomes of a send: the state, and whether it was NGX_OK.           *)
send_query(S, k) ==
    LET i == S.r.last
        turned == [S EXCEPT !.r.last = IF i = NServers THEN 1 ELSE i + 1]
        packet == [ident |-> S.r.tree[k].query, key |-> k, server |-> i]
    IN  UNION {IF T.r.udp[i] \in {"none", "unconnected"} THEN {[s |-> T, ok |-> FALSE]}
               ELSE {[s |-> [T EXCEPT !.wire = @ \cup {packet}], ok |-> TRUE]}
                    \cup (IF T.noise < MaxNoise
                          THEN {[s |-> [T EXCEPT !.noise = @ + 1], ok |-> FALSE]} ELSE {}) :
                  T \in udp_connect(turned, i)}

(* ngx_add_timer with the resend interval, when the queue was empty.       *)
ResendTimer(S, k) ==
    IF S.r.resend[Kind(k)] = << >>
    THEN [S EXCEPT !.r.event = clock + ResendTimeout] ELSE S

(* History: the contexts of a list are moved to the node of an alias with  *)
(* their name unchanged, or are in no list any more.                       *)
Loose(S, list, how) ==
    [S EXCEPT !.ctx = [c \in Ctxs |-> IF c \in ToSet(list) THEN [@[c] EXCEPT !.loose = how]
                                      ELSE @[c]]]

(* A new or outdated node asks: the query of create_name_query or          *)
(* create_addr_query, the send, the timer of the context (which only the   *)
(* one that sends the query has), the resend queue.                        *)
Ask(S, c, k, behind) ==
    UNION {LET node == [query |-> id, expire |-> clock + ResendTimeout, valid |-> 0,
                        cname |-> "none", addrs |-> << >>, waiting |-> <<c>> \o behind]
               T == Loose([S EXCEPT !.r.tree[k] = node], behind, "moved")
           IN  {IF sent.ok
                THEN [s |-> ToResend(ResendTimer(
                              [sent.s EXCEPT !.ctx[c].state = "again",
                                             !.ctx[c].event = IF @ = Never
                                                              THEN clock + CtxTimeout ELSE @],
                              k), k),
                      rc |-> "again"]
                ELSE [s |-> Loose(FreeNode(sent.s, k), <<c>> \o behind, "lost"),
                      rc |-> "error"] :
                   sent \in send_query(T, k)} :
              id \in Idents}

Join(S, c, k) ==
    {[s |-> [S EXCEPT !.r.tree[k].waiting = <<c>> \o @, !.ctx[c].state = "again"],
      rc |-> "again"]}

(* ngx_resolve_name_locked.  The contexts behind c in its list (next) stay *)
(* with it only when it asks; otherwise next is overwritten.               *)
RECURSIVE resolve_name_locked(_, _, _)
resolve_name_locked(S, c, behind) ==
    LET k == S.ctx[c].name
        rn == lookup(S, k)
        alone == Loose(S, behind, "lost")
        fresh == ToExpire(Dequeue(S, k), k)
        all == <<c>> \o rn.waiting
        taken == [ToExpire(Dequeue(alone, k), k) EXCEPT !.r.tree[k].waiting = << >>]
    IN  CASE rn # Nil /\ rn.valid >= clock /\ rn.addrs # << >> ->
               {[s |-> Handlers(taken, all, "ok"), rc |-> "ok"]}
          [] rn # Nil /\ rn.valid >= clock /\ rn.addrs = << >> ->
               IF S.ctx[c].recursion < MaxRecursion
               THEN resolve_name_locked([fresh EXCEPT !.ctx[c].recursion = @ + 1,
                                                      !.ctx[c].name = rn.cname], c, behind)
               ELSE {[s |-> Handlers([taken EXCEPT !.ctx[c].recursion = @ + 1],
                                     all, "nxdomain"), rc |-> "ok"]}
          [] rn # Nil /\ rn.valid < clock /\ rn.waiting # << >> -> Join(alone, c, k)
          [] rn = Nil /\ Zone[k].kind = "unnamed" ->     \* NGX_DECLINED: an empty label
               {[s |-> handler(alone, c, "nxdomain"), rc |-> "ok"]}
          [] OTHER -> Ask(Dequeue(S, k), c, k, behind)

(* The lookup of an address in ngx_resolve_addr.                           *)
resolve_addr_locked(S, c) ==
    LET k == S.ctx[c].name
        rn == lookup(S, k)
    IN  CASE rn # Nil /\ rn.valid >= clock ->
               {[s |-> handler(ToExpire(Dequeue(S, k), k), c, "ok"), rc |-> "ok"]}
          [] rn # Nil /\ rn.valid < clock /\ rn.waiting # << >> -> Join(S, c, k)
          [] OTHER -> Ask(Dequeue(S, k), c, k, << >>)

----------------------------------------------------------------------------
(* Actions.  ngx_resolve_start and ngx_resolve_name or ngx_resolve_addr: an *)
(* error frees the context.  The name may be the address itself (quick).   *)
Resolve(c, k) ==
    /\ ctx[c].state = "new"
    /\ LET S == [Now EXCEPT !.ctx[c].name = k, !.ctx[c].asked = k]
           results == CASE Zone[k].kind = "literal" -> {[s |-> [S EXCEPT !.ctx[c] = Freed],
                                                         rc |-> "ok"]}
                        [] Zone[k].kind = "ptr" -> resolve_addr_locked(S, c)
                        [] OTHER -> resolve_name_locked(S, c, << >>)
       IN  \E x \in results :
              Become(IF x.rc = "error" THEN [x.s EXCEPT !.ctx[c] = Freed] ELSE x.s)
    /\ UNCHANGED clock

(* The request of the context ends before the answer: its user calls       *)
(* ngx_resolve_name_done.                                                  *)
Cancel(c) ==
    /\ ctx[c].state = "again"
    /\ Become(resolve_done(Now, c))
    /\ UNCHANGED clock

(* ngx_resolver_timeout_handler                                            *)
Timeout(c) ==
    /\ ctx[c].event <= clock
    /\ Become(handler([Now EXCEPT !.ctx[c].event = Never], c, "timedout"))
    /\ UNCHANGED clock

(* ngx_resolver_resend: the queries due, from the tail; a node nobody      *)
(* waits for is deleted.  The result is the outcomes, each with the time   *)
(* to the next (0 when the queue is empty).                                *)
RECURSIVE resend(_, _)
resend(S, t) ==
    LET q == S.r.resend[t]
        k == Last(q)
        rn == S.r.tree[k]
        out == Dequeue(S, k)
    IN  CASE q = << >> -> {[s |-> S, timer |-> 0]}
          [] q # << >> /\ clock < rn.expire -> {[s |-> S, timer |-> rn.expire - clock]}
          [] q # << >> /\ clock >= rn.expire /\ rn.waiting = << >> ->
               resend(FreeNode(out, k), t)
          [] OTHER ->
               UNION {resend(ToResend([sent.s EXCEPT !.r.tree[k].expire = clock + ResendTimeout],
                                      k), t) : sent \in send_query(out, k)}

ResendHandler ==
    /\ r.event <= clock
    /\ \E n \in resend([Now EXCEPT !.r.event = Never], "name") :
       \E a \in resend(n.s, "addr") :
          LET next == CASE n.timer = 0 -> a.timer
                        [] n.timer # 0 /\ a.timer = 0 -> n.timer
                        [] OTHER -> IF a.timer < n.timer THEN a.timer ELSE n.timer
          IN  Become([a.s EXCEPT !.r.event = IF next = 0 THEN Never ELSE clock + next])
    /\ UNCHANGED clock

----------------------------------------------------------------------------
(* ngx_resolver_process_a reads the answers one after the other: one of an *)
(* unexpected type is not skipped, and spoils those after it.              *)
ReadAnswers(p) ==
    LET odd == {i \in DOMAIN p.answers : p.answers[i].type = "other"}
        of(type) == SelectSeq(p.answers, LAMBDA a : a.type = type)
    IN  [ok |-> p.bad # "answer" /\ odd \subseteq {Len(p.answers)},
         addrs |-> of("a"),
         cname |-> IF of("cname") = << >> THEN "none" ELSE Last(of("cname")).data]

(* An error, or no answers: the node goes and its contexts are told.       *)
Refused(S, p) ==
    LET k == p.key
        code == IF p.code = "ok" THEN "nxdomain" ELSE p.code
    IN  {Handlers(FreeNode(Dequeue(S, k), k), S.r.tree[k].waiting, code)}

Keep(S, k) ==
    ToExpire([Dequeue(S, k) EXCEPT !.r.tree[k].valid = clock + TTL,
                                   !.r.tree[k].waiting = << >>], k)

ForgetQuery(S, k) == [S EXCEPT !.r.tree[k].query = 0]

process_a(S, p) ==
    LET k == p.key
        rn == lookup(S, k)
        got == ReadAnswers(p)
        list == rn.waiting
        kept == [Keep(S, k) EXCEPT !.r.tree[k].cname = got.cname]
        first == Head(list)
        follow == [kept EXCEPT !.ctx[first].name = got.cname,
                               !.crashed = IF kept.ctx[first].state = "freed" THEN "freed" ELSE @]
    IN  CASE rn = Nil -> {S}
          [] rn # Nil /\ rn.query # p.ident -> {S}
          [] rn # Nil /\ rn.query = p.ident /\ (p.code # "ok" \/ p.answers = << >>) ->
               Refused(S, p)
          [] rn # Nil /\ rn.query = p.ident /\ p.code = "ok" /\ p.answers # << >> ->
               (CASE ~got.ok -> {S}
                  [] got.ok /\ got.addrs # << >> ->
                       {ForgetQuery(Handlers([Keep(S, k) EXCEPT !.r.tree[k].addrs = got.addrs],
                                             list, "ok"), k)}
                  [] got.ok /\ got.addrs = << >> /\ got.cname # "none" /\ list = << >> ->
                       {ForgetQuery(kept, k)}
                  [] got.ok /\ got.addrs = << >> /\ got.cname # "none" /\ list # << >> ->
                       {ForgetQuery(x.s, k) :
                           x \in resolve_name_locked(follow, first, Tail(list))}
                  [] OTHER -> {S})

(* ngx_resolver_process_ptr: the query is kept, so that a second answer is *)
(* taken as the first was.                                                 *)
process_ptr(S, p) ==
    LET k == p.key
        rn == lookup(S, k)
    IN  CASE rn = Nil -> {S}
          [] rn # Nil /\ rn.query # p.ident -> {S}
          [] rn # Nil /\ rn.query = p.ident /\ (p.code # "ok" \/ p.answers = << >>) ->
               Refused(S, p)
          [] rn # Nil /\ rn.query = p.ident /\ p.code = "ok" /\ p.answers # << >> ->
               IF p.bad = "answer" THEN {S} ELSE {Handlers(Keep(S, k), rn.waiting, "ok")}

(* ngx_resolver_process_response: a format error is only logged.  The      *)
(* search for its query runs over the end of the queue when it is not      *)
(* there, and reads the queue's head as a node.                            *)
process_response(S, p) ==
    CASE p.bad = "header" -> {S}
      [] p.bad # "header" /\ p.code = "formerr" ->
           IF \E k \in ToSet(S.r.resend["name"]) : S.r.tree[k].query = p.ident THEN {S}
           ELSE {S, [S EXCEPT !.crashed = "queue"]}
      [] p.bad # "header" /\ p.code = "unknown" -> {S}
      [] OTHER -> IF Kind(p.key) = "name" THEN process_a(S, p) ELSE process_ptr(S, p)

----------------------------------------------------------------------------
(* The servers (external): to a packet they answer from the zone; or with  *)
(* an error, a malformed or a partial answer.  One that is lost stays in   *)
(* wire, and so does one that is answered twice.                           *)
Answers(k) ==
    LET z == Zone[k]
        A == [type |-> "a", data |-> z.data]
    IN  CASE z.kind = "a" -> {<<A>>, <<A, A>>}
          [] z.kind = "cname" -> {<<[type |-> "cname", data |-> z.data]>>}
          [] z.kind = "ptr" -> {<<[type |-> "ptr", data |-> z.data]>>}
          [] OTHER -> {<< >>}

Reply(p, code, answers, bad) ==
    [ident |-> p.ident, key |-> p.key, code |-> code, answers |-> answers, bad |-> bad]

Strange(p) ==
    LET a == CHOOSE x \in Answers(p.key) : TRUE
        odd == <<[type |-> "other", data |-> "x"]>>
    IN  {Reply(p, code, << >>, "no") : code \in {"servfail", "formerr", "unknown"}}
        \cup {Reply(p, "ok", a, bad) : bad \in {"header", "answer"}}
        \cup {Reply(p, "ok", odd \o a, "no"), Reply(p, "ok", a \o odd, "no")}

(* ngx_resolver_read_response: an answer arrives.                          *)
ReadResponse ==
    /\ \E p \in wire :
        /\ r.udp[p.server] = "open"
        /\ \E a \in Answers(p.key), again \in {FALSE, noise < MaxNoise} :
           \E S \in process_response(
                       [Now EXCEPT !.wire = IF again THEN @ ELSE @ \ {p},
                                   !.noise = IF again THEN @ + 1 ELSE @],
                       Reply(p, "ok", a, "no")) : Become(S)
    /\ UNCHANGED clock

ReadStrange ==
    /\ noise < MaxNoise
    /\ \E p \in wire :
        /\ r.udp[p.server] = "open"
        /\ \E q \in Strange(p), W \in {wire, wire \ {p}} :
           \E S \in process_response([Now EXCEPT !.wire = W, !.noise = @ + 1], q) : Become(S)
    /\ UNCHANGED clock

Tick ==
    /\ clock < MaxClock
    /\ clock' = clock + 1
    /\ UNCHANGED <<r, ctx, wire, noise, crashed>>

Next ==
    /\ crashed = "no"
    /\ \/ \E c \in Ctxs : \E k \in Wanted[c] : Resolve(c, k)
       \/ \E c \in Ctxs : Cancel(c) \/ Timeout(c)
       \/ ResendHandler
       \/ ReadResponse
       \/ ReadStrange
       \/ Tick

Spec == Init /\ [][Next]_vars

----------------------------------------------------------------------------
(* A context that waits is in the list of one node, that node has a query  *)
(* and its turn in the resend queue, and the resend timer runs.  The node  *)
(* is that of its name, so that ngx_resolve_name_done finds it there, and  *)
(* a list holds only contexts that still wait.                             *)
(* The code breaks this where a name turns out to be an alias (1440-1456), *)
(* and there only.  The contexts behind the first move with it if it sends *)
(* the query for the alias: they stay in a list, but under another name    *)
(* than theirs, so that one which is cancelled is freed and stays listed   *)
(* ("moved").  Otherwise they are in no list ("lost"), and neither is the  *)
(* first when the query for the alias cannot be sent, the result being     *)
(* ignored; only a timer of their own ends their wait, and a context that  *)
(* joined a lookup has none.  A freed context is used only after a move.   *)
NothingStranded ==
    /\ \A c \in Ctxs : ctx[c].state = "again" /\ ctx[c].loose # "lost" =>
         \E k \in Keys :
           /\ {j \in Keys : r.tree[j] # Nil /\ c \in ToSet(r.tree[j].waiting)} = {k}
           /\ k = ctx[c].name \/ ctx[c].loose = "moved"
           /\ r.tree[k].query # 0
           /\ k \in ToSet(r.resend[Kind(k)])
           /\ r.event # Never
    /\ \A k \in Keys : r.tree[k] # Nil =>
         \A c \in ToSet(r.tree[k].waiting) : ctx[c].state = "again" \/ ctx[c].loose = "moved"
    /\ crashed = "freed" => \E c \in Ctxs : ctx[c].loose = "moved"

=============================================================================
