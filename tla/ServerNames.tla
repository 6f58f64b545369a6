----------------------------- MODULE ServerNames -----------------------------
(***************************************************************************)
(* Which server{} block handles a request: the listen directives become    *)
(* addresses per port and listening sockets, the server names of every     *)
(* address become hash tables (http/ngx_http.c, core/ngx_hash.c), and a    *)
(* connection's local address, the name negotiated by TLS and the Host of  *)
(* the request choose among them (http/ngx_http_request.c).                *)
(*                                                                         *)
(* Names and hosts are sequences of character codes.  Servers are numbered *)
(* in the order of the configuration.                                      *)
(***************************************************************************)
EXTENDS Integers, Sequences, FiniteSets, SequencesExt, TLC

CONSTANTS Declarations,   \* the configurations: servers, and what clients ask of them
          BucketSize,     \* server_names_hash_bucket_size
          HashMaxSize     \* server_names_hash_max_size

VARIABLES decl,      \* the configuration
          ports,     \* the ports with their addresses, in the order of the directives
          sockets,   \* the listening sockets
          link       \* a connection and its request

vars == <<decl, ports, sockets, link>>

Dot == 46
Star == 42
Wild == 0            \* the wildcard address
Nobody == 0         \* no server

Drop(q, n) == SubSeq(q, n + 1, Len(q))
Least(S) == CHOOSE i \in S : \A j \in S : i <= j

-----------------------------------------------------------------------------
(* Hash tables *)

\* ngx_hash()
HashKey(name) == FoldLeft(LAMBDA k, c : (k * 31 + c) % 2 ^ 20, 0, name)

\* NGX_HASH_ELT_SIZE on a machine with words of eight bytes
EltSize(name) == 8 + 8 * ((Len(name) + 2 + 7) \div 8)

\* A value of a wildcard hash: its two low bits, the server or the hash it points to
Plain(server) == [bits |-> 0, server |-> server, wild |-> <<>>]
NoValue == Plain(Nobody)

\* ngx_hash_init(): the smallest number of buckets in which the elements fit.  A hash is
\* [ok, size, elts], the elements of a bucket in the order of the keys.
HashInit(keys) ==
    LET room == BucketSize - 8
        load(size, b) == FoldLeft(LAMBDA s, k : s + (IF HashKey(k.name) % size = b
                                                     THEN EltSize(k.name) ELSE 0), 0, keys)
        Start(s) == IF s = 0 THEN 1 ELSE s
        sizes == {size \in Start(Len(keys) \div (room \div 16)) .. HashMaxSize - 1 :
                     \A b \in 0 .. size - 1 : load(size, b) <= room}
        fits == \A i \in 1 .. Len(keys) :
                    /\ EltSize(keys[i].name) + 8 <= BucketSize
                    /\ keys[i].value.wild = <<>> \/ keys[i].value.wild[1].hash.ok
        Built(ok, size) == [ok |-> ok, size |-> size,
            elts |-> [b \in 0 .. size - 1 |->
                         SelectSeq(keys, LAMBDA k : HashKey(k.name) % size = b)]]
        Of(found) == IF found = {} THEN Built(FALSE, 1) ELSE Built(TRUE, Least(found))
    IN Of(IF fits THEN sizes ELSE {})

NoHash == [ok |-> TRUE, size |-> 0, elts |-> <<>>]

\* ngx_hash_find()
HashFind(hash, name) ==
    LET bucket == hash.elts[HashKey(name) % hash.size]
        hits == {i \in 1 .. Len(bucket) : bucket[i].name = name}
    IN IF hits = {} THEN NoValue ELSE bucket[Least(hits)].value

LabelLength(name) == Least({i \in 1 .. Len(name) : name[i] = Dot} \cup {Len(name) + 1}) - 1

TogetherByPrefix(names, len, dot) ==
    Least({i \in 2 .. Len(names) : ~IsPrefix(SubSeq(names[1].name, 1, len), names[i].name)}
          \cup {Len(names) + 1}) - 1

LastDot(name) ==
    LET dots == {i \in 1 .. Len(name) : name[i] = Dot}
    IN IF dots = {} THEN 0 ELSE CHOOSE i \in dots : \A j \in dots : j <= i

\* The names after the first that ngx_hash_wildcard_init() takes together with it
Together(names, len, dot) ==
    Least({i \in 2 .. Len(names) :
              \/ ~IsPrefix(SubSeq(names[1].name, 1, len), names[i].name)
              \/ ~dot /\ Len(names[i].name) > len /\ names[i].name[len + 1] /= Dot}
          \cup {Len(names) + 1}) - 1

\* ngx_hash_wildcard_init(): one hash per label.  The first of the sorted names and the ones
\* that share its label become one key; the rest of these names is the hash below it.
RECURSIVE WildcardKeys(_)
WildcardKeys(names) ==
    LET Value(first, whole, dot, next) ==
            CASE next /= <<>> ->
                   [bits |-> IF dot THEN 3 ELSE 2, server |-> Nobody,
                    wild |-> <<[hash |-> HashInit(WildcardKeys(next)),
                                server |-> IF whole THEN first.value.server ELSE Nobody]>>]
              [] next = <<>> /\ dot -> [first.value EXCEPT !.bits = 1]
              [] OTHER -> first.value
        Rest(first, whole, label, len, last) ==
            (IF whole THEN <<>> ELSE <<[first EXCEPT !.name = Drop(@, len)]>>)
              \o [i \in 1 .. last - 1 |-> [names[i + 1] EXCEPT !.name = Drop(@, label + 1)]]
        Keys(first, label, dot, len, last) ==
            <<[name |-> SubSeq(first.name, 1, label),
               value |-> Value(first, Len(first.name) = len, dot,
                               Rest(first, Len(first.name) = len, label, len, last))]>>
              \o WildcardKeys(Drop(names, last))
        Split(first, label, dot, len) == Keys(first, label, dot, len, Together(names, len, dot))
        From(first, label) == Split(first, label, label < Len(first.name),
                                    IF label < Len(first.name) THEN label + 1 ELSE label)
    IN IF names = <<>> THEN <<>> ELSE From(names[1], LabelLength(names[1].name))

\* what was found below a label, or what stands for everything below it
Below(found, below) == IF found /= Nobody THEN found ELSE below.server

\* ngx_hash_find_wc_head(): labels from the right; the last one starts after position n
RECURSIVE FindHead(_, _)
FindHead(hwc, name) ==
    LET Found(n, value) ==
            CASE value = NoValue -> hwc.server
              [] value.bits = 3 /\ n = 0 -> Nobody
              [] value.bits = 2 /\ n = 0 -> value.wild[1].server
              [] value.bits \in {2, 3} /\ n > 0 ->
                   Below(FindHead(value.wild[1], SubSeq(name, 1, n - 1)), value.wild[1])
              [] value.bits = 1 -> IF n = 0 THEN Nobody ELSE value.server
              [] OTHER -> value.server
        From(n) == Found(n, HashFind(hwc.hash, Drop(name, n)))
    IN From(LastDot(name))

\* ngx_hash_find_wc_tail(): labels from the left
RECURSIVE FindTail(_, _)
FindTail(hwc, name) ==
    LET Found(label, value) ==
            CASE label = Len(name) -> Nobody
              [] label < Len(name) /\ value = NoValue -> hwc.server
              [] label < Len(name) /\ value.bits \in {2, 3} ->
                   Below(FindTail(value.wild[1], Drop(name, label + 1)), value.wild[1])
              [] OTHER -> value.server
        From(label) == Found(label, HashFind(hwc.hash, SubSeq(name, 1, label)))
    IN From(LabelLength(name))

\* ngx_hash_find_combined()
FindCombined(names, host) ==
    LET Or(found, other) == IF found /= Nobody THEN found ELSE other
    IN Or(IF names.hash = NoHash THEN Nobody ELSE HashFind(names.hash, host).server,
          IF host = <<>> THEN Nobody
          ELSE Or(IF names.head = <<>> THEN Nobody ELSE FindHead(names.head[1], host),
                  IF names.tail = <<>> THEN Nobody ELSE FindTail(names.tail[1], host)))

-----------------------------------------------------------------------------
(* Server names *)

\* "b.a" as "a.b", label by label
Reversed(name) ==
    LET labels == FoldLeft(LAMBDA ls, c : IF c = Dot THEN <<<<>>>> \o ls
                                          ELSE <<Append(ls[1], c)>> \o SubSeq(ls, 2, Len(ls)),
                           <<<<>>>>, name)
    IN FoldLeft(LAMBDA t, l : IF t = <<0>> THEN l ELSE t \o <<Dot>> \o l, <<0>>, labels)

\* ngx_hash_keys_arrays_t: the keys of the three hashes and the names seen for each
NoKeys == [keys |-> <<>>, head |-> <<>>, tail |-> <<>>, seen |-> {}, heads |-> {},
           tails |-> {}, rc |-> "ok"]

Busy(K) == [K EXCEPT !.rc = "busy"]
Declined(K) == [K EXCEPT !.rc = "declined"]

\* "*.b.a" and ".b.a": the labels reversed, the former with a dot at the end.  Of ".b.a"
\* the name itself is also taken, even when the wildcard turns out to be taken already.
AddHead(K, name, skip, server) ==
    LET base == Drop(name, skip)
        S == IF skip = 1 THEN [K EXCEPT !.seen = @ \cup {base}] ELSE K
        key == Reversed(base) \o (IF skip = 2 THEN <<Dot>> ELSE <<>>)
    IN CASE skip = 1 /\ base \in K.seen -> Busy(K)
         [] (skip = 2 \/ base \notin K.seen) /\ base \in K.heads -> Busy(S)
         [] OTHER -> [S EXCEPT !.heads = @ \cup {base},
                               !.head = Append(@, [name |-> key, value |-> Plain(server)])]

AddTail(K, name, server) ==
    LET base == SubSeq(name, 1, Len(name) - 2) IN
    IF base \in K.tails THEN Busy(K)
    ELSE [K EXCEPT !.tails = @ \cup {base},
                   !.tail = Append(@, [name |-> base, value |-> Plain(server)])]

AddExact(K, name, server) ==
    IF name \in K.seen THEN Busy(K)
    ELSE [K EXCEPT !.seen = @ \cup {name},
                   !.keys = Append(@, [name |-> name, value |-> Plain(server)])]

\* ngx_hash_add_key() with NGX_HASH_WILDCARD_KEY
AddKey(K, name, server) ==
    LET len == Len(name)
        stars == Cardinality({i \in 1 .. len : name[i] = Star})
        bad == stars > 1 \/ \E i \in 1 .. len - 1 : name[i] = Dot /\ name[i + 1] = Dot
    IN CASE bad -> Declined(K)
         [] ~bad /\ len > 1 /\ name[1] = Dot -> AddHead(K, name, 1, server)
         [] ~bad /\ len > 2 /\ name[1] = Star /\ name[2] = Dot -> AddHead(K, name, 2, server)
         [] ~bad /\ len > 2 /\ name[1] \notin {Star, Dot}
            /\ name[len - 1] = Dot /\ name[len] = Star -> AddTail(K, name, server)
         [] OTHER -> IF stars > 0 THEN Declined(K) ELSE AddExact(K, name, server)

\* ngx_dns_strcmp(): the dot is the lowest character
DnsLess(a, b) ==
    LET low(c) == IF c = Dot THEN 32 ELSE c
        n == Least({i \in 1 .. Len(a) : i > Len(b) \/ a[i] /= b[i]} \cup {Len(a) + 1})
    IN n <= Len(b) /\ (n > Len(a) \/ low(a[n]) < low(b[n]))

DnsSort(keys) == SortSeq(keys, LAMBDA k, l : DnsLess(k.name, l.name))

Wildcard(keys) ==
    IF keys = <<>> THEN <<>>
    ELSE <<[hash |-> HashInit(WildcardKeys(DnsSort(keys))), server |-> Nobody]>>

NoNames == [hash |-> NoHash, head |-> <<>>, tail |-> <<>>, regex |-> <<>>, ok |-> TRUE]

\* The names of an address' servers, in the order of the servers
NamesOf(servers) ==
    FlattenSeq([i \in 1 .. Len(servers) |->
        [j \in 1 .. Len(decl.servers[servers[i]].names) |->
            decl.servers[servers[i]].names[j] @@ [server |-> servers[i]]]])

\* ngx_http_server_names()
ServerNamesOf(servers) ==
    LET Keys(names) ==
            FoldLeft(LAMBDA A, n : IF A.rc = "declined" \/ n.regex THEN A
                                   ELSE AddKey([A EXCEPT !.rc = "ok"], n.name, n.server),
                     NoKeys, names)
        Built(names, rc, hash, head, tail) ==
            [hash |-> hash, head |-> head, tail |-> tail,
             regex |-> SelectSeq(names, LAMBDA n : n.regex),
             ok |-> /\ rc /= "declined" /\ hash.ok
                    /\ head = <<>> \/ head[1].hash.ok
                    /\ tail = <<>> \/ tail[1].hash.ok]
        With(names, K) == Built(names, K.rc, IF K.keys = <<>> THEN NoHash ELSE HashInit(K.keys),
                                Wildcard(K.head), Wildcard(K.tail))
        Of(names) == With(names, Keys(names))
    IN Of(NamesOf(servers))

-----------------------------------------------------------------------------
(* Ports, addresses and sockets *)

\* ngx_http_add_address() with ngx_http_add_server()
Address(l, server) ==
    [addr |-> l.addr, bind |-> l.bind, set |-> l.set, default |-> l.default,
     server |-> server, servers |-> <<server>>, names |-> NoNames]

\* ngx_http_add_addresses(): another server on a known address
AddServer(a, l, server) ==
    [(IF l.set THEN [a EXCEPT !.bind = l.bind, !.set = TRUE] ELSE a) EXCEPT
        !.servers = Append(@, server), !.default = a.default \/ l.default,
        !.server = IF l.default THEN server ELSE @]

\* a duplicate listen, duplicate options, a duplicate default server
Refused(a, l, server) ==
    \/ \E i \in 1 .. Len(a.servers) : a.servers[i] = server
    \/ l.set /\ a.set
    \/ l.default /\ a.default

\* ngx_http_add_listen()
AddListen(P, l, server) ==
    LET ps == {i \in 1 .. Len(P.list) : P.list[i].port = l.port}
        p == Least(ps)
        as == {j \in 1 .. Len(P.list[p].addrs) : P.list[p].addrs[j].addr = l.addr}
        a == Least(as)
    IN CASE ps = {} ->
              [P EXCEPT !.list = Append(@, [port |-> l.port, addrs |-> <<Address(l, server)>>])]
         [] ps /= {} /\ as = {} ->
              [P EXCEPT !.list[p].addrs = Append(@, Address(l, server))]
         [] OTHER -> IF Refused(P.list[p].addrs[a], l, server) THEN [P EXCEPT !.ok = FALSE]
                     ELSE [P EXCEPT !.list[p].addrs[a] = AddServer(@, l, server)]

DefaultListen == [addr |-> Wild, port |-> 80, bind |-> FALSE, set |-> FALSE, default |-> FALSE]

\* cmp_conf_addrs(a, b) > 0, in the insertion sort of ngx_sort()
AddrAfter(a, b) ==
    \/ a.addr = Wild
    \/ a.addr /= Wild /\ b.addr /= Wild /\ ~a.bind /\ b.bind

AddrSort(addrs) ==
    LET Insert(sorted, a) ==
            LET k == CHOOSE k \in 0 .. Len(sorted) :
                         /\ k = 0 \/ ~AddrAfter(sorted[k], a)
                         /\ \A j \in k + 1 .. Len(sorted) : AddrAfter(sorted[j], a)
            IN InsertAt(sorted, k + 1, a)
    IN FoldLeft(Insert, <<>>, addrs)

\* ngx_http_init_listening(): a socket for every address, but with a wildcard address only
\* for the ones bound explicitly; the wildcard's socket has all the addresses left over
InitListening(port, addrs) ==
    LET n == Len(addrs)
        wildcard == addrs[n].addr = Wild
        Walk(W, a) ==
            LET last == Len(W.left) IN
            IF W.i >= last THEN W
            ELSE IF wildcard /\ ~W.left[W.i + 1].bind /\ W.i + 1 < last
            THEN [W EXCEPT !.i = @ + 1]
            ELSE LET whole == W.i = last - 1 IN
                 [left |-> Drop(W.left, 1), i |-> IF whole THEN W.i ELSE 0,
                  socks |-> Append(W.socks,
                               [port |-> port, addr |-> W.left[W.i + 1].addr,
                                addrs |-> IF whole THEN W.left ELSE <<W.left[1]>>])]
    IN FoldLeft(Walk, [left |-> addrs, i |-> 0, socks |-> <<>>], addrs).socks

-----------------------------------------------------------------------------
(* The configuration is read *)

NoPorts == [list |-> <<>>, ok |-> TRUE, read |-> 0]
Idle == [state |-> "none", port |-> 0, addr |-> 0, conf |-> NoNames @@ [server |-> Nobody],
         sni |-> <<>>, named |-> FALSE, ctx |-> Nobody, host |-> <<>>, server |-> Nobody]

Init == decl \in Declarations /\ ports = NoPorts /\ sockets = <<>> /\ link = Idle

\* ngx_http_core_server() with its listen directives
Server ==
    /\ ports.ok /\ ports.read < Len(decl.servers)
    /\ LET s == ports.read + 1
           ls == decl.servers[s].listens
           P == FoldLeft(LAMBDA Q, l : IF Q.ok THEN AddListen(Q, l, s) ELSE Q, ports,
                         IF ls = <<>> THEN <<DefaultListen>> ELSE ls)
       IN ports' = [P EXCEPT !.read = s]
    /\ UNCHANGED <<decl, sockets, link>>

\* ngx_http_optimize_servers()
Optimize ==
    /\ ports.ok /\ ports.read = Len(decl.servers) /\ sockets = <<>>
    /\ LET Named(a) == IF Len(a.servers) > 1 THEN [a EXCEPT !.names = ServerNamesOf(a.servers)]
                       ELSE a
           list == [p \in 1 .. Len(ports.list) |->
                       [ports.list[p] EXCEPT !.addrs = LET sorted == AddrSort(@) IN
                           [i \in 1 .. Len(sorted) |-> Named(sorted[i])]]]
       IN \E built \in {list} :
            LET ok == \A p \in 1 .. Len(built) : \A i \in 1 .. Len(built[p].addrs) :
                          built[p].addrs[i].names.ok
            IN /\ ports' = [ports EXCEPT !.ok = ok]
               /\ sockets' = IF ~ok THEN <<>>
                             ELSE FlattenSeq([p \in 1 .. Len(built) |->
                                      InitListening(built[p].port, built[p].addrs)])
    /\ UNCHANGED <<decl, link>>

-----------------------------------------------------------------------------
(* Connections and requests *)

\* The kernel prefers the socket bound to the address to the one bound to all addresses
Accepting(port, addr) ==
    LET of(a) == {i \in 1 .. Len(sockets) : sockets[i].port = port /\ sockets[i].addr = a}
    IN IF of(addr) /= {} THEN of(addr) ELSE of(Wild)

\* The part of ngx_http_init_connection() that finds the address' configuration
AddrConf(socket, addr) ==
    LET n == Len(socket.addrs)
        i == Least({k \in 1 .. n - 1 : socket.addrs[k].addr = addr} \cup {n})
    IN socket.addrs[i]

Accept ==
    /\ sockets /= <<>> /\ link.state = "none"
    /\ \E to \in decl.clients :
         IF Accepting(to.port, to.addr) = {}
         THEN link' = [Idle EXCEPT !.state = "refused", !.port = to.port, !.addr = to.addr]
         ELSE \E conf \in {AddrConf(sockets[Least(Accepting(to.port, to.addr))], to.addr)} :
              link' = [Idle EXCEPT !.state = "open", !.port = to.port, !.addr = to.addr,
                                   !.conf = [conf.names EXCEPT !.ok = TRUE]
                                              @@ [server |-> conf.server],
                                   !.ctx = conf.server]
    /\ UNCHANGED <<decl, ports, sockets>>

\* ngx_http_validate_host(): no empty labels, no port after a name or a literal in
\* brackets, no dot at the end (of a host with no other dot after it)
ValidateHost(host) ==
    LET literal == host /= <<>> /\ host[1] = 91
        cuts == {i \in 1 .. Len(host) : host[i] = IF literal THEN 93 ELSE 58}
        len == IF cuts = {} THEN Len(host) ELSE IF literal THEN Least(cuts) ELSE Least(cuts) - 1
        dot == SelectLastInSeq(host, LAMBDA c : c = Dot)
        h == SubSeq(host, 1, IF dot > 0 /\ dot = len THEN len - 1 ELSE len)
    IN [ok |-> /\ \A i \in 1 .. Len(host) - 1 : ~(host[i] = Dot /\ host[i + 1] = Dot)
               /\ \A i \in 1 .. Len(host) : host[i] \notin {0, 47}
               /\ h /= <<>>,
        host |-> [i \in 1 .. Len(h) |-> IF h[i] \in 65 .. 90 THEN h[i] + 32 ELSE h[i]]]

\* A regular expression matches the hosts that end with its text
Matches(name, host) == IsSuffix(name, host)

\* ngx_http_find_virtual_server()
FindVirtualServer(conf, host) ==
    LET Hit(hits) == IF host = <<>> \/ hits = <<>> THEN Nobody ELSE Head(hits).server
        Found(server) == IF server /= Nobody THEN server
                         ELSE Hit(SelectSeq(conf.regex, LAMBDA n : Matches(n.name, host)))
    IN Found(FindCombined(conf, host))

\* ngx_http_ssl_servername(): the name in the client's hello chooses the server
Hello ==
    /\ link.state = "open"
    /\ \E name \in decl.hellos : \E v \in {ValidateHost(name)} :
         \E s \in {IF v.ok THEN FindVirtualServer(link.conf, v.host) ELSE Nobody} :
            link' = IF s = Nobody THEN [link EXCEPT !.state = "hello"]
                    ELSE [link EXCEPT !.state = "hello", !.sni = v.host, !.named = TRUE,
                                      !.ctx = s]
    /\ UNCHANGED <<decl, ports, sockets>>

\* ngx_http_set_virtual_server(), with what find_virtual_server() found
VirtualServer(host, s) ==
    LET Of(server) == [link EXCEPT !.server = server, !.state = "served", !.host = host]
        other == IF s = Nobody THEN link.conf.server ELSE s
    IN CASE link.named /\ link.sni = host -> Of(link.ctx)
         [] link.named /\ link.sni /= host ->
              IF decl.servers[other].verify THEN [link EXCEPT !.state = "bad"] ELSE Of(other)
         [] OTHER -> Of(IF s = Nobody THEN link.ctx ELSE s)

\* ngx_http_process_host(), or no Host at all in ngx_http_process_request_header()
Request ==
    /\ link.state \in {"open", "hello"}
    /\ \E host \in decl.hosts : \E v \in {ValidateHost(host)} :
         IF host /= <<>> /\ ~v.ok THEN link' = [link EXCEPT !.state = "bad"]
         ELSE \E h \in {IF host = <<>> THEN host ELSE v.host} :
              \E s \in {FindVirtualServer(link.conf, h)} : link' = VirtualServer(h, s)
    /\ UNCHANGED <<decl, ports, sockets>>

Next == Server \/ Optimize \/ Accept \/ Hello \/ Request

Spec == Init /\ [][Next]_vars

-----------------------------------------------------------------------------
(* Properties *)

\* The servers that listen on an address, in the order of the configuration
Listening(port, addr) ==
    SelectSeq([s \in 1 .. Len(decl.servers) |-> s],
              LAMBDA s : LET ls == decl.servers[s].listens IN
                         \E l \in Range(IF ls = <<>> THEN <<DefaultListen>> ELSE ls) :
                             l.port = port /\ l.addr = addr)

DefaultOf(servers, port, addr) ==
    LET flagged == SelectSeq(servers, LAMBDA s :
                       \E l \in Range(decl.servers[s].listens) :
                           l.port = port /\ l.addr = addr /\ l.default)
    IN IF flagged = <<>> THEN Head(servers) ELSE Head(flagged)

\* What a name written in the configuration stands for
KindOf(name) == CASE name /= <<>> /\ name[1] = Star -> "star"
                  [] name /= <<>> /\ name[1] = Dot -> "dot"
                  [] name /= <<>> /\ Last(name) = Star -> "tail"
                  [] OTHER -> "exact"
BaseOf(name) == CASE KindOf(name) = "star" -> Drop(name, 2)
                  [] KindOf(name) = "dot" -> Drop(name, 1)
                  [] KindOf(name) = "tail" -> SubSeq(name, 1, Len(name) - 2)
                  [] OTHER -> name
Clash(a, b) == /\ BaseOf(a.name) = BaseOf(b.name)
               /\ \/ KindOf(a.name) = KindOf(b.name)
                  \/ "dot" \in {KindOf(a.name), KindOf(b.name)}
                     /\ "tail" \notin {KindOf(a.name), KindOf(b.name)}

\* A name that clashes with an earlier one that counts does not count
Effective(names) ==
    FoldLeft(LAMBDA S, n : IF n.regex \/ \E e \in S : Clash(e, n) THEN S ELSE S \cup {n},
             {}, names)

\* The server for a host among the effective names: the exact name, the longest wildcard at
\* the start, the longest wildcard at the end, the first matching regular expression
ByName(names, host, default) ==
    LET all == Effective(names)
        Of(kinds) == {n \in all : KindOf(n.name) \in kinds}
        exact == {n \in all : KindOf(n.name) \in {"exact", "dot"} /\ BaseOf(n.name) = host}
        heads == {n \in Of({"star", "dot"}) : IsSuffix(<<Dot>> \o BaseOf(n.name), host)}
        tails == {n \in Of({"tail"}) : IsPrefix(Append(BaseOf(n.name), Dot), host)}
        regex == SelectSeq(names, LAMBDA n : n.regex /\ Matches(n.name, host))
        Longest(S) == CHOOSE n \in S : \A k \in S : Len(BaseOf(k.name)) <= Len(BaseOf(n.name))
    IN CASE exact /= {} -> (CHOOSE n \in exact : TRUE).server
         [] exact = {} /\ heads /= {} -> Longest(heads).server
         [] exact = {} /\ heads = {} /\ tails /= {} -> Longest(tails).server
         [] exact = {} /\ heads = {} /\ tails = {} /\ host /= <<>> /\ regex /= <<>> ->
              Head(regex).server
         [] OTHER -> default

\* A name the log calls ignored takes its exact form all the same: ".a" after "*.a" has no
\* effect of its own, but makes a later "a" clash.
Reserved(names) ==
    \E i, j, k \in 1 .. Len(names) :
        /\ i < j /\ j < k
        /\ ~names[i].regex /\ ~names[j].regex /\ ~names[k].regex
        /\ BaseOf(names[i].name) = BaseOf(names[j].name)
        /\ BaseOf(names[j].name) = BaseOf(names[k].name)
        /\ KindOf(names[i].name) = "star" /\ KindOf(names[j].name) = "dot"
        /\ KindOf(names[k].name) = "exact"

\* A connection is accepted where a server listens on its address or on all addresses, and
\* its request is handled by the server the written names choose among the servers of that
\* address, whatever sockets were bound, hashes built and name negotiated before
\* (ngx_http_init_listening(), ngx_hash_wildcard_init(), ngx_http_set_virtual_server()).
ServerByRule ==
    LET mine == Listening(link.port, link.addr)
        servers == IF mine /= <<>> THEN mine ELSE Listening(link.port, Wild)
        default == DefaultOf(servers, link.port, IF mine /= <<>> THEN link.addr ELSE Wild)
    IN /\ link.state = "refused" => servers = <<>>
       /\ link.state = "served" =>
            /\ servers /= <<>>
            /\ ~Reserved(NamesOf(servers)) =>
                 link.server = ByName(NamesOf(servers), link.host, default)

=============================================================================
