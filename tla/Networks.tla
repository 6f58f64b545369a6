------------------------------ MODULE Networks ------------------------------
(***************************************************************************)
(* Addresses and networks: their texts (ngx_inet.c), the radix trees       *)
(* (ngx_radix_tree.c), the geo block with networks, ranges and its binary  *)
(* base (ngx_http_geo_module.c), the address a proxy forwards              *)
(* (ngx_http_realip_module.c) and the access rules                         *)
(* (ngx_http_access_module.c).                                             *)
(*                                                                         *)
(* An address is a tuple of 16-bit words, two for IPv4 and eight for IPv6. *)
(* What is written comes as the text that the code reads together with     *)
(* what it means; the properties compare the outcome with the meaning.     *)
(***************************************************************************)
EXTENDS Integers, Sequences, FiniteSets, SequencesExt, TLC

CONSTANTS Writings,       \* what may be written in the configuration
          Preallocated,   \* levels of a radix tree made in advance
          BaseEntries,    \* more entries than these make a binary base
          MaxTime         \* seconds that pass

VARIABLES decl,           \* what is written, and the clients' requests
          geo,            \* ngx_http_geo_conf_ctx_t and how far the block was read
          disk,           \* the included file and its binary base
          rules,          \* the access rules and the trusted proxies that were read
          link            \* the client's connection and its request

vars == <<decl, geo, disk, rules, link>>

NoAddr == <<>>
Unix == <<0>>             \* the address of a client at a unix domain socket
NoValue == "none"         \* NGX_RADIX_NO_VALUE, or no value at all
Null == "null"            \* ngx_http_variable_null_value

Max2(a, b) == IF a > b THEN a ELSE b
Greatest(S) == CHOOSE i \in S : \A j \in S : j <= i

-----------------------------------------------------------------------------
(* Texts *)

Dot == 46
Colon == 58
Slash == 47
Digit(c) == c \in 48 .. 57
Hex(c) == CASE Digit(c) -> c - 48
            [] c \in 97 .. 102 -> c - 87
            [] c \in 65 .. 70 -> c - 55
            [] OTHER -> 16

\* ngx_strlchr(): the position of a character, or 0
Position(text, c) ==
    LET at == {i \in 1 .. Len(text) : text[i] = c}
    IN IF at = {} THEN 0 ELSE CHOOSE i \in at : \A j \in at : i <= j

\* ngx_atoi(); -1 is NGX_ERROR
Atoi(text) ==
    IF text = <<>> \/ \E i \in 1 .. Len(text) : ~Digit(text[i]) THEN -1
    ELSE FoldLeft(LAMBDA n, c : IF n > 99999 THEN n ELSE n * 10 + (c - 48), 0, text)

\* ngx_inet_addr(): the address of all ones is also INADDR_NONE
InetAddr(text) ==
    LET Step(S, c) ==
            CASE ~S.ok -> S
              [] S.ok /\ Digit(c) ->
                   [S EXCEPT !.octet = IF @ > 255 THEN @ ELSE @ * 10 + (c - 48)]
              [] S.ok /\ c = Dot /\ S.octet < 256 ->
                   [S EXCEPT !.addr = Append(@, S.octet), !.octet = 0]
              [] OTHER -> [S EXCEPT !.ok = FALSE]
        Addr(o) == <<o[1] * 256 + o[2], o[3] * 256 + o[4]>>
        End(S) == IF ~S.ok \/ Len(S.addr) /= 3 \/ S.octet > 255 THEN NoAddr
                  ELSE Addr(Append(S.addr, S.octet))
        Valid(a) == IF a = <<65535, 65535>> THEN NoAddr ELSE a
    IN Valid(End(FoldLeft(Step, [ok |-> TRUE, addr |-> <<>>, octet |-> 0], text)))

\* One character of ngx_inet6_addr().  zero is the number of words before "::", digit the
\* place of the first digit after the last colon.
Inet6Step(text, S, i) ==
    LET c == text[i]
        Word == [S EXCEPT !.digit = i + 1, !.words = Append(@, S.word), !.nibbles = 0,
                          !.word = 0, !.rc = IF Len(S.words) = 7 THEN "error" ELSE "more"]
        Embed(v4) == IF v4 = NoAddr THEN [S EXCEPT !.rc = "error"]
                     ELSE [S EXCEPT !.words = Append(@, v4[1]), !.word = v4[2], !.rc = "last"]
    IN CASE S.rc /= "more" -> S
         [] S.rc = "more" /\ c = Colon /\ S.nibbles > 0 -> Word
         [] S.rc = "more" /\ c = Colon /\ S.nibbles = 0 ->
              IF S.zero >= 0 THEN [S EXCEPT !.rc = "error"]
              ELSE [S EXCEPT !.zero = Len(S.words), !.digit = i + 1]
         [] S.rc = "more" /\ c = Dot /\ S.nibbles > 0 ->
              IF Len(S.words) > 6 \/ S.digit = 0 THEN [S EXCEPT !.rc = "error"]
              ELSE Embed(InetAddr(SubSeq(text, S.digit, Len(text))))
         [] OTHER ->
              IF S.nibbles = 4 \/ Hex(c) = 16 THEN [S EXCEPT !.rc = "error"]
              ELSE [S EXCEPT !.nibbles = @ + 1, !.word = @ * 16 + Hex(c)]

\* ngx_inet6_addr()
Inet6Addr(text) ==
    LET start == [words |-> <<>>, zero |-> -1, digit |-> 0, nibbles |-> 0, word |-> 0,
                  rc |-> "more"]
        from == IF text /= <<>> /\ text[1] = Colon THEN 2 ELSE 1
        Fill(words, zero) ==
            CASE Len(words) < 8 /\ zero >= 0 ->
                   SubSeq(words, 1, zero) \o [i \in 1 .. 8 - Len(words) |-> 0]
                     \o SubSeq(words, zero + 1, Len(words))
              [] Len(words) = 8 /\ zero < 0 -> words
              [] OTHER -> NoAddr
        End(S) == IF S.rc = "error" \/ (S.nibbles = 0 /\ S.zero < 0) THEN NoAddr
                  ELSE Fill(Append(S.words, S.word), S.zero)
    IN IF text = <<>> THEN NoAddr
       ELSE End(FoldLeft(LAMBDA S, i : Inet6Step(text, S, i), start,
                         [k \in 1 .. Len(text) - from + 1 |-> k + from - 1]))

\* "%ud" and "%uxi" of a word
Numeral(n, base) ==
    LET char(d) == IF d < 10 THEN 48 + d ELSE 87 + d
        count == CASE n < base -> 1 [] n >= base /\ n < base * base -> 2
                   [] n >= base * base /\ n < base * base * base -> 3
                   [] OTHER -> IF base = 10 /\ n >= 10000 THEN 5 ELSE 4
    IN [i \in 1 .. count |-> char((n \div base ^ (count - i)) % base)]

\* ngx_inet_ntop() for AF_INET
InetNtop(a) ==
    Numeral(a[1] \div 256, 10) \o <<Dot>> \o Numeral(a[1] % 256, 10) \o <<Dot>>
      \o Numeral(a[2] \div 256, 10) \o <<Dot>> \o Numeral(a[2] % 256, 10)

\* ngx_inet6_ntop(): the first of the longest runs of two or more zero words is "::"
Inet6Ntop(a) ==
    LET run(i) == Greatest({n \in 0 .. 9 - i : \A k \in i .. i + n - 1 : a[k] = 0})
        Text(zero, max) ==
            LET v4 == /\ zero = 1
                      /\ \/ max = 5 /\ a[6] = 65535
                         \/ max = 6
                         \/ max = 7 /\ a[8] \div 256 /= 0 /\ a[8] % 256 /= 1
                Put(t, i) == CASE i = zero -> Append(t, Colon)
                               [] zero > 0 /\ i > zero /\ i < zero + max -> t
                               [] OTHER -> t \o Numeral(a[i], 16)
                                             \o (IF i < 8 THEN <<Colon>> ELSE <<>>)
            IN FoldLeft(Put, IF zero = 1 THEN <<Colon>> ELSE <<>>,
                        [i \in 1 .. IF v4 THEN 6 ELSE 8 |-> i])
                 \o (IF v4 THEN InetNtop(<<a[7], a[8]>>) ELSE <<>>)
        Longest(max) == IF max < 2 THEN Text(0, 0)
                        ELSE Text(Position([i \in 1 .. 8 |-> run(i)], max), max)
    IN Longest(Greatest({run(i) : i \in 1 .. 8}))

\* ngx_sock_ntop() without and with the port
NtopOf(a) == CASE a = Unix -> <<117, 110, 105, 120, Colon>>
               [] a /= Unix /\ Len(a) = 2 -> InetNtop(a)
               [] OTHER -> Inet6Ntop(a)
SockNtop(a, port) ==
    (IF Len(a) = 2 THEN InetNtop(a) ELSE <<91>> \o Inet6Ntop(a) \o <<93>>)
      \o <<Colon>> \o Numeral(port, 10)

\* ngx_parse_addr()
ParseAddr(text) ==
    LET Of(v4) == IF v4 /= NoAddr THEN v4 ELSE Inet6Addr(text) IN Of(InetAddr(text))

-----------------------------------------------------------------------------
(* Networks *)

\* A word of a mask whose first `ones` bits are set, and a word under such a mask
MaskWord(ones) == 65536 - 2 ^ (16 - ones)
And(word, mask) == word - (word % (65536 - mask))
Under(a, mask) == [i \in 1 .. Len(a) |-> And(a[i], mask[i])]

\* ngx_ptocidr(): [rc, addr, mask]; the family is told by the length
Ptocidr(text) ==
    LET slash == Position(text, Slash)
        Mask(len, shift) == [i \in 1 .. len |->
            MaskWord(Max2(0, IF shift - 16 * (i - 1) > 16 THEN 16 ELSE shift - 16 * (i - 1)))]
        Cidr(a, mask) == [rc |-> IF a = Under(a, mask) THEN "ok" ELSE "done",
                          addr |-> Under(a, mask), mask |-> mask]
        Of(a, shift) == CASE a = NoAddr \/ (slash > 0 /\ shift \notin 0 .. 16 * Len(a)) ->
                                [rc |-> "error", addr |-> NoAddr, mask |-> NoAddr]
                          [] slash = 0 -> Cidr(a, Mask(Len(a), 16 * Len(a)))
                          [] OTHER -> Cidr(a, Mask(Len(a), shift))
    IN Of(ParseAddr(IF slash = 0 THEN text ELSE SubSeq(text, 1, slash - 1)),
          IF slash = 0 THEN 0 ELSE Atoi(SubSeq(text, slash + 1, Len(text))))

\* IN6_IS_ADDR_V4MAPPED()
Mapped(a) == Len(a) = 8 /\ SubSeq(a, 1, 6) = <<0, 0, 0, 0, 0, 65535>>
V4(a) == IF Mapped(a) THEN <<a[7], a[8]>> ELSE a

-----------------------------------------------------------------------------
(* Radix trees: a function from the nodes, as the bits that lead to them, to their values *)

\* bit i from the left: key & bit, or key[i] & bit where the key is an array of bytes
Bit(a, i) == (a[(i - 1) \div 16 + 1] \div 2 ^ (15 - ((i - 1) % 16))) % 2
Ones(mask) == Cardinality({i \in 1 .. 16 * Len(mask) : Bit(mask, i) = 1})
\* the way from the root along the bits of a mask
Path(a, n) == [i \in 1 .. n |-> Bit(a, i)]
Children(tree, node) == {n \in {node \o <<0>>, node \o <<1>>} : n \in DOMAIN tree}

\* ngx_radix_tree_create()
TreeCreate == [node \in UNION {[1 .. n -> {0, 1}] : n \in 0 .. Preallocated} |-> NoValue]
NoTree == <<>>

\* ngx_radix32tree_insert() and ngx_radix128tree_insert(): [rc, tree]
TreeInsert(tree, a, mask, value) ==
    LET At(node) ==
            IF node \in DOMAIN tree
            THEN IF tree[node] /= NoValue THEN [rc |-> "busy", tree |-> tree]
                 ELSE [rc |-> "ok", tree |-> [tree EXCEPT ![node] = value]]
            ELSE [rc |-> "ok",
                  tree |-> [n \in {SubSeq(node, 1, k) : k \in 0 .. Len(node)} \cup DOMAIN tree |->
                               IF n = node THEN value
                               ELSE IF n \in DOMAIN tree THEN tree[n] ELSE NoValue]]
    IN At(Path(a, Ones(mask)))

\* ngx_radix32tree_delete() and ngx_radix128tree_delete(): a leaf goes, and with it the nodes
\* above it that only led there.  The root has no parent to be taken out of.
TreeDelete(tree, a, mask) ==
    LET Keeps(node, n) == \* the node above at n bits stays when what is below n + 1 goes
            \/ n = 0
            \/ tree[SubSeq(node, 1, n)] /= NoValue
            \/ Cardinality(Children(tree, SubSeq(node, 1, n))) = 2
        Prune(node) ==
            LET kept == Greatest({n \in 0 .. Len(node) - 1 : Keeps(node, n)})
                gone == {SubSeq(node, 1, k) : k \in kept + 1 .. Len(node)}
            IN [n \in DOMAIN tree \ gone |-> tree[n]]
        At(node) ==
            CASE node \notin DOMAIN tree -> [rc |-> "error", tree |-> tree]
              [] node \in DOMAIN tree /\ Children(tree, node) /= {} ->
                   [rc |-> IF tree[node] /= NoValue THEN "ok" ELSE "error",
                    tree |-> [tree EXCEPT ![node] = NoValue]]
              [] OTHER -> IF node = <<>> THEN [rc |-> "crash", tree |-> tree]
                          ELSE [rc |-> "ok", tree |-> Prune(node)]
    IN At(Path(a, Ones(mask)))

\* ngx_radix32tree_find() and ngx_radix128tree_find()
TreeFind(tree, a) ==
    LET with == {n \in DOMAIN tree : tree[n] /= NoValue /\ n = Path(a, Len(n))}
    IN IF with = {} THEN NoValue
       ELSE tree[CHOOSE n \in with : \A o \in with : Len(o) <= Len(n)]

-----------------------------------------------------------------------------
(* Ranges: for each upper half of an address an array of [start, end, value] *)

Less(a, b) == a[1] < b[1] \/ (a[1] = b[1] /\ a[2] < b[2])
Piece(s, e, v) == [start |-> s, end |-> e, value |-> v]

AddPieceUnshifted(a, s, e, v) ==
    LET from == {k \in 1 .. Len(a) : e >= a[k].start}
        i == Greatest(from)
        Put(new) == [ok |-> TRUE, a |-> SubSeq(a, 1, i - 1) \o new \o SubSeq(a, i + 1, Len(a))]
    IN CASE from = {} -> [ok |-> TRUE, a |-> Append(a, Piece(s, e, v))]
         [] from /= {} /\ s > a[i].end -> Put(<<a[i], Piece(s, e, v)>>)
         [] OTHER -> Put(<<a[i], Piece(s, e, v)>>)

\* One turn of ngx_http_geo_add_range(): the part of the range in one array.  The array is
\* searched from its end; a part below all others is added at the end.
AddPiece(a, s, e, v) ==
    LET from == {k \in 1 .. Len(a) : e >= a[k].start}
        At(i) ==
            LET old == a[i]
                Put(new) == [ok |-> TRUE,
                             a |-> SubSeq(a, 1, i - 1) \o new \o SubSeq(a, i + 1, Len(a))]
            IN CASE s > old.end -> Put(<<old, Piece(s, e, v)>>)
                 [] s <= old.end /\ (s < old.start \/ e > old.end) -> [ok |-> FALSE, a |-> a]
                 [] OTHER ->
                      Put((IF s > old.start THEN <<[old EXCEPT !.end = s - 1]>> ELSE <<>>)
                            \o <<Piece(s, e, v)>>
                            \o (IF e < old.end THEN <<[old EXCEPT !.start = e + 1]>> ELSE <<>>))
    IN IF from = {} THEN [ok |-> TRUE, a |-> Append(a, Piece(s, e, v))]
       ELSE At(Greatest(from))

\* The part of a range in the array of an upper half
Part(from, to, h) == <<IF h = from[1] THEN from[2] ELSE 0, IF h = to[1] THEN to[2] ELSE 65535>>

\* ngx_http_geo_add_range(): the count of upper halves wraps, and the loop does not end, when
\* the range reaches into the last one
AddRange(G, from, to, v) ==
    LET Turn(S, h) ==
            LET a == IF h \in DOMAIN S.low THEN S.low[h] ELSE <<>>
                With(new) == [S EXCEPT !.low = (h :> new.a) @@ @,
                                       !.state = IF new.ok THEN @ ELSE "failed"]
            IN IF S.state = "failed" THEN S
               ELSE With(AddPiece(a, Part(from, to, h)[1], Part(from, to, h)[2], v))
    IN IF to[1] = 65535 THEN [G EXCEPT !.state = "endless"]
       ELSE FoldLeft(Turn, G, [i \in 1 .. to[1] - from[1] + 1 |-> from[1] + i - 1])

\* ngx_http_geo_delete_range(): the next array is reached by a step from the range's start
DeleteRange(G, from, to) ==
    LET last == IF from[2] <= to[2] THEN to[1] ELSE to[1] - 1
        Turn(S, h) ==
            LET p == Part(from, to, h)
                hits == {k \in 1 .. Len(S.low[h]) : S.low[h][k].start = p[1] /\ S.low[h][k].end = p[2]}
            IN IF h \notin DOMAIN S.low \/ hits = {} THEN S
               ELSE [S EXCEPT !.low[h] = RemoveAt(@, CHOOSE k \in hits : \A l \in hits : k <= l)]
    IN IF to[1] = 65535 THEN [G EXCEPT !.state = "endless"]
       ELSE FoldLeft(Turn, G, [i \in 1 .. last - from[1] + 1 |-> from[1] + i - 1])

\* ngx_http_geo_range()
RangeLine(G, line) ==
    LET dash == Position(line.text, 45)
        M == [G EXCEPT !.entries = @ + 1, !.outside = TRUE]
        With(from, to) ==
            CASE dash = 0 \/ from = NoAddr \/ to = NoAddr -> [M EXCEPT !.state = "failed"]
              [] dash > 0 /\ from /= NoAddr /\ to /= NoAddr /\ Less(to, from) ->
                   [M EXCEPT !.state = "failed"]
              [] OTHER -> IF line.op = "delete" THEN DeleteRange(M, from, to)
                          ELSE AddRange(M, from, to, line.value)
    IN CASE line.op = "default" -> [G EXCEPT !.default = line.value]
         [] line.op /= "default" /\ G.binary -> [G EXCEPT !.state = "failed"]
         [] OTHER -> With(InetAddr(SubSeq(line.text, 1, dash - 1)),
                          InetAddr(SubSeq(line.text, dash + 1, Len(line.text))))

-----------------------------------------------------------------------------
(* Networks of a geo block *)

Zero(n) == [i \in 1 .. n |-> 0]

\* ngx_http_geo_cidr_value()
CidrValue(text) ==
    IF text = InetNtop(<<65535, 65535>>)
    THEN [rc |-> "ok", addr |-> <<65535, 65535>>, mask |-> <<65535, 65535>>]
    ELSE Ptocidr(text)

\* ngx_http_geo_cidr_add(): a network that is there already is taken out and put in again
CidrAdd(tree, a, mask, value) ==
    LET Again(D) == IF D.rc /= "ok" THEN [D EXCEPT !.rc = IF D.rc = "crash" THEN @ ELSE "error"]
                    ELSE TreeInsert(D.tree, a, mask, value)
        Of(I) == IF I.rc = "busy" THEN Again(TreeDelete(tree, a, mask)) ELSE I
    IN Of(TreeInsert(tree, a, mask, value))

\* ngx_http_geo_cidr()
CidrLine(G, line) ==
    LET M == IF G.tree = NoTree THEN [G EXCEPT !.tree = TreeCreate, !.tree6 = TreeCreate] ELSE G
        In(c, R) == [M EXCEPT !.tree = IF Len(c.addr) = 2 THEN R.tree ELSE @,
                              !.tree6 = IF Len(c.addr) = 8 THEN R.tree ELSE @,
                              !.state = CASE R.rc = "crash" -> "crashed"
                                          [] R.rc = "error" /\ line.op = "net" -> "failed"
                                          [] OTHER -> @]
        Tree(c) == IF Len(c.addr) = 2 THEN M.tree ELSE M.tree6
        Of(c) == CASE c.rc = "error" -> [M EXCEPT !.state = "failed"]
                   [] c.rc /= "error" /\ line.op = "delete" ->
                        In(c, TreeDelete(Tree(c), c.addr, c.mask))
                   [] OTHER -> In(c, CidrAdd(Tree(c), c.addr, c.mask, line.value))
    IN IF line.op = "default"
       THEN LET Both(A, B) == [M EXCEPT !.tree = A.tree, !.tree6 = B.tree,
                                   !.state = IF "crash" \in {A.rc, B.rc} THEN "crashed" ELSE @]
            IN Both(CidrAdd(M.tree, Zero(2), Zero(2), line.value),
                    CidrAdd(M.tree6, Zero(8), Zero(8), line.value))
       ELSE Of(CidrValue(line.text))

\* ngx_http_geo_include_binary_base(): declined when the base is older than the text
BinaryBase(G) ==
    CASE disk.base = <<>> -> "declined"
      [] disk.base /= <<>> /\ (G.outside \/ G.binary) -> "error"
      [] OTHER -> IF disk.base[1].mtime < disk.mtime THEN "declined" ELSE "ok"

\* ngx_http_geo_include()
Include(G) ==
    LET Of(rc) ==
            CASE rc = "ok" -> [G EXCEPT !.binary = TRUE, !.low = disk.base[1].low]
              [] rc = "error" -> [G EXCEPT !.state = "failed"]
              [] OTHER -> [G EXCEPT !.allow = @ /\ ~G.outside,
                                    !.todo = disk.lines \o <<[op |-> "end"]>> \o @]
    IN Of(IF G.ranges THEN BinaryBase(G) ELSE "declined")

\* ngx_http_geo_add_proxy()
AddProxy(G, c) == IF c.rc = "error" THEN [G EXCEPT !.state = "failed"]
                  ELSE [G EXCEPT !.proxies = Append(@, c)]

\* ngx_http_geo(): one line of the block or of an included file
Geo(G, line) ==
    CASE line.op = "ranges" -> IF G.tree /= NoTree THEN [G EXCEPT !.state = "failed"]
                               ELSE [G EXCEPT !.ranges = TRUE]
      [] line.op = "recursive" -> [G EXCEPT !.recursive = TRUE]
      [] line.op = "include" -> Include(G)
      [] line.op = "end" -> [G EXCEPT !.includes = @ + 1, !.outside = FALSE]
      [] line.op = "proxy" -> AddProxy(G, CidrValue(line.text))
      [] OTHER -> IF G.ranges THEN RangeLine(G, line) ELSE CidrLine(G, line)

\* When a line of an included file is bad the file still counts as included
Failing(G) ==
    LET ended == Cardinality({i \in 1 .. Len(G.todo) : G.todo[i].op = "end"})
    IN IF ended = 0 THEN G ELSE [G EXCEPT !.includes = @ + ended, !.outside = FALSE]

NoGeo == [todo |-> <<>>, ranges |-> FALSE, tree |-> NoTree, tree6 |-> NoTree, low |-> <<>>,
          default |-> NoValue, proxies |-> <<>>, recursive |-> FALSE, outside |-> FALSE,
          binary |-> FALSE, allow |-> TRUE, includes |-> 0, entries |-> 0, state |-> "reading"]

\* what is left of an array that became empty: a pointer into a pool that is destroyed
Dangling == <<Piece(-1, -1, "dangling")>>

Directive ==
    /\ geo.state = "reading" /\ geo.todo /= <<>>
    /\ geo' = LET Of(G) == IF G.state = "reading" THEN G ELSE Failing(G)
              IN Of(Geo([geo EXCEPT !.todo = SubSeq(@, 2, Len(@))], geo.todo[1]))
    /\ UNCHANGED <<decl, disk, rules, link>>

\* ngx_http_geo_create_binary_base(), for one large included file and nothing else
CreateBase(low) ==
    IF /\ geo.ranges /\ low /= <<>> /\ ~geo.binary /\ geo.allow /\ ~geo.outside
       /\ geo.entries > BaseEntries /\ geo.includes = 1
    THEN [disk EXCEPT !.base = <<[mtime |-> disk.now, low |-> low]>>]
    ELSE disk

\* The end of ngx_http_geo_block(), also after a bad line
Block ==
    /\ geo.state \in {"reading", "failed"} /\ (geo.state = "reading" => geo.todo = <<>>)
    /\ LET low == IF geo.binary THEN geo.low
                  ELSE [h \in DOMAIN geo.low |-> IF geo.low[h] = <<>> THEN Dangling ELSE geo.low[h]]
           Rooted(tree, n) == IF tree = NoTree THEN TreeInsert(TreeCreate, Zero(n), Zero(n), Null).tree
                              ELSE TreeInsert(tree, Zero(n), Zero(n), Null).tree
       IN /\ geo' = [geo EXCEPT !.state = IF @ = "reading" THEN "ok" ELSE "refused",
                                !.todo = <<>>, !.low = low,
                                !.default = IF geo.ranges /\ @ = NoValue THEN Null ELSE @,
                                !.tree = IF geo.ranges THEN @ ELSE Rooted(@, 2),
                                !.tree6 = IF geo.ranges THEN @ ELSE Rooted(@, 8)]
          /\ disk' = CreateBase(low)
    /\ UNCHANGED <<decl, rules, link>>

\* The included file is edited and the configuration read again, or time passes
Edit ==
    /\ geo.state \in {"ok", "refused"} /\ link.state = "none" /\ disk.edits /= <<>>
    /\ disk' = [disk EXCEPT !.lines = disk.edits[1], !.edits = SubSeq(@, 2, Len(@)),
                            !.mtime = disk.now,
                            !.raced = @ \/ (disk.base /= <<>> /\ disk.base[1].mtime = disk.now)]
    /\ geo' = [NoGeo EXCEPT !.todo = decl.geo]
    /\ UNCHANGED <<decl, rules, link>>
Reload ==
    /\ geo.state \in {"ok", "refused"} /\ link.state = "none" /\ disk.reloads > 0
    /\ disk' = [disk EXCEPT !.reloads = @ - 1]
    /\ geo' = [NoGeo EXCEPT !.todo = decl.geo]
    /\ UNCHANGED <<decl, rules, link>>
Tick ==
    /\ disk.now < MaxTime /\ disk.edits /= <<>>
    /\ disk' = [disk EXCEPT !.now = @ + 1]
    /\ UNCHANGED <<decl, geo, rules, link>>

-----------------------------------------------------------------------------
(* Access rules and trusted proxies *)

\* ngx_http_access_rule(): "all" is a rule of both families
AccessRule(R, rule) ==
    LET Of(c) == IF c.rc = "error" THEN [R EXCEPT !.ok = FALSE]
                 ELSE [R EXCEPT !.v4 = IF Len(c.addr) = 2 THEN Append(@, c @@ [deny |-> rule.deny]) ELSE @,
                                !.v6 = IF Len(c.addr) = 8 THEN Append(@, c @@ [deny |-> rule.deny]) ELSE @]
        any(n) == [rc |-> "ok", addr |-> Zero(n), mask |-> Zero(n), deny |-> rule.deny]
    IN IF rule.all
       THEN [R EXCEPT !.v4 = Append(@, any(2)), !.v6 = Append(@, any(8))]
       ELSE Of(Ptocidr(rule.text))

NoRules == [v4 |-> <<>>, v6 |-> <<>>, from |-> <<>>, ok |-> TRUE, read |-> FALSE]
AccessRules(list) == FoldLeft(AccessRule, NoRules, list)

\* ngx_http_realip_from()
Trusted(list) ==
    [i \in 1 .. Len(list) |-> IF list[i].unix THEN [rc |-> "ok", addr |-> Unix, mask |-> Unix]
                              ELSE Ptocidr(list[i].text)]

\* The directives of a location and of the server around it, merged by
\* ngx_http_access_merge_loc_conf() and ngx_http_realip_merge_loc_conf()
Configure ==
    /\ geo.state = "ok" /\ ~rules.read
    /\ LET Of(own, outer, from) ==
               [rules EXCEPT !.v4 = IF own.v4 = <<>> /\ own.v6 = <<>> THEN outer.v4 ELSE own.v4,
                             !.v6 = IF own.v4 = <<>> /\ own.v6 = <<>> THEN outer.v6 ELSE own.v6,
                             !.from = from, !.read = TRUE,
                             !.ok = /\ own.ok /\ outer.ok
                                    /\ \A i \in 1 .. Len(from) : from[i].rc /= "error"]
       IN rules' = Of(AccessRules(decl.own), AccessRules(decl.outer), Trusted(decl.from))
    /\ UNCHANGED <<decl, geo, disk, link>>

\* an address in a network, as get_forwarded_addr() and ngx_http_access_inet() compare them
In(a, c) == Len(a) = Len(c.addr) /\ Under(a, c.mask) = c.addr
InAny(a, list) == \E i \in 1 .. Len(list) : In(a, list[i])

Separator(c) == c \in {32, 44}

\* ngx_http_get_forwarded_addr_internal(): [rc, addr]
RECURSIVE ForwardedIn(_, _, _, _)
ForwardedIn(addr, text, proxies, recursive) ==
    LET end == Greatest({1} \cup {i \in 2 .. Len(text) : ~Separator(text[i])})
        Begin(e) == Greatest({1} \cup {i + 1 : i \in {k \in 2 .. e : Separator(text[k])}})
        Further(R, hop) == IF R.rc = "declined" THEN [rc |-> "done", addr |-> hop] ELSE R
        Hop(hop, b) ==
            CASE hop = NoAddr -> [rc |-> "declined", addr |-> addr]
              [] hop /= NoAddr /\ recursive /\ b > 1 ->
                   Further(ForwardedIn(hop, SubSeq(text, 1, b - 2), proxies, TRUE), hop)
              [] OTHER -> [rc |-> "ok", addr |-> hop]
        From(b, e) == Hop(ParseAddr(SubSeq(text, b, e)), b)
    IN IF text = <<>> \/ ~InAny(V4(addr), proxies) THEN [rc |-> "declined", addr |-> addr]
       ELSE From(Begin(end), end)

\* ngx_http_get_forwarded_addr(): the headers from the last one back
Forwarded(addr, headers, proxies, recursive) ==
    LET Turn(S, text) ==
            LET Of(R) ==
                    CASE ~recursive -> [R EXCEPT !.rc = @] @@ [more |-> FALSE, found |-> FALSE]
                      [] recursive /\ R.rc = "declined" /\ S.found ->
                           [rc |-> "done", addr |-> R.addr, more |-> FALSE, found |-> TRUE]
                      [] OTHER -> R @@ [more |-> R.rc = "ok", found |-> TRUE]
            IN IF ~S.more THEN S ELSE Of(ForwardedIn(S.addr, text, proxies, recursive))
    IN FoldLeft(Turn, [rc |-> "declined", addr |-> addr, more |-> TRUE, found |-> FALSE],
                Reverse(headers))

-----------------------------------------------------------------------------
(* Requests *)

Idle == [state |-> "none", peer |-> NoAddr, sockaddr |-> NoAddr, text |-> <<>>, saved |-> <<>>,
         ctx |-> FALSE, rq |-> <<>>, moves |-> 0, more |-> 0, access |-> "none", value |-> NoValue, url |-> <<>>]

Init ==
    /\ decl \in Writings
    /\ geo = [NoGeo EXCEPT !.todo = decl.geo]
    /\ disk = [lines |-> decl.file, edits |-> decl.edits, mtime |-> 0, base |-> <<>>, now |-> 0,
               raced |-> FALSE, reloads |-> decl.reloads]
    /\ rules = NoRules
    /\ link = Idle

\* ngx_http_realip_set_addr(): the connection keeps the address until the request's pool is
\* destroyed
SetAddr(L, F) ==
    IF F.rc = "declined" THEN L
    ELSE [L EXCEPT !.saved = <<[sockaddr |-> L.sockaddr, text |-> L.text]>> \o @,
                   !.ctx = TRUE, !.sockaddr = F.addr, !.text = NtopOf(F.addr)]

\* ngx_http_realip_handler()
Realip(L) ==
    LET rq == L.rq[1]
        headers == IF decl.header = "xfwd" THEN rq.xfwd ELSE rq.real
    IN IF L.ctx \/ rules.from = <<>> \/ headers = <<>> THEN L
       ELSE SetAddr(L, IF decl.header = "xfwd"
                       THEN Forwarded(L.sockaddr, headers, rules.from, decl.recursive)
                       ELSE ForwardedIn(L.sockaddr, headers[1], rules.from, decl.recursive))

Ready == geo.state = "ok" /\ rules.read /\ rules.ok

\* A connection is accepted, or a kept one has its next request; the first run of the handler,
\* in the post-read phase
Request ==
    /\ Ready /\ link.state \in {"none", "kept"}
    /\ \E rq \in decl.requests :
         /\ link.state = "kept" => rq.peer = link.peer /\ link.more > 0
         /\ link' = Realip([(IF link.state = "kept" THEN link
                             ELSE [Idle EXCEPT !.peer = rq.peer, !.sockaddr = rq.peer,
                                               !.text = NtopOf(rq.peer), !.moves = decl.moves, !.more = decl.more + 1])
                            EXCEPT !.state = "read", !.rq = <<rq>>, !.more = @ - 1])
    /\ UNCHANGED <<decl, geo, disk, rules>>

\* ngx_http_internal_redirect() forgets the modules' contexts; the handler runs again in the
\* preaccess phase
Redirect ==
    /\ link.state = "read" /\ link.moves > 0
    /\ link' = [Realip([link EXCEPT !.ctx = FALSE]) EXCEPT !.moves = @ - 1]
    /\ UNCHANGED <<decl, geo, disk, rules>>

\* ngx_http_access_inet() and ngx_http_access_inet6(): the first rule that matches
Decide(addr, list) ==
    LET hits == {i \in 1 .. Len(list) : In(addr, list[i])}
    IN IF hits = {} THEN "declined"
       ELSE IF list[CHOOSE i \in hits : \A j \in hits : i <= j].deny THEN "forbidden" ELSE "ok"

\* ngx_http_access_handler()
Access(a) ==
    CASE Len(a) = 2 \/ (Mapped(a) /\ rules.v4 /= <<>>) -> Decide(V4(a), rules.v4)
      [] Len(a) = 8 /\ ~(Mapped(a) /\ rules.v4 /= <<>>) -> Decide(a, rules.v6)
      [] OTHER -> "declined"

\* ngx_http_geo_addr() and ngx_http_geo_real_addr(); a block may take a variable's text
GeoAddr(L) ==
    LET start == IF decl.index = <<>> THEN L.sockaddr ELSE ParseAddr(decl.index[1])
    IN IF start = NoAddr \/ L.rq[1].xfwd = <<>> \/ geo.proxies = <<>> THEN start
       ELSE Forwarded(start, L.rq[1].xfwd, geo.proxies, geo.recursive).addr

None == <<65535, 65535>>

\* ngx_http_geo_cidr_variable()
CidrVariable(a) ==
    CASE a = NoAddr -> TreeFind(geo.tree, None)
      [] a = Unix -> "anything"
      [] Len(a) = 8 /\ ~Mapped(a) -> TreeFind(geo.tree6, a)
      [] OTHER -> TreeFind(geo.tree, V4(a))

\* ngx_http_geo_range_variable(): what a dangling array holds is anything.  A path of a unix
\* domain socket is read as an address by both.
RangeVariable(a) ==
    LET of == IF a = NoAddr \/ (Len(a) = 8 /\ ~Mapped(a)) THEN None ELSE V4(a)
        Found(list) ==
            LET hits == {i \in 1 .. Len(list) : list[i].start <= of[2] /\ of[2] <= list[i].end}
            IN CASE list = Dangling -> "anything"
                 [] list /= Dangling /\ hits = {} -> geo.default
                 [] OTHER -> list[CHOOSE i \in hits : \A j \in hits : i <= j].value
    IN CASE a = Unix -> "anything"
         [] a /= Unix /\ of[1] \notin DOMAIN geo.low -> geo.default
         [] OTHER -> Found(geo.low[of[1]])

\* The access phase, and the variable's value at the time
Judge ==
    /\ link.state = "read"
    /\ \E a \in {GeoAddr(link)} :
         link' = [link EXCEPT !.state = "judged", !.access = Access(link.sockaddr),
                              !.value = IF geo.ranges THEN RangeVariable(a) ELSE CidrVariable(a)]
    /\ UNCHANGED <<decl, geo, disk, rules>>

FreeLast ==
    /\ link.state = "judged"
    /\ LET L == [link EXCEPT !.state = "kept", !.rq = <<>>, !.ctx = FALSE, !.saved = <<>>,
                             !.access = "none", !.value = NoValue]
       IN link' = IF link.saved = <<>> THEN L
                  ELSE [L EXCEPT !.sockaddr = link.saved[1].sockaddr, !.text = link.saved[1].text]
    /\ UNCHANGED <<decl, geo, disk, rules>>

\* The request's pool is destroyed: ngx_http_realip_cleanup() for each change, the last first
Free ==
    /\ link.state = "judged"
    /\ LET first == link.saved[Len(link.saved)]
           L == [link EXCEPT !.state = "kept", !.rq = <<>>, !.ctx = FALSE, !.saved = <<>>,
                             !.access = "none", !.value = NoValue]
       IN link' = IF link.saved = <<>> THEN L
                  ELSE [L EXCEPT !.sockaddr = first.sockaddr, !.text = first.text]
    /\ UNCHANGED <<decl, geo, disk, rules>>

-----------------------------------------------------------------------------
(* The addresses of listen directives and of servers *)

NoUrl == [rc |-> "ok", host |-> <<>>, port |-> 0, uri |-> <<>>, wild |-> FALSE, addrs |-> <<>>,
          resolve |-> FALSE, unix |-> FALSE]
Bad == [NoUrl EXCEPT !.rc = "error"]
After(text, n) == SubSeq(text, n + 1, Len(text))

\* ngx_parse_unix_domain_url()
ParseUnixUrl(u) ==
    LET path == After(u.url, 5)
        colon == IF u.uri_part THEN Position(path, Colon) ELSE 0
        Of(host, uri) == IF host = <<>> \/ Len(host) + 1 > 108 THEN Bad
                         ELSE [NoUrl EXCEPT !.host = host, !.uri = uri, !.unix = TRUE]
    IN IF colon = 0 THEN Of(path, <<>>)
       ELSE Of(SubSeq(path, 1, colon - 1), After(path, colon))

ResolveHostUnordered(u, R) ==
    IF u.resolves = <<>> THEN Bad
    ELSE [R EXCEPT !.addrs = [i \in 1 .. Len(u.resolves) |-> SockNtop(u.resolves[i], R.port)]]

\* ngx_inet_resolve_host(): the IPv4 addresses first
ResolveHost(u, R) ==
    LET v4 == SelectSeq(u.resolves, LAMBDA a : Len(a) = 2)
        v6 == SelectSeq(u.resolves, LAMBDA a : Len(a) = 8)
        Of(list) == IF list = <<>> THEN Bad
                    ELSE [R EXCEPT !.addrs = [i \in 1 .. Len(list) |-> SockNtop(list[i], R.port)],
                                   !.wild = list[1] = Zero(Len(list[1]))]
    IN Of(v4 \o v6)

\* ngx_parse_inet_url()
ParseInetUrl(u) ==
    LET text == u.url
        ends == {Position(text, Slash), Position(text, 63)} \ {0}
        uri == IF ends = {} THEN 0 ELSE CHOOSE i \in ends : \A j \in ends : i <= j
        last == IF uri = 0 THEN Len(text) ELSE uri - 1
        colon == LET c == Position(text, Colon) IN IF c > last THEN 0 ELSE c
        Host(R, a) ==
            CASE R.host = <<>> -> Bad
              [] R.host /= <<>> /\ u.listen /\ R.host = <<42>> -> [R EXCEPT !.wild = TRUE]
              [] R.host /= <<>> /\ ~(u.listen /\ R.host = <<42>>) /\ a /= NoAddr ->
                   [R EXCEPT !.wild = a = Zero(2),
                             !.addrs = <<R.host \o <<Colon>> \o Numeral(R.port, 10)>>]
              [] OTHER -> IF u.no_resolve THEN R ELSE ResolveHost(u, R)
        With(host, port) ==
            IF port \notin 1 .. 65535 THEN Bad
            ELSE Host([NoUrl EXCEPT !.host = host, !.port = port,
                                    !.uri = IF uri = 0 THEN <<>> ELSE After(text, last)],
                      InetAddr(host))
        Only(n) == IF n \in 1 .. 65535 THEN [NoUrl EXCEPT !.port = n, !.wild = TRUE] ELSE Bad
    IN CASE uri > 0 /\ (u.listen \/ ~u.uri_part) -> Bad
         [] ~(uri > 0 /\ (u.listen \/ ~u.uri_part)) /\ colon > 0 ->
              With(SubSeq(text, 1, colon - 1), Atoi(SubSeq(text, colon + 1, last)))
         [] OTHER -> IF u.listen /\ uri = 0 /\ Atoi(text) >= 0 THEN Only(Atoi(text))
                     ELSE With(SubSeq(text, 1, last), u.default_port)

\* ngx_parse_inet6_url()
ParseInet6Url(u) ==
    LET text == u.url
        close == Position(text, 93)
        rest == After(text, close)
        slash == Position(rest, Slash)
        tail == IF slash = 0 THEN rest ELSE SubSeq(rest, 1, slash - 1)
        port == IF tail /= <<>> /\ tail[1] = Colon THEN Atoi(After(tail, 1)) ELSE u.default_port
        With(host, a) ==
            IF a = NoAddr THEN Bad
            ELSE [NoUrl EXCEPT !.host = host, !.port = port, !.wild = a = Zero(8),
                               !.uri = IF slash = 0 THEN <<>> ELSE After(rest, slash - 1),
                               !.addrs = <<host \o <<Colon>> \o Numeral(port, 10)>>]
    IN IF close = 0 \/ (slash > 0 /\ (u.listen \/ ~u.uri_part)) \/ port \notin 1 .. 65535 THEN Bad
       ELSE With(SubSeq(text, 1, close), Inet6Addr(SubSeq(text, 2, close - 1)))

\* ngx_parse_url()
ParseUrl ==
    /\ link = Idle
    /\ \E u \in decl.urls :
         LET R == CASE IsPrefix(<<117, 110, 105, 120, Colon>>, u.url) -> ParseUnixUrl(u)
                    [] u.url[1] = 91 -> ParseInet6Url(u)
                    [] OTHER -> ParseInetUrl(u)
         IN link' = [Idle EXCEPT !.state = "url", !.url = <<u, R>>]
    /\ UNCHANGED <<decl, geo, disk, rules>>

Next == \/ Directive \/ Block \/ Edit \/ Reload \/ Tick \/ Configure
        \/ Request \/ Redirect \/ Judge \/ Free \/ ParseUrl

Spec == Init /\ [][Next]_vars

-----------------------------------------------------------------------------
(* What is written *)

\* the networks of a block: the last value written for each, without the deleted ones
WrittenNets(lines) ==
    FoldLeft(LAMBDA nets, l : LET others == {n \in nets : n.net /= l.net} IN
                 CASE l.op = "net" -> others \cup {l}
                   [] l.op = "delete" -> others
                   [] l.op = "default" ->
                        {n \in nets : n.net.len > 0}
                          \cup {[l EXCEPT !.net = [addr |-> Zero(w), len |-> 0]] : w \in {2, 8}}
                   [] OTHER -> nets,
             {}, lines)
Holds(a, net) == Len(a) = Len(net.addr) /\ Path(a, net.len) = Path(net.addr, net.len)
Longest(lines, a) ==
    LET of == {n \in WrittenNets(lines) : Holds(a, n.net)}
    IN IF of = {} THEN Null ELSE (CHOOSE n \in of : \A o \in of : o.net.len <= n.net.len).value

\* the ranges of a block: the last one written that holds the address, unless it was deleted
Covers(l, a) == l.op \in {"net", "delete"} /\ ~Less(a, l.from) /\ ~Less(l.to, a)
LastRange(lines, a) ==
    LET of == {i \in 1 .. Len(lines) : Covers(lines[i], a)}
    IN IF of = {} \/ lines[Greatest(of)].op = "delete" THEN NoValue ELSE lines[Greatest(of)].value
DefaultOf(lines) ==
    LET of == {i \in 1 .. Len(lines) : lines[i].op = "default"}
    IN IF of = {} THEN Null ELSE lines[Greatest(of)].value

\* A deletion names a range that was written, has not been split and lies in one upper half; a
\* new range is not below all others of its upper half
Overlap(l, m) == ~Less(l.to, m.from) /\ ~Less(m.to, l.from)
InOrder(lines) ==
    LET ranges == {i \in 1 .. Len(lines) : lines[i].op \in {"net", "delete"}}
        same(i, j) == lines[i].from = lines[j].from /\ lines[i].to = lines[j].to
        deletes(i) == lines[i].op = "delete"
    IN \A i \in ranges :
         LET before == {j \in ranges : j < i /\ ~deletes(j)} IN
         /\ deletes(i) =>
              /\ lines[i].from[1] = lines[i].to[1]
              /\ \E j \in before : same(i, j) /\ \A k \in before :
                    k > j => same(i, k) \/ ~Overlap(lines[i], lines[k])
              /\ \E j \in before : ~same(i, j) /\ lines[j].from[1] = lines[i].from[1]
         /\ ~deletes(i) => \/ \A j \in before : lines[j].to[1] < lines[i].from[1]
                           \/ \E j \in before : ~Less(lines[i].from, lines[j].from)

\* The lines with the included file's lines in their place
Expanded(lines) ==
    FlattenSeq([i \in 1 .. Len(lines) |-> IF lines[i].op = "include" THEN disk.lines ELSE <<lines[i]>>])

\* the address that the trusted proxies vouch for: hops from the last, up to one that is not
\* trusted or not an address
Hops(rq) == FlattenSeq(rq.hops)
TrustedBy(a, list) == \E i \in 1 .. Len(list) :
                         IF list[i].unix THEN a = Unix ELSE Holds(V4(a), list[i].net)
Vouched(peer, hops, list, recursive) ==
    LET n == Len(hops)
        good(i) == \A k \in i .. n : hops[k] /= NoAddr
        passed(i) == \A k \in i + 1 .. n : TrustedBy(hops[k], list)
        ends == {i \in 1 .. n : good(i) /\ passed(i)}
    IN CASE n = 0 \/ ~TrustedBy(peer, list) \/ hops[n] = NoAddr -> peer
         [] ~recursive /\ n > 0 /\ TrustedBy(peer, list) /\ hops[n] /= NoAddr -> hops[n]
         [] OTHER -> hops[CHOOSE i \in ends : \A j \in ends : i <= j]

RealAddr(rq) ==
    Vouched(rq.peer, IF decl.header = "xfwd" THEN Hops(rq) ELSE rq.realhops, decl.from,
            decl.recursive)

\* the address a block looks up: the variable's, or the one its own proxies vouch for
Judged(lines, rq) ==
    LET proxies == SelectSeq(lines, LAMBDA l : l.op = "proxy")
        list == [i \in 1 .. Len(proxies) |-> [unix |-> FALSE, net |-> proxies[i].net]]
    IN IF decl.index /= <<>> THEN decl.subject
       ELSE Vouched(link.sockaddr, Hops(rq), list, \E i \in 1 .. Len(lines) : lines[i].op = "recursive")

\* A geo block gives an address the value written for it: that of the longest network, or of
\* the last range, that holds it, whether the ranges come from the block, from the included
\* file or from its binary base (ngx_radix32tree_insert() and _delete(),
\* ngx_http_geo_add_range(), ngx_http_geo_include_binary_base()). Not judged: ranges that are
\* not in order, where the code may shadow a nested range or keep a deleted one (InOrder); a
\* base that is as old as an edit of its file in the same second (raced); blocks with lines
\* that are refused or that a base loses (not plain); and clients of a unix socket, whose
\* path is read as an address.
GeoByRule ==
    (link.state = "judged" /\ link.rq[1].peer /= Unix /\ ~disk.raced /\ decl.plain) =>
      \E lines \in {Expanded(decl.geo)} : \E a \in {Judged(lines, link.rq[1])} :
         IF geo.ranges
         THEN LET of == IF a = NoAddr \/ (Len(a) = 8 /\ ~Mapped(a)) THEN None ELSE V4(a)
                  last == LastRange(lines, of)
              IN InOrder(lines) => link.value = IF last = NoValue THEN DefaultOf(lines) ELSE last
         ELSE link.value = Longest(lines, IF a = NoAddr THEN None ELSE V4(a))

\* The access rules judge the address that the trusted proxies vouch for, also after internal
\* redirections, and a kept connection's next request starts from the client's own address
\* (ngx_http_realip_handler(), ngx_http_realip_cleanup(), ngx_http_access_handler()).
ClientJudged ==
    /\ link.state \in {"none", "kept"} => link.sockaddr = link.peer
    /\ link.state \in {"read", "judged"} =>
         /\ link.sockaddr = RealAddr(link.rq[1])
         /\ link.sockaddr /= Unix => ParseAddr(link.text) = link.sockaddr
    /\ link.state = "judged" =>
         LET list == IF decl.own = <<>> THEN decl.outer ELSE decl.own
             a == link.sockaddr
             v4 == \E i \in 1 .. Len(list) : list[i].all \/ Len(list[i].net.addr) = 2
             b == IF v4 THEN V4(a) ELSE a
             hits == {i \in 1 .. Len(list) : list[i].all \/ Holds(b, list[i].net)}
         IN link.access = IF a = Unix \/ hits = {} THEN "declined"
                          ELSE IF list[CHOOSE i \in hits : \A j \in hits : i <= j].deny
                               THEN "forbidden" ELSE "ok"

\* The parts of a URL are found where they were written, and the texts made of its addresses
\* name these addresses (ngx_parse_url(), ngx_sock_ntop()).
UrlAsWritten ==
    link.state = "url" =>
      LET u == link.url[1]
          R == link.url[2]
      IN /\ R.rc = u.parts.rc
         /\ R.rc = "ok" => /\ R.host = u.parts.host /\ R.port = u.parts.port
                           /\ R.uri = u.parts.uri /\ R.wild = u.parts.wild
                           /\ R.addrs = u.parts.addrs
=============================================================================
