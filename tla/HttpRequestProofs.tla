-------------------------- MODULE HttpRequestProofs --------------------------
(***************************************************************************)
(* Proofs about HttpRequest, for any number of connections, any methods,    *)
(* sizes and faults, with limited output or without.                        *)
(*                                                                         *)
(* What a client has got and what still waits to be sent make one stream:   *)
(* ngx_http_write_filter moves the border between the two and appends.      *)
(* The handlers and the error pages put one header and one body into it     *)
(* before they hand the request to ngx_http_finalize_request, which ends    *)
(* the request only when nothing waits.                                     *)
(***************************************************************************)
EXTENDS HttpRequest, SequenceTheorems, TLAPS

\* A header is shorter than postpone_output, which is 2 or more in the units of the model,
\* and a connection may serve at least one request.
Settings ==
    /\ Postpone \in Nat /\ Postpone >= 2
    /\ Sizes \subseteq Nat /\ ErrSizes \subseteq Nat /\ PageSize \in Nat
    /\ MaxRequests \in Nat /\ MaxRequests >= 1

Alphabet == {"h", "e", "b"}
ConnState ==
    [phase : Phases, rtimer : BOOLEAN, wtimer : BOOLEAN, delayed : BOOLEAN, ready : BOOLEAN,
     error : BOOLEAN, eof : BOOLEAN, buffered : BOOLEAN, out : Seq(Alphabet), last : BOOLEAN,
     requests : Nat, method : Methods \cup {"GET"}, version : {"1.x", "0.9"},
     keepalive : BOOLEAN, headerSent : BOOLEAN, headerOnly : BOOLEAN, length : Nat,
     wire : Seq(Alphabet), zero : BOOLEAN]

\* What the client has got, and what waits.
Stream(c) == c.wire \o c.out

\* What the output path leaves alone.
Kept(c, d) ==
    /\ d.phase = c.phase /\ d.rtimer = c.rtimer /\ d.eof = c.eof /\ d.requests = c.requests
    /\ d.method = c.method /\ d.version = c.version /\ d.keepalive = c.keepalive
    /\ d.headerSent = c.headerSent /\ d.headerOnly = c.headerOnly /\ d.length = c.length
    /\ ((c.delayed => c.wtimer) => (d.delayed => d.wtimer))

\* An answer of the write filter to a chain that is not postponed.
Written(c, bytes, d, code) ==
    /\ d \in ConnState /\ Kept(c, d) /\ code \in {"OK", "AGAIN", "ERROR"}
    /\ code # "ERROR" => /\ Stream(d) = Stream(c) \o bytes
                         /\ ~d.buffered => d.out = <<>>
                         /\ code = "OK" => ~d.buffered

-----------------------------------------------------------------------------
(* The output path *)

\* Sending a part moves the border in the stream.
LEMMA PartSent ==
    ASSUME NEW w \in Seq(Alphabet), NEW o \in Seq(Alphabet), NEW n \in 0..Len(o)
    PROVE  /\ w \o SubSeq(o, 1, n) \in Seq(Alphabet)
           /\ SubSeq(o, n + 1, Len(o)) \in Seq(Alphabet)
           /\ (w \o SubSeq(o, 1, n)) \o SubSeq(o, n + 1, Len(o)) = w \o o
           /\ n = Len(o) => SubSeq(o, n + 1, Len(o)) = <<>>
<1> DEFINE a == SubSeq(o, 1, n)
           b == SubSeq(o, n + 1, Len(o))
<1>1. Len(o) \in Nat /\ n \in Nat /\ n <= Len(o) /\ 1 \in Int /\ n + 1 \in Int /\ Len(o) \in Int
    BY LenProperties
<1>2. \A i \in 1..Len(o) : o[i] \in Alphabet BY ElementOfSeq
<1>3. a \in Seq(Alphabet)
    <2>1. \A i \in 1..n : o[i] \in Alphabet BY <1>1, <1>2
    <2> QED BY <1>1, <2>1, SubSeqProperties
<1>4. b \in Seq(Alphabet)
    <2>1. \A i \in n + 1..Len(o) : o[i] \in Alphabet BY <1>1, <1>2
    <2> QED BY <1>1, <2>1, SubSeqProperties
<1>5. a \o b = o
    <2>1. SubSeq(o, 1, n) \o SubSeq(o, n + 1, Len(o)) = SubSeq(o, 1, Len(o))
        <3>1. 1 \in 1..Len(o) + 1 /\ n \in 1 - 1..Len(o) /\ Len(o) \in n..Len(o) BY <1>1
        <3> QED BY Zenon, <1>1, <3>1, ConcatAdjacentSubSeq
    <2> QED BY Zenon, <2>1, SubSeqFull
<1>6. n = Len(o) => b = <<>> BY <1>1, SubSeqEmpty
<1> HIDE DEF a, b
<1>7. w \o a \in Seq(Alphabet) BY <1>3, ConcatProperties
<1>8. (w \o a) \o b = w \o (a \o b) BY SMTT(30), <1>3, <1>4, ConcatAssociative
<1> QED BY Zenon, <1>4, <1>5, <1>6, <1>7, <1>8 DEF a, b

LEMMA SentWrites ==
    ASSUME NEW c \in ConnState, NEW n \in 0..Len(c.out)
    PROVE  Written(c, <<>>, Sent(c, n), SentCode(c, n))
<1> DEFINE o == c.out
           w == c.wire
           a == w \o SubSeq(o, 1, n)
           b == SubSeq(o, n + 1, Len(o))
           x == n < Len(o)
           y == c.last /\ n < Len(o)
           z == c.ready /\ n = Len(o)
           d == Sent(c, n)
<1>0. o \in Seq(Alphabet) /\ w \in Seq(Alphabet) /\ Len(o) \in Nat /\ Stream(c) = w \o o
    BY LenProperties DEF ConnState, Stream
<1>1. Stream(c) \o <<>> = Stream(c)
    <2>1. Stream(c) \in Seq(Alphabet) BY <1>0, ConcatProperties
    <2> QED BY <2>1, ConcatEmptySeq
<1>2. d = [c EXCEPT !.wire = a, !.out = b, !.last = y, !.buffered = x, !.ready = z]
    BY DEF Sent
<1>3. x \in BOOLEAN /\ y \in BOOLEAN /\ z \in BOOLEAN /\ (~x => n = Len(o)) BY <1>0
<1>4. SentCode(c, n) = IF x THEN "AGAIN" ELSE "OK" BY DEF SentCode
<1>5. n \in 0..Len(o) OBVIOUS
<1> HIDE DEF o, w
<1>6. /\ a \in Seq(Alphabet) /\ b \in Seq(Alphabet) /\ a \o b = w \o o
      /\ n = Len(o) => b = <<>>
    BY Zenon, <1>0, <1>5, PartSent
<1> HIDE DEF a, b, x, y, z, d
<1>7. d \in ConnState
    <2>1. [c EXCEPT !.wire = a, !.out = b, !.last = y, !.buffered = x, !.ready = z] \in ConnState
        BY Zenon, <1>3, <1>6 DEF ConnState
    <2> QED BY <1>2, <2>1
<1>8. d.wire = a /\ d.out = b /\ d.buffered = x BY <1>2 DEF ConnState
<1>9. Kept(c, d) BY <1>2 DEF ConnState, Kept
<1>10. Stream(d) = Stream(c) \o <<>> BY Zenon, <1>0, <1>1, <1>6, <1>8 DEF Stream
<1> QED BY <1>3, <1>4, <1>6, <1>7, <1>8, <1>9, <1>10 DEF Written, d

LEMMA PutOffWrites ==
    ASSUME NEW c \in ConnState, NEW d, NEW code, Written(c, <<>>, d, code), NEW ready \in BOOLEAN
    PROVE  Written(c, <<>>, PutOff(d, ready), code)
<1>1. d \in ConnState BY DEF Written
<1> DEFINE e == PutOff(d, ready)
<1>2. e \in ConnState BY Zenon, <1>1 DEF PutOff, ConnState
<1>3. /\ e.wire = d.wire /\ e.out = d.out /\ e.buffered = d.buffered /\ e.wtimer = TRUE
      /\ e.phase = d.phase /\ e.rtimer = d.rtimer /\ e.eof = d.eof
      /\ e.requests = d.requests /\ e.method = d.method /\ e.version = d.version
      /\ e.keepalive = d.keepalive /\ e.headerSent = d.headerSent
      /\ e.headerOnly = d.headerOnly /\ e.length = d.length
    BY <1>1 DEF PutOff, ConnState
<1> HIDE DEF e
<1>4. Kept(c, e) BY <1>3 DEF Written, Kept
<1>5. Stream(e) = Stream(d) BY <1>3 DEF Stream
<1> QED BY <1>2, <1>3, <1>4, <1>5 DEF Written, e

\* c->send_chain and what ngx_http_write_filter does with its result.
LEMMA SendChainWrites ==
    ASSUME NEW c \in ConnState, NEW least \in Nat, NEW r \in SendChain(c, least)
    PROVE  Written(c, <<>>, r[1], r[2])
<1>0. Len(c.out) \in Nat BY LenProperties DEF ConnState
<1>1. \/ \E n \in least .. Len(c.out) : r = <<Sent(c, n), SentCode(c, n)>>
      \/ r = <<PutOff(Sent(c, 0), c.ready), SentCode(c, 0)>>
      \/ \E n \in 1 .. Len(c.out), ready \in BOOLEAN :
            r = <<PutOff(Sent(c, n), ready), SentCode(c, n)>>
      \/ r = <<[c EXCEPT !.error = TRUE], "ERROR">>
    BY DEF SendChain
<1>2. CASE \E n \in least .. Len(c.out) : r = <<Sent(c, n), SentCode(c, n)>>
    <2>1. PICK n \in least .. Len(c.out) : r = <<Sent(c, n), SentCode(c, n)>> BY <1>2
    <2>2. n \in 0..Len(c.out) BY <1>0
    <2> QED BY <2>1, <2>2, SentWrites
<1>3. CASE \E n \in 1 .. Len(c.out), ready \in BOOLEAN :
              r = <<PutOff(Sent(c, n), ready), SentCode(c, n)>>
    <2>1. PICK n \in 1 .. Len(c.out), ready \in BOOLEAN :
              r = <<PutOff(Sent(c, n), ready), SentCode(c, n)>>
        BY <1>3
    <2>2. n \in 0..Len(c.out) BY <1>0
    <2>3. Written(c, <<>>, PutOff(Sent(c, n), ready), SentCode(c, n))
        BY <2>2, SentWrites, PutOffWrites
    <2> QED BY <2>1, <2>3
<1>4. CASE r = <<[c EXCEPT !.error = TRUE], "ERROR">>
    <2>1. [c EXCEPT !.error = TRUE] \in ConnState BY Zenon DEF ConnState
    <2>2. Kept(c, [c EXCEPT !.error = TRUE]) BY DEF ConnState, Kept
    <2> QED BY <1>4, <2>1, <2>2 DEF Written
<1>5. CASE r = <<PutOff(Sent(c, 0), c.ready), SentCode(c, 0)>>
    <2>1. 0 \in 0..Len(c.out) /\ c.ready \in BOOLEAN BY <1>0 DEF ConnState
    <2>2. Written(c, <<>>, PutOff(Sent(c, 0), c.ready), SentCode(c, 0))
        BY <2>1, SentWrites, PutOffWrites
    <2> QED BY <1>5, <2>2
<1> QED BY <1>1, <1>2, <1>3, <1>4, <1>5

LEMMA BufFacts ==
    ASSUME NEW bytes, NEW last
    PROVE  Buf(bytes, last) # <<>> /\ Buf(bytes, last)[1].bytes = bytes /\ Buf(bytes, last)[1].last = last
BY DEF Buf

\* A chain is added to the saved one: the stream grows at its end.
Grown(c, bytes, last) == [c EXCEPT !.out = Chained(c.out, bytes), !.last = last]

LEMMA Extended ==
    ASSUME NEW c \in ConnState, NEW bytes \in Seq(Alphabet), NEW last \in BOOLEAN, NEW d,
           d = Grown(c, bytes, last)
    PROVE  /\ d \in ConnState /\ Kept(c, d) /\ Stream(d) = Stream(c) \o bytes
           /\ d.out = c.out \o bytes /\ d.buffered = c.buffered /\ d.error = c.error
           /\ d.delayed = c.delayed /\ d.wtimer = c.wtimer /\ d.last = last
<1> DEFINE o == c.out \o bytes
<1>0. c.out \in Seq(Alphabet) /\ c.wire \in Seq(Alphabet) BY DEF ConnState
<1>1. o \in Seq(Alphabet) BY <1>0, ConcatProperties
<1>2. d = [c EXCEPT !.out = o, !.last = last] BY DEF Grown, Chained
<1>3. (c.wire \o c.out) \o bytes = c.wire \o (c.out \o bytes) 
    <2>1. \A p, q \in Seq(Alphabet) : (p \o q) \o bytes = p \o (q \o bytes) BY ConcatAssociative
    <2> QED BY Zenon, <1>0, <2>1
<1>4. d.out = o /\ d.wire = c.wire BY <1>2 DEF ConnState
<1>5. Stream(d) = Stream(c) \o bytes BY <1>3, <1>4 DEF Stream
<1> HIDE DEF o
<1>6. d \in ConnState
    <2>1. [c EXCEPT !.out = o, !.last = last] \in ConnState BY Zenon, <1>1 DEF ConnState
    <2> QED BY <1>2, <2>1
<1>7. Kept(c, d) BY <1>2 DEF ConnState, Kept
<1>8. /\ d.buffered = c.buffered /\ d.error = c.error
      /\ d.delayed = c.delayed /\ d.wtimer = c.wtimer /\ d.last = last
    BY <1>2 DEF ConnState
<1> QED BY <1>4, <1>5, <1>6, <1>7, <1>8 DEF o

LEMMA WrittenAfter ==
    ASSUME NEW c \in ConnState, NEW bytes \in Seq(Alphabet), NEW d \in ConnState, Kept(c, d),
           Stream(d) = Stream(c) \o bytes, NEW e, NEW code, Written(d, <<>>, e, code)
    PROVE  Written(c, bytes, e, code)
<1>1. d.wire \in Seq(Alphabet) /\ d.out \in Seq(Alphabet) BY DEF ConnState
<1>2. Stream(d) \in Seq(Alphabet) BY Zenon, <1>1, ConcatProperties DEF Stream
<1>3. Stream(d) \o <<>> = Stream(d) BY <1>2, ConcatEmptySeq
<1>4. Kept(c, e) BY DEF Kept, Written
<1> QED BY <1>3, <1>4 DEF Written

\* ngx_http_write_filter.
LEMMA FilterCases ==
    ASSUME NEW c \in ConnState, NEW bytes \in Seq(Alphabet), NEW last \in BOOLEAN, NEW in,
           \/ in = <<>> /\ bytes = <<>> /\ last = FALSE
           \/ in = Buf(bytes, last),
           NEW least \in Nat, NEW r \in WriteFilter(c, in, least), NEW d,
           d = Grown(c, bytes, c.last \/ last)
    PROVE  \/ c.error /\ r = <<c, "ERROR">>
           \/ bytes = <<>> /\ r = <<[d EXCEPT !.zero = TRUE], "ERROR">>
           \/ ~(c.last \/ last) /\ in # <<>> /\ Len(d.out) < Postpone /\ r = <<d, "OK">>
           \/ r = <<[d EXCEPT !.buffered = TRUE], "AGAIN">>
           \/ /\ d.out = <<>>
              /\ r = <<[d EXCEPT !.buffered = FALSE], IF c.last \/ last THEN "OK" ELSE "ERROR">>
           \/ r \in SendChain(d, least)
<1> DEFINE add == IF in = <<>> THEN <<>> ELSE in[1].bytes
           l == c.last \/ (in # <<>> /\ in[1].last)
           f == [c EXCEPT !.out = Chained(@, add), !.last = l]
<1>1. add = bytes /\ l = (c.last \/ last)
    <2>1. CASE in = <<>> /\ bytes = <<>> /\ last = FALSE BY <2>1 DEF ConnState
    <2>2. CASE in = Buf(bytes, last) BY <2>2, BufFacts DEF ConnState
    <2> QED BY <2>1, <2>2
<1>2. f = d BY Zenon, <1>1 DEF Grown
<1>3. WriteFilter(c, in, least) =
        IF c.error THEN {<<c, "ERROR">>}
        ELSE IF in # <<>> /\ add = <<>> THEN {<<[f EXCEPT !.zero = TRUE], "ERROR">>}
        ELSE IF ~l /\ in # <<>> /\ Len(f.out) < Postpone THEN {<<f, "OK">>}
        ELSE IF c.delayed THEN {<<[f EXCEPT !.buffered = TRUE], "AGAIN">>}
        ELSE IF f.out = <<>>
             THEN {<<[f EXCEPT !.buffered = FALSE], IF l THEN "OK" ELSE "ERROR">>}
        ELSE SendChain(f, least)
    BY DEF WriteFilter
<1> HIDE DEF add, l, f
<1> QED BY Zenon, <1>1, <1>2, <1>3

LEMMA FilterWrites ==
    ASSUME NEW c \in ConnState, NEW bytes \in Seq(Alphabet), NEW in,
           \/ in = <<>> /\ bytes = <<>>
           \/ in = Buf(bytes, TRUE),
           NEW least \in Nat, NEW r \in WriteFilter(c, in, least)
    PROVE  Written(c, bytes, r[1], r[2])
<1>1. PICK last \in BOOLEAN :
          \/ in = <<>> /\ bytes = <<>> /\ last = FALSE
          \/ in = Buf(bytes, last) /\ last = TRUE
    BY Zenon
<1> DEFINE l == c.last \/ last
           d == Grown(c, bytes, l)
<1>2. l \in BOOLEAN BY DEF ConnState
<1> HIDE DEF l
<1>3. d \in ConnState /\ Kept(c, d) /\ Stream(d) = Stream(c) \o bytes
    BY <1>2, Extended
<1>4. \/ c.error /\ r = <<c, "ERROR">>
      \/ bytes = <<>> /\ r = <<[d EXCEPT !.zero = TRUE], "ERROR">>
      \/ ~(c.last \/ last) /\ in # <<>> /\ Len(d.out) < Postpone /\ r = <<d, "OK">>
      \/ r = <<[d EXCEPT !.buffered = TRUE], "AGAIN">>
      \/ /\ d.out = <<>>
         /\ r = <<[d EXCEPT !.buffered = FALSE], IF c.last \/ last THEN "OK" ELSE "ERROR">>
      \/ r \in SendChain(d, least)
    BY Zenon, <1>1, FilterCases DEF l
<1> HIDE DEF d
<1>5. CASE c.error /\ r = <<c, "ERROR">>
    BY <1>5 DEF Written, Kept
<1>6. CASE r = <<[d EXCEPT !.zero = TRUE], "ERROR">>
    <2>1. [d EXCEPT !.zero = TRUE] \in ConnState /\ Kept(d, [d EXCEPT !.zero = TRUE])
        BY Zenon, <1>3 DEF ConnState, Kept
    <2>2. Written(d, <<>>, [d EXCEPT !.zero = TRUE], "ERROR") BY <2>1 DEF Written
    <2> QED BY Zenon, <1>3, <1>6, <2>2, WrittenAfter
<1>7. ~(~(c.last \/ last) /\ in # <<>>) BY <1>1
<1>8. CASE r = <<[d EXCEPT !.buffered = TRUE], "AGAIN">>
    <2> DEFINE e == [d EXCEPT !.buffered = TRUE]
    <2>1. e \in ConnState /\ Kept(d, e) /\ e.buffered = TRUE /\ e.out = d.out /\ e.wire = d.wire
        BY Zenon, <1>3 DEF ConnState, Kept
    <2> HIDE DEF e
    <2>2. Kept(c, e) BY <1>3, <2>1 DEF Kept
    <2>3. Stream(e) = Stream(c) \o bytes BY Zenon, <1>3, <2>1 DEF Stream
    <2>4. Written(c, bytes, e, "AGAIN") BY <2>1, <2>2, <2>3 DEF Written
    <2> QED BY <1>8, <2>4 DEF e
<1>9. CASE d.out = <<>> /\ r = <<[d EXCEPT !.buffered = FALSE],
                                 IF c.last \/ last THEN "OK" ELSE "ERROR">>
    <2> DEFINE e == [d EXCEPT !.buffered = FALSE]
               code == IF c.last \/ last THEN "OK" ELSE "ERROR"
    <2>1. e \in ConnState /\ Kept(d, e) /\ e.buffered = FALSE /\ e.out = d.out /\ e.wire = d.wire
        BY Zenon, <1>3 DEF ConnState, Kept
    <2>2. code \in {"OK", "ERROR"} /\ r[1] = e /\ r[2] = code BY <1>9
    <2> HIDE DEF e, code
    <2>3. Kept(c, e) BY <1>3, <2>1 DEF Kept
    <2>4. Stream(e) = Stream(c) \o bytes BY Zenon, <1>3, <2>1 DEF Stream
    <2>5. Written(c, bytes, e, code) BY <1>9, <2>1, <2>2, <2>3, <2>4 DEF Written
    <2> QED BY <2>2, <2>5
<1>10. CASE r \in SendChain(d, least)
    <2>1. Written(d, <<>>, r[1], r[2]) BY <1>3, <1>10, SendChainWrites
    <2> QED BY <1>3, <2>1, WrittenAfter
<1> QED BY <1>4, <1>5, <1>6, <1>7, <1>8, <1>9, <1>10

-----------------------------------------------------------------------------
(* One header and one body *)

Header(v) == IF v = "0.9" THEN <<>> ELSE <<"h">>

\* The header is the first byte of the stream, and only that.
HeaderFirst(s, v) == \A i \in 1..Len(s) : (s[i] = "h") <=> (i = 1 /\ v # "0.9")

\* The stream has as many bytes of body as Content-Length says.
Whole(c) == c.method # "HEAD" => Len(Stream(c)) = c.length + (IF c.version = "0.9" THEN 0 ELSE 1)

\* A request in the hands of its content handler.
Serving(c) ==
    /\ c \in ConnState /\ ~c.rtimer
    /\ c.requests \in 1..MaxRequests /\ (c.keepalive => c.requests < MaxRequests)

\* Nothing of its response is on the way.
Unsent(c) ==
    /\ c.wire = <<>> /\ c.out = <<>> /\ ~c.last /\ ~c.error /\ ~c.buffered
    /\ ~c.delayed /\ ~c.wtimer /\ ~c.headerSent /\ ~c.headerOnly
    /\ c.method = "HEAD" => c.version # "0.9"

\* The header has gone out ahead of the page, for HEAD.
HeadSent(c) ==
    /\ c.method = "HEAD" /\ c.version # "0.9" /\ c.headerSent /\ c.headerOnly
    /\ Stream(c) = Header(c.version) /\ ~c.buffered

\* The whole response is on the way, and what waits is waited for.
Answered(c) ==
    /\ Serving(c) /\ HeaderFirst(Stream(c), c.version) /\ Whole(c)
    /\ ~c.buffered /\ c.method # "HEAD" => c.out = <<>>
    /\ \/ c.delayed => c.wtimer
       \/ ~c.buffered /\ ~c.keepalive

Outcome(d, code) ==
    /\ d \in ConnState /\ code \in {"OK", "AGAIN", "ERROR"}
    /\ code # "ERROR" => Answered(d)

LEMMA HeaderAndBody ==
    ASSUME NEW v, NEW text \in Seq({"e", "b"})
    PROVE  /\ HeaderFirst(Header(v) \o text, v)
           /\ Len(Header(v) \o text) = Len(text) + (IF v = "0.9" THEN 0 ELSE 1)
           /\ text \in Seq(Alphabet) /\ Header(v) \in Seq(Alphabet)
<1>1. Len(text) \in Nat /\ \A i \in 1..Len(text) : text[i] \in {"e", "b"}
    BY LenProperties, ElementOfSeq
<1>2. text \in Seq(Alphabet) BY DEF Alphabet
<1>3. CASE v = "0.9"
    <2>1. Header(v) = <<>> BY <1>3 DEF Header
    <2>2. <<>> \o text = text BY <1>2, ConcatEmptySeq
    <2>3. \A i \in 1..Len(text) : text[i] # "h" BY <1>1
    <2>4. HeaderFirst(text, v) BY <1>3, <2>3 DEF HeaderFirst
    <2>5. Len(text) = Len(text) + 0 BY <1>1
    <2>6. <<>> \in Seq(Alphabet) OBVIOUS
    <2> QED BY Zenon, <1>2, <1>3, <2>1, <2>2, <2>4, <2>5, <2>6
<1>4. CASE v # "0.9"
    <2> DEFINE h == <<"h">>
               s == h \o text
    <2>1. Header(v) = h BY <1>4 DEF Header
    <2>2. h \in Seq(Alphabet) /\ Len(h) = 1 /\ h[1] = "h" BY DEF Alphabet
    <2> HIDE DEF h
    <2>3. /\ Len(s) = 1 + Len(text)
          /\ \A i \in 1..Len(h) + Len(text) :
                s[i] = IF i <= Len(h) THEN h[i] ELSE text[i - Len(h)]
        <3>1. /\ Len(h \o text) = Len(h) + Len(text)
              /\ \A i \in 1..Len(h) + Len(text) :
                    (h \o text)[i] = IF i <= Len(h) THEN h[i] ELSE text[i - Len(h)]
            BY Zenon, <1>2, <2>2, ConcatProperties
        <3> QED BY <2>2, <3>1
    <2> HIDE DEF s
    <2>4. ASSUME NEW i \in 1..Len(s) PROVE (s[i] = "h") <=> (i = 1)
        <3>1. CASE i = 1 BY <1>1, <2>2, <2>3, <3>1
        <3>2. CASE i # 1
            <4>1. i - 1 \in 1..Len(text) /\ s[i] = text[i - 1] BY <1>1, <2>2, <2>3, <3>2
            <4> QED BY <1>1, <3>2, <4>1
        <3> QED BY <3>1, <3>2
    <2>5. HeaderFirst(s, v) BY <1>4, <2>4 DEF HeaderFirst
    <2>6. Len(s) = Len(text) + 1 BY <1>1, <2>3
    <2> QED BY <1>2, <1>4, <2>1, <2>2, <2>5, <2>6 DEF s
<1> QED BY <1>3, <1>4

LEMMA HeaderAlone ==
    ASSUME NEW v
    PROVE  HeaderFirst(Header(v), v)
<1>1. <<>> \in Seq({"e", "b"}) OBVIOUS
<1>2. HeaderFirst(Header(v) \o <<>>, v) /\ Header(v) \in Seq(Alphabet) BY Zenon, <1>1, HeaderAndBody
<1>3. Header(v) \o <<>> = Header(v) BY <1>2, ConcatEmptySeq
<1> QED BY <1>2, <1>3

\* The page follows the header.
LEMMA BodyWrites ==
    ASSUME NEW c, Serving(c), Stream(c) = Header(c.version), c.delayed => c.wtimer,
           NEW text \in Seq({"e", "b"}), Len(text) = c.length,
           NEW r \in OutputFilter(c, Buf(text, TRUE), 0)
    PROVE  Outcome(r[1], r[2])
<1>0. c \in ConnState /\ 0 \in Nat BY DEF Serving
<1>1. PICK q \in WriteFilter(c, Buf(text, TRUE), 0) :
          r = <<IF q[2] = "ERROR" THEN [q[1] EXCEPT !.error = TRUE] ELSE q[1], q[2]>>
    BY Zenon DEF OutputFilter
<1>2. /\ HeaderFirst(Header(c.version) \o text, c.version)
      /\ Len(Header(c.version) \o text) = Len(text) + (IF c.version = "0.9" THEN 0 ELSE 1)
      /\ text \in Seq(Alphabet)
    BY Zenon, HeaderAndBody
<1>3. Written(c, text, q[1], q[2]) BY Zenon, <1>0, <1>2, FilterWrites
<1>4. CASE q[2] = "ERROR"
    <2>1. q[1] \in ConnState BY <1>3 DEF Written
    <2>2. [q[1] EXCEPT !.error = TRUE] \in ConnState BY Zenon, <2>1 DEF ConnState
    <2>3. r[1] = [q[1] EXCEPT !.error = TRUE] /\ r[2] = "ERROR" BY <1>1, <1>4
    <2> QED BY <2>2, <2>3 DEF Outcome
<1>5. CASE q[2] # "ERROR"
    <2> DEFINE d == q[1]
    <2>1. r[1] = d /\ r[2] = q[2] BY <1>1, <1>5
    <2>2. /\ d \in ConnState /\ Kept(c, d) /\ q[2] \in {"OK", "AGAIN", "ERROR"}
          /\ Stream(d) = Header(c.version) \o text /\ (~d.buffered => d.out = <<>>)
        BY <1>3, <1>5 DEF Written
    <2> HIDE DEF d
    <2>3. d.version = c.version /\ d.length = c.length /\ (d.delayed => d.wtimer)
        BY <2>2 DEF Kept
    <2>4. Serving(d) BY <2>2 DEF Kept, Serving
    <2>5. HeaderFirst(Stream(d), d.version) /\ Whole(d) BY <1>2, <2>2, <2>3 DEF Whole
    <2>6. Answered(d) BY <2>2, <2>3, <2>4, <2>5 DEF Answered
    <2> QED BY <2>1, <2>2, <2>6 DEF Outcome
<1> QED BY <1>4, <1>5

\* What ngx_http_send_header leaves behind: the header in the stream, or an error.
HeaderOut(c, d, code) ==
    /\ d \in ConnState /\ code \in {"OK", "AGAIN", "ERROR"}
    /\ code # "ERROR" =>
         /\ Serving(d) /\ Stream(d) = Header(d.version) /\ (d.delayed => d.wtimer)
         /\ d.method = c.method /\ d.version = c.version /\ d.length = c.length
         /\ d.keepalive = c.keepalive /\ d.headerSent /\ d.headerOnly = (c.method = "HEAD")
         /\ code = "OK" => ~d.buffered
         /\ code = "AGAIN" => c.method = "HEAD"

\* The first call of ngx_http_send_header.  A header is shorter than postpone_output: unless
\* it is all there will be, it waits for the body.
LEMMA SendHeaderFirst ==
    ASSUME Settings, NEW c, Serving(c), Unsent(c), NEW r \in SendHeader(c)
    PROVE  HeaderOut(c, r[1], r[2])
<1> DEFINE ho == c.method = "HEAD"
           d == [c EXCEPT !.headerSent = TRUE]
           e == [[c EXCEPT !.headerSent = TRUE] EXCEPT !.headerOnly = ho]
<1>0. c \in ConnState BY DEF Serving
<1>1. /\ c.version = "0.9" => r = <<d, "OK">>
      /\ c.version # "0.9" => r \in WriteFilter(e, Buf(<<"h">>, e.headerOnly), 0)
    BY DEF SendHeader, Unsent
<1>2. CASE c.version = "0.9"
    <2>1. r[1] = d /\ r[2] = "OK" BY <1>1, <1>2
    <2>2. /\ d \in ConnState /\ d.wire = c.wire /\ d.out = c.out /\ d.rtimer = c.rtimer
          /\ d.requests = c.requests /\ d.keepalive = c.keepalive /\ d.delayed = c.delayed
          /\ d.method = c.method /\ d.version = c.version /\ d.length = c.length
          /\ d.headerSent = TRUE /\ d.headerOnly = c.headerOnly /\ d.buffered = c.buffered
        BY Zenon, <1>0 DEF ConnState
    <2> HIDE DEF d
    <2>3. Serving(d) BY <2>2 DEF Serving
    <2>4. Stream(d) = Header(d.version)
        <3>1. <<>> \o <<>> = <<>> OBVIOUS
        <3> QED BY <1>2, <2>2, <3>1 DEF Stream, Unsent, Header
    <2>5. c.headerOnly = (c.method = "HEAD") BY <1>0, <1>2 DEF Unsent, ConnState
    <2> QED BY <2>1, <2>2, <2>3, <2>4, <2>5 DEF HeaderOut, Unsent
<1>3. CASE c.version # "0.9"
    <2>1. ho \in BOOLEAN OBVIOUS
    <2> HIDE DEF ho
    <2>2. /\ e \in ConnState /\ e.wire = c.wire /\ e.out = c.out /\ e.rtimer = c.rtimer
          /\ e.requests = c.requests /\ e.keepalive = c.keepalive /\ e.delayed = c.delayed
          /\ e.method = c.method /\ e.version = c.version /\ e.length = c.length
          /\ e.headerSent = TRUE /\ e.headerOnly = ho /\ e.buffered = c.buffered
          /\ e.last = c.last /\ e.error = c.error /\ e.wtimer = c.wtimer
        BY Zenon, <1>0, <2>1 DEF ConnState
    <2>3. r \in WriteFilter(e, Buf(<<"h">>, ho), 0) BY <1>1, <1>3, <2>2
    <2> HIDE DEF e
    <2> DEFINE h == <<"h">>
    <2>4. h \in Seq(Alphabet) /\ Len(h) = 1 /\ h # <<>> BY DEF Alphabet
    <2>5. Header(e.version) = h BY <1>3, <2>2 DEF Header
    <2>6. Stream(e) \o h = h
        <3>1. (<<>> \o <<>>) \o <<"h">> = <<"h">> OBVIOUS
        <3> QED BY <2>2, <3>1 DEF Stream, Unsent
    <2>7. Serving(e) BY <2>2 DEF Serving
    <2> HIDE DEF h
    <2>8. CASE ho
        <3>1. r \in WriteFilter(e, Buf(h, TRUE), 0) BY Zenon, <2>1, <2>3, <2>8 DEF h
        <3>2. Written(e, h, r[1], r[2]) BY Zenon, <2>2, <2>4, <3>1, FilterWrites
        <3> DEFINE f == r[1]
        <3>3. CASE r[2] = "ERROR" BY <3>2, <3>3 DEF Written, HeaderOut
        <3>4. CASE r[2] # "ERROR"
            <4>1. /\ f \in ConnState /\ Kept(e, f) /\ r[2] \in {"OK", "AGAIN", "ERROR"}
                  /\ Stream(f) = h /\ (r[2] = "OK" => ~f.buffered)
                BY <2>6, <3>2, <3>4 DEF Written
            <4> HIDE DEF f
            <4>2. Serving(f) BY <2>7, <4>1 DEF Kept, Serving
            <4>3. /\ f.method = c.method /\ f.version = c.version /\ f.length = c.length
                  /\ f.keepalive = c.keepalive /\ f.headerSent /\ f.headerOnly = ho
                  /\ (f.delayed => f.wtimer)
                BY <2>2, <4>1 DEF Kept, Unsent
            <4> QED BY <2>2, <2>5, <2>8, <4>1, <4>2, <4>3 DEF HeaderOut, f, ho
        <3> QED BY <3>3, <3>4
    <2>9. CASE ~ho
        <3>1. r \in WriteFilter(e, Buf(h, FALSE), 0) BY Zenon, <2>1, <2>3, <2>9 DEF h
        <3> DEFINE l == e.last \/ FALSE
                   f == Grown(e, h, l)
        <3>2. l = FALSE /\ l \in BOOLEAN /\ e.out = <<>> /\ ~e.error /\ ~e.delayed
            BY <2>2 DEF Unsent
        <3> HIDE DEF l
        <3>3. /\ f \in ConnState /\ Kept(e, f) /\ Stream(f) = Stream(e) \o h
              /\ f.out = e.out \o h /\ f.buffered = e.buffered
              /\ f.delayed = e.delayed /\ f.wtimer = e.wtimer
            BY SMTT(30), <2>2, <2>4, <3>2, Extended
        <3>4. f.out = h
            <4>1. <<>> \o h = h BY <2>4, ConcatEmptySeq
            <4> QED BY <3>2, <3>3, <4>1
        <3>5. Len(f.out) < Postpone
            <4>1. Len(f.out) = 1 BY <2>4, <3>4
            <4> HIDE DEF f
            <4> QED BY <4>1 DEF Settings
        <3>6. r = <<f, "OK">>
            <4> DEFINE add == IF Buf(h, FALSE) = <<>> THEN <<>> ELSE Buf(h, FALSE)[1].bytes
                       m == e.last \/ (Buf(h, FALSE) # <<>> /\ Buf(h, FALSE)[1].last)
                       g == [e EXCEPT !.out = Chained(@, add), !.last = m]
            <4>1. add = h /\ m = l BY ZenonT(30), <3>2, BufFacts DEF l
            <4>2. g = f BY Zenon, <4>1 DEF Grown
            <4>3. WriteFilter(e, Buf(h, FALSE), 0) =
                    IF e.error THEN {<<e, "ERROR">>}
                    ELSE IF Buf(h, FALSE) # <<>> /\ add = <<>>
                         THEN {<<[g EXCEPT !.zero = TRUE], "ERROR">>}
                    ELSE IF ~m /\ Buf(h, FALSE) # <<>> /\ Len(g.out) < Postpone THEN {<<g, "OK">>}
                    ELSE IF e.delayed THEN {<<[g EXCEPT !.buffered = TRUE], "AGAIN">>}
                    ELSE IF g.out = <<>>
                         THEN {<<[g EXCEPT !.buffered = FALSE], IF m THEN "OK" ELSE "ERROR">>}
                    ELSE SendChain(g, 0)
                BY DEF WriteFilter
            <4>4. Buf(h, FALSE) # <<>> BY Zenon, BufFacts
            <4> HIDE DEF add, m, g, f
            <4> QED BY Zenon, <2>4, <3>1, <3>2, <3>5, <4>1, <4>2, <4>3, <4>4
        <3> HIDE DEF f
        <3>7. Serving(f) BY <2>7, <3>3 DEF Kept, Serving
        <3>8. /\ f.method = c.method /\ f.version = c.version /\ f.length = c.length
              /\ f.keepalive = c.keepalive /\ f.headerSent /\ f.headerOnly = ho
              /\ ~f.delayed /\ ~f.buffered
            BY <2>2, <3>3 DEF Kept, Unsent
        <3> QED BY <2>2, <2>5, <2>6, <3>3, <3>6, <3>7, <3>8 DEF HeaderOut, ho
    <2> QED BY <2>8, <2>9
<1> QED BY <1>2, <1>3

LEMMA BytesFacts ==
    ASSUME NEW b, NEW n \in Nat
    PROVE  Bytes(b, n) \in Seq({b}) /\ Len(Bytes(b, n)) = n
BY DEF Bytes

\* What the handlers put into their buffer: err and page, cut at the length of the page.
LEMMA TextFacts ==
    ASSUME NEW n \in Nat, NEW e \in Nat
    PROVE  LET text == SubSeq(Bytes("e", e) \o Bytes("b", n), 1, n)
           IN  text \in Seq({"e", "b"}) /\ Len(text) = n
<1> DEFINE A == {"e", "b"}
           x == Bytes("e", e)
           y == Bytes("b", n)
           s == x \o y
<1>1. x \in Seq({"e"}) /\ y \in Seq({"b"}) /\ Len(x) = e /\ Len(y) = n BY BytesFacts
<1>2. x \in Seq(A) /\ y \in Seq(A) BY <1>1, SeqMonotonic
<1> HIDE DEF x, y, A
<1>3. s \in Seq(A) /\ Len(s) = e + n BY Zenon, <1>1, <1>2, ConcatProperties
<1> HIDE DEF s
<1>4. \A i \in 1..n : s[i] \in A BY <1>3, ElementOfSeq
<1>5. SubSeq(s, 1, n) \in Seq(A) /\ Len(SubSeq(s, 1, n)) = n
    <2>1. 1 \in Int /\ n \in Int OBVIOUS
    <2>2. Len(SubSeq(s, 1, n)) = IF 1 <= n THEN n - 1 + 1 ELSE 0
        BY <1>4, <2>1, SubSeqProperties
    <2>3. SubSeq(s, 1, n) \in Seq(A) BY <1>4, <2>1, SubSeqProperties
    <2> QED BY <2>2, <2>3
<1> QED BY Zenon, <1>5 DEF s, x, y, A

\* What a handler returns: a status for an error page, or the result of its output.
Handled(d, code) ==
    \/ /\ Serving(d)
       /\ \/ code \in {"405", "500"} /\ Unsent(d)
          \/ code = "500" /\ HeadSent(d)
    \/ Outcome(d, code)

\* The part of a handler from the allocation of its buffer on.
LEMMA PageHandled ==
    ASSUME Settings, NEW c, Serving(c), Unsent(c) \/ HeadSent(c), c.delayed => c.wtimer,
           NEW text \in Seq({"e", "b"}), Len(text) = c.length, NEW q \in SendHeader(c),
           NEW r, IF q[2] = "OK" THEN r \in OutputFilter(q[1], Buf(text, TRUE), 0) ELSE r = q
    PROVE  Outcome(r[1], r[2])
<1>1. CASE Unsent(c)
    <2>1. HeaderOut(c, q[1], q[2]) BY <1>1, SendHeaderFirst
    <2>2. CASE q[2] = "OK"
        <3>1. /\ Serving(q[1]) /\ Stream(q[1]) = Header(q[1].version)
              /\ q[1].delayed => q[1].wtimer
              /\ Len(text) = q[1].length
            BY <2>1, <2>2 DEF HeaderOut
        <3> QED BY Zenon, <2>2, <3>1, BodyWrites
    <2>3. CASE q[2] = "ERROR" BY <2>1, <2>3 DEF HeaderOut, Outcome
    <2>4. CASE q[2] = "AGAIN"
        <3> DEFINE d == q[1]
        <3>1. /\ Serving(d) /\ Stream(d) = Header(d.version) /\ (d.delayed => d.wtimer)
              /\ d.method = "HEAD"
            BY <2>1, <2>4 DEF HeaderOut
        <3>2. d \in ConnState BY <2>1 DEF HeaderOut
        <3> HIDE DEF d
        <3>3. HeaderFirst(Stream(d), d.version) BY <3>1, HeaderAlone
        <3>4. Answered(d) BY <3>1, <3>3 DEF Answered, Whole
        <3> QED BY <2>4, <3>2, <3>4 DEF Outcome, d
    <2> QED BY <2>1, <2>2, <2>3, <2>4 DEF HeaderOut
<1>2. CASE HeadSent(c)
    <2>1. q = <<c, "OK">> BY <1>2 DEF HeadSent, SendHeader
    <2>2. Stream(c) = Header(c.version) BY <1>2 DEF HeadSent
    <2> QED BY Zenon, <2>1, <2>2, BodyWrites
<1> QED BY <1>1, <1>2

\* ngx_http_recommend_handler and ngx_http_view_handler.
LEMMA HandlerHandles ==
    ASSUME Settings, NEW c, Serving(c), Unsent(c), NEW n \in Nat, NEW e \in Nat,
           NEW r \in Handler(c, n, e)
    PROVE  Handled(r[1], r[2])
<1> DEFINE d == [c EXCEPT !.length = n]
           text == SubSeq(Bytes("e", e) \o Bytes("b", n), 1, n)
           body(f) == OutputFilter(f, Buf(text, TRUE), 0)
           alloc(f) == Then(SendHeader(f), body)
                         \cup (IF "alloc" \in Faults THEN {<<f, "500">>} ELSE {})
<1>0. c \in ConnState BY DEF Serving
<1>1. CASE c.method \notin {"HEAD", "GET", "POST"}
    <2>1. r = <<c, "405">> BY Zenon, <1>1 DEF Handler
    <2> QED BY <2>1 DEF Handled
<1>2. CASE c.method \in {"HEAD", "GET", "POST"}
    <2> DEFINE S == IF c.method = "HEAD" THEN SendHeader(d) ELSE {<<d, "OK">>}
    <2>1. r \in Then(S, alloc) BY Zenon, <1>2 DEF Handler
    <2>2. PICK q \in S : r \in IF q[2] = "OK" THEN alloc(q[1]) ELSE {q} BY Zenon, <2>1 DEF Then
    <2>3. /\ d \in ConnState /\ d.wire = c.wire /\ d.out = c.out /\ d.rtimer = c.rtimer
          /\ d.requests = c.requests /\ d.keepalive = c.keepalive /\ d.delayed = c.delayed
          /\ d.method = c.method /\ d.version = c.version /\ d.length = n
          /\ d.headerSent = c.headerSent /\ d.headerOnly = c.headerOnly
          /\ d.buffered = c.buffered /\ d.last = c.last /\ d.error = c.error
          /\ d.wtimer = c.wtimer
        BY Zenon, <1>0 DEF ConnState
    <2>4. text \in Seq({"e", "b"}) /\ Len(text) = n BY Zenon, TextFacts
    <2> HIDE DEF d, text
    <2>5. Serving(d) /\ Unsent(d) /\ (d.delayed => d.wtimer) BY <2>3 DEF Serving, Unsent
    <2>6. ASSUME NEW f, Serving(f), Unsent(f) \/ HeadSent(f), f.delayed => f.wtimer,
                 f.length = n, r \in alloc(f)
          PROVE  Handled(r[1], r[2])
        <3>1. CASE r = <<f, "500">> BY <2>6, <3>1 DEF Handled
        <3>2. CASE r \in Then(SendHeader(f), body)
            <4>1. PICK p \in SendHeader(f) : r \in IF p[2] = "OK" THEN body(p[1]) ELSE {p}
                BY Zenon, <3>2 DEF Then
            <4>2. IF p[2] = "OK" THEN r \in OutputFilter(p[1], Buf(text, TRUE), 0) ELSE r = p
                BY Zenon, <4>1
            <4>3. Len(text) = f.length BY <2>4, <2>6
            <4>4. Outcome(r[1], r[2]) BY Zenon, <2>4, <2>6, <4>2, <4>3, PageHandled
            <4> QED BY <4>4 DEF Handled
        <3>3. r \in Then(SendHeader(f), body) \/ r = <<f, "500">> BY <2>6
        <3> QED BY <3>1, <3>2, <3>3
    <2>7. CASE c.method = "HEAD"
        <3>1. q \in SendHeader(d) BY <2>7
        <3>2. HeaderOut(d, q[1], q[2]) BY <2>5, <3>1, SendHeaderFirst
        <3>3. CASE q[2] = "OK"
            <4>1. /\ Serving(q[1]) /\ (q[1].delayed => q[1].wtimer) /\ q[1].length = n
                  /\ HeadSent(q[1])
                BY Zenon, <2>3, <2>5, <2>7, <3>2, <3>3 DEF HeaderOut, HeadSent, Unsent
            <4>2. r \in alloc(q[1]) BY <2>2, <3>3
            <4> QED BY Zenon, <2>6, <4>1, <4>2
        <3>4. CASE q[2] # "OK"
            <4>1. r = q BY <2>2, <3>4
            <4>2. Len(text) = d.length BY <2>3, <2>4
            <4>3. Outcome(r[1], r[2]) BY Zenon, <2>4, <2>5, <3>1, <3>4, <4>1, <4>2, PageHandled
            <4> QED BY <4>3 DEF Handled
        <3> QED BY <3>3, <3>4
    <2>8. CASE c.method # "HEAD"
        <3>1. q = <<d, "OK">> BY <2>8
        <3>2. r \in alloc(d) BY <2>2, <3>1
        <3> QED BY Zenon, <2>3, <2>5, <2>6, <3>2
    <2> QED BY <2>7, <2>8
<1> QED BY <1>1, <1>2

\* ngx_http_special_response_handler.
LEMMA SpecialHandles ==
    ASSUME Settings, NEW c, Serving(c), NEW code,
           Unsent(c) \/ (HeadSent(c) /\ code = "500"),
           NEW r \in SpecialResponse(c, code)
    PROVE  Outcome(r[1], r[2])
<1> DEFINE k == c.keepalive /\ code = "405"
           d == [c EXCEPT !.keepalive = k, !.length = PageSize]
           page == Bytes("b", PageSize)
<1>0. c \in ConnState /\ PageSize \in Nat /\ k \in BOOLEAN BY DEF Serving, Settings
<1>1. page \in Seq({"e", "b"}) /\ Len(page) = PageSize
    <2>1. page \in Seq({"b"}) /\ Len(page) = PageSize BY <1>0, BytesFacts
    <2> HIDE DEF page
    <2>2. {"b"} \subseteq {"e", "b"} OBVIOUS
    <2> QED BY <2>1, <2>2, SeqMonotonic
<1>2. PICK q \in SendHeader(d) :
          r \in IF q[2] = "ERROR" \/ q[1].headerOnly THEN {q}
                ELSE OutputFilter(q[1], Buf(page, TRUE), 0)
    BY Zenon DEF SpecialResponse
<1>k. (k => c.keepalive) /\ (k => code = "405") OBVIOUS
<1> HIDE DEF k, page
<1>3. /\ d \in ConnState /\ d.wire = c.wire /\ d.out = c.out /\ d.rtimer = c.rtimer
      /\ d.requests = c.requests /\ d.keepalive = k /\ d.delayed = c.delayed
      /\ d.method = c.method /\ d.version = c.version /\ d.length = PageSize
      /\ d.headerSent = c.headerSent /\ d.headerOnly = c.headerOnly
      /\ d.buffered = c.buffered /\ d.last = c.last /\ d.error = c.error
      /\ d.wtimer = c.wtimer
    BY Zenon, <1>0 DEF ConnState
<1> HIDE DEF d
<1>4. Serving(d) BY <1>k, <1>3 DEF Serving
<1>5. CASE Unsent(c)
    <2>1. Unsent(d) BY <1>3, <1>5 DEF Unsent
    <2>2. HeaderOut(d, q[1], q[2]) BY <1>4, <2>1, SendHeaderFirst
    <2>3. d.delayed => d.wtimer BY <2>1 DEF Unsent
    <2>4. Len(page) = d.length BY <1>1, <1>3
    <2>5. CASE q[2] = "ERROR"
        <3>1. r = q BY <1>2, <2>5
        <3> QED BY <2>2, <2>5, <3>1 DEF HeaderOut, Outcome
    <2>6. CASE q[2] # "ERROR" /\ q[1].headerOnly
        <3>1. r = q BY <1>2, <2>6
        <3>2. /\ Serving(q[1]) /\ Stream(q[1]) = Header(q[1].version)
              /\ (q[1].delayed => q[1].wtimer) /\ q[1].method = "HEAD"
            BY Zenon, <2>2, <2>6 DEF HeaderOut
        <3>3. HeaderFirst(Stream(q[1]), q[1].version) BY <3>2, HeaderAlone
        <3>4. Answered(q[1]) BY <3>2, <3>3 DEF Answered, Whole
        <3> QED BY <2>2, <3>1, <3>4 DEF HeaderOut, Outcome
    <2>7. CASE q[2] # "ERROR" /\ ~q[1].headerOnly
        <3>1. r \in OutputFilter(q[1], Buf(page, TRUE), 0) BY Zenon, <1>2, <2>7
        <3>2. /\ Serving(q[1]) /\ Stream(q[1]) = Header(q[1].version)
              /\ (q[1].delayed => q[1].wtimer) /\ Len(page) = q[1].length
            BY <2>2, <2>4, <2>7 DEF HeaderOut
        <3> QED BY Zenon, <1>1, <3>1, <3>2, BodyWrites
    <2> QED BY <2>5, <2>6, <2>7
<1>6. CASE HeadSent(c) /\ code = "500"
    <2>1. HeadSent(d) /\ ~d.keepalive BY <1>k, <1>3, <1>6 DEF HeadSent, Stream
    <2>2. q = <<d, "OK">> BY <2>1 DEF HeadSent, SendHeader
    <2>3. r = <<d, "OK">> BY Zenon, <1>2, <2>1, <2>2 DEF HeadSent
    <2>4. HeaderFirst(Stream(d), d.version) BY <2>1, HeaderAlone DEF HeadSent
    <2>5. Answered(d) BY <1>4, <2>1, <2>4 DEF Answered, Whole, HeadSent
    <2> QED BY <1>3, <2>3, <2>5 DEF Outcome
<1> QED BY <1>5, <1>6
-----------------------------------------------------------------------------
(* The end of a request *)

\* The state of a connection between two events.
ConnInv(c) ==
    /\ c \in ConnState
    /\ c.rtimer <=> c.phase \in {"wait", "reading", "keepalive", "lingering"}
    /\ c.wtimer <=> c.phase = "writing"
    /\ c.delayed => c.phase \in {"writing", "lingering"}
    /\ c.phase \in {"closed", "wait"} => c.wire = <<>> /\ c.requests = 0
    /\ c.phase = "reading" => Unsent(c) /\ c.requests \in 1..MaxRequests /\ ~c.keepalive
    /\ c.phase \in {"writing", "keepalive", "pipelined", "lingering"} =>
         /\ HeaderFirst(Stream(c), c.version) /\ Whole(c) /\ c.requests \in 1..MaxRequests
    /\ c.phase = "writing" /\ c.keepalive => c.requests < MaxRequests
    /\ c.phase \in {"keepalive", "pipelined"} => c.requests < MaxRequests
    /\ c.phase \in {"keepalive", "pipelined", "lingering"} /\ c.method # "HEAD" => c.out = <<>>

LEMMA ClosedInv ==
    ASSUME NEW c \in ConnState
    PROVE  ConnInv(Closed(c))
<1> DEFINE d == Closed(c)
<1>1. d \in ConnState
    <2>1. c.zero \in BOOLEAN BY DEF ConnState
    <2>2. <<>> \in Seq(Alphabet) OBVIOUS
    <2>3. "closed" \in Phases BY DEF Phases
    <2> QED BY ZenonT(30), <2>1, <2>2, <2>3 DEF Closed, Fresh, ConnState
<1>2. /\ d.phase = "closed" /\ d.rtimer = FALSE /\ d.wtimer = FALSE /\ d.delayed = FALSE
      /\ d.wire = <<>> /\ d.requests = 0
    BY DEF Closed, Fresh
<1> HIDE DEF d
<1> QED BY <1>1, <1>2 DEF ConnInv, d

LEMMA OrClosedInv ==
    ASSUME NEW c, ConnInv(c), NEW d \in OrClosed(c)
    PROVE  ConnInv(d)
<1>1. d = c \/ d = Closed(c) BY DEF OrClosed
<1>2. c \in ConnState BY DEF ConnInv
<1> QED BY <1>1, <1>2, ClosedInv

\* What ngx_http_finalize_request hands on to ngx_http_finalize_connection.
Ended(c) ==
    /\ c \in ConnState /\ ~c.rtimer /\ ~c.wtimer
    /\ HeaderFirst(Stream(c), c.version) /\ Whole(c)
    /\ c.requests \in 1..MaxRequests /\ (c.keepalive => c.requests < MaxRequests)
    /\ c.method # "HEAD" => c.out = <<>>
    /\ c.keepalive => ~c.delayed

\* ngx_http_set_keepalive and ngx_http_set_lingering_close change these fields of a request.
LEMMA EndedIn ==
    ASSUME NEW c, Ended(c), NEW ph \in {"keepalive", "pipelined", "lingering"}, NEW k \in BOOLEAN,
           NEW rt \in BOOLEAN, NEW d \in ConnState,
           d.phase = ph, d.keepalive = k, d.rtimer = rt, d.wtimer = c.wtimer,
           d.delayed = c.delayed, d.out = c.out, d.wire = c.wire, d.length = c.length,
           d.method = c.method, d.version = c.version, d.requests = c.requests,
           rt <=> ph # "pipelined", ph # "lingering" => c.keepalive
    PROVE  ConnInv(d)
<1>1. Stream(d) = Stream(c) /\ (Whole(c) => Whole(d)) BY Zenon DEF Stream, Whole
<1> QED BY <1>1 DEF Ended, ConnInv

LEMMA ConnectionFinalized ==
    ASSUME NEW c, Ended(c), NEW d \in FinalizeConnection(c)
    PROVE  ConnInv(d)
<1>0. c \in ConnState /\ {"keepalive", "pipelined", "lingering"} \subseteq Phases
    BY DEF Ended, Phases
<1>1. CASE ~exiting /\ c.keepalive
    <2> DEFINE x == [c EXCEPT !.phase = "keepalive", !.keepalive = FALSE, !.rtimer = TRUE]
               y == [c EXCEPT !.phase = "pipelined", !.keepalive = FALSE]
    <2>1. d \in OrClosed(x) \/ d \in OrClosed(y) BY <1>1 DEF FinalizeConnection, SetKeepalive
    <2>2. x \in ConnState /\ y \in ConnState BY ZenonT(30), <1>0 DEF ConnState
    <2>3. /\ x.phase = "keepalive" /\ x.keepalive = FALSE /\ x.rtimer = TRUE /\ x.wtimer = c.wtimer
          /\ x.delayed = c.delayed /\ x.out = c.out /\ x.wire = c.wire /\ x.length = c.length
          /\ x.method = c.method /\ x.version = c.version /\ x.requests = c.requests
        BY <1>0 DEF ConnState
    <2>4. /\ y.phase = "pipelined" /\ y.keepalive = FALSE /\ y.rtimer = FALSE /\ y.wtimer = c.wtimer
          /\ y.delayed = c.delayed /\ y.out = c.out /\ y.wire = c.wire /\ y.length = c.length
          /\ y.method = c.method /\ y.version = c.version /\ y.requests = c.requests
        BY <1>0 DEF ConnState, Ended
    <2> HIDE DEF x, y
    <2>5. ConnInv(x) BY Zenon, <1>1, <2>2, <2>3, EndedIn
    <2>6. ConnInv(y) BY Zenon, <1>1, <2>2, <2>4, EndedIn
    <2> QED BY <2>1, <2>5, <2>6, OrClosedInv
<1>2. CASE ~(~exiting /\ c.keepalive)
    <2> DEFINE x == [c EXCEPT !.phase = "lingering", !.rtimer = TRUE]
    <2>1. d \in OrClosed(x) \/ d = Closed(c) BY <1>2 DEF FinalizeConnection
    <2>2. x \in ConnState /\ c.keepalive \in BOOLEAN BY Zenon, <1>0 DEF ConnState
    <2>3. /\ x.phase = "lingering" /\ x.keepalive = c.keepalive /\ x.rtimer = TRUE
          /\ x.wtimer = c.wtimer
          /\ x.delayed = c.delayed /\ x.out = c.out /\ x.wire = c.wire /\ x.length = c.length
          /\ x.method = c.method /\ x.version = c.version /\ x.requests = c.requests
        BY <1>0 DEF ConnState
    <2> HIDE DEF x
    <2>4. ConnInv(x) BY Zenon, <2>2, <2>3, EndedIn
    <2> QED BY <1>0, <2>1, <2>4, OrClosedInv, ClosedInv
<1> QED BY <1>1, <1>2

\* What waits for the client, under ngx_http_writer.
LEMMA Awaits ==
    ASSUME NEW c, Answered(c), c.buffered, NEW d \in ConnState,
           d.phase = "writing", d.wtimer = TRUE,
           d.keepalive = c.keepalive, d.rtimer = c.rtimer, d.out = c.out, d.wire = c.wire,
           d.length = c.length, d.method = c.method, d.version = c.version,
           d.requests = c.requests
    PROVE  ConnInv(d)
<1>1. Stream(d) = Stream(c) /\ (Whole(c) => Whole(d)) BY Zenon DEF Stream, Whole
<1> QED BY <1>1 DEF Answered, Serving, ConnInv

\* ngx_http_finalize_request with the result of the output.
LEMMA SentFinalized ==
    ASSUME NEW c, NEW code, Outcome(c, code), NEW d \in FinalizeSent(c, code)
    PROVE  ConnInv(d)
<1>0. c \in ConnState BY DEF Outcome
<1>1. CASE code = "ERROR" \/ c.error
    <2>1. d = Closed(c) BY <1>1 DEF FinalizeSent
    <2> QED BY <1>0, <2>1, ClosedInv
<1>2. CASE ~(code = "ERROR" \/ c.error) /\ c.buffered
    <2> DEFINE wt == c.wtimer \/ ~c.delayed
               x == [c EXCEPT !.phase = "writing", !.wtimer = wt]
    <2>1. d \in OrClosed(x) BY <1>2 DEF FinalizeSent, SetWriteHandler
    <2>2. Answered(c) BY <1>2 DEF Outcome
    <2>3. wt = TRUE BY <1>2, <2>2 DEF Answered
    <2>4. "writing" \in Phases BY DEF Phases
    <2> HIDE DEF wt
    <2>5. x \in ConnState BY Zenon, <1>0, <2>3, <2>4 DEF ConnState
    <2>6. /\ x.phase = "writing" /\ x.wtimer = TRUE
          /\ x.keepalive = c.keepalive /\ x.rtimer = c.rtimer /\ x.out = c.out
          /\ x.wire = c.wire /\ x.length = c.length /\ x.method = c.method
          /\ x.version = c.version /\ x.requests = c.requests
        BY <1>0, <2>3 DEF ConnState
    <2> HIDE DEF x
    <2>7. ConnInv(x) BY Zenon, <1>2, <2>2, <2>5, <2>6, Awaits
    <2> QED BY <2>1, <2>7, OrClosedInv
<1>3. CASE ~(code = "ERROR" \/ c.error) /\ ~c.buffered
    <2> DEFINE dl == c.delayed /\ ~c.wtimer
               x == [c EXCEPT !.rtimer = FALSE, !.wtimer = FALSE, !.delayed = dl]
    <2>1. d = Closed(x) \/ d \in FinalizeConnection(x) BY <1>3 DEF FinalizeSent
    <2>2. Answered(c) BY <1>3 DEF Outcome
    <2>3. dl \in BOOLEAN /\ (c.keepalive => ~dl) BY <1>3, <2>2 DEF Answered
    <2> HIDE DEF dl
    <2>4. x \in ConnState BY Zenon, <1>0, <2>3 DEF ConnState
    <2>5. /\ x.rtimer = FALSE /\ x.wtimer = FALSE /\ x.delayed = dl
          /\ x.keepalive = c.keepalive /\ x.out = c.out
          /\ x.wire = c.wire /\ x.length = c.length /\ x.method = c.method
          /\ x.version = c.version /\ x.requests = c.requests
        BY <1>0 DEF ConnState
    <2> HIDE DEF x
    <2>6. Stream(x) = Stream(c) /\ (Whole(c) => Whole(x)) BY Zenon, <2>5 DEF Stream, Whole
    <2>7. Ended(x) BY <1>3, <2>2, <2>3, <2>4, <2>5, <2>6 DEF Ended, Answered, Serving
    <2> QED BY <2>1, <2>4, <2>7, ClosedInv, ConnectionFinalized
<1> QED BY <1>1, <1>2, <1>3

\* ngx_http_finalize_request with what a handler returns, or with the status of a bad request.
LEMMA RequestFinalized ==
    ASSUME Settings, NEW c \in ConnState, NEW rc,
           \/ c.error
           \/ Outcome(c, rc)
           \/ /\ rc \in {"400", "405", "500"}
              /\ c.requests \in 1..MaxRequests /\ (c.keepalive => c.requests < MaxRequests)
              /\ \/ Unsent(c)
                 \/ HeadSent(c) /\ rc = "500",
           NEW d \in FinalizeRequest(c, rc)
    PROVE  ConnInv(d)
<1>1. CASE rc \in {"400", "405", "500"} /\ ~c.error
    <2> DEFINE x == [c EXCEPT !.rtimer = FALSE, !.wtimer = FALSE]
    <2>1. PICK r \in SpecialResponse(x, rc) : d \in FinalizeSent(r[1], r[2])
        BY <1>1 DEF FinalizeRequest
    <2>2. /\ rc \in {"400", "405", "500"}
          /\ c.requests \in 1..MaxRequests /\ (c.keepalive => c.requests < MaxRequests)
          /\ \/ Unsent(c)
             \/ HeadSent(c) /\ rc = "500"
        BY <1>1 DEF Outcome
    <2>3. /\ x \in ConnState /\ x.rtimer = FALSE /\ x.wtimer = FALSE
          /\ x.keepalive = c.keepalive /\ x.out = c.out /\ x.last = c.last
          /\ x.wire = c.wire /\ x.length = c.length /\ x.method = c.method
          /\ x.version = c.version /\ x.requests = c.requests /\ x.delayed = c.delayed
          /\ x.error = c.error /\ x.buffered = c.buffered
          /\ x.headerSent = c.headerSent /\ x.headerOnly = c.headerOnly
        BY Zenon DEF ConnState
    <2> HIDE DEF x
    <2>4. Serving(x) BY <2>2, <2>3 DEF Serving
    <2>5. Unsent(x) \/ (HeadSent(x) /\ rc = "500") BY Zenon, <2>2, <2>3 DEF Unsent, HeadSent, Stream
    <2>6. Outcome(r[1], r[2]) BY <2>1, <2>4, <2>5, SpecialHandles
    <2> QED BY <2>1, <2>6, SentFinalized
<1>2. CASE ~(rc \in {"400", "405", "500"} /\ ~c.error)
    <2>1. d \in FinalizeSent(c, rc) BY <1>2 DEF FinalizeRequest
    <2>2. CASE c.error
        <3>1. d = Closed(c) BY <2>1, <2>2 DEF FinalizeSent
        <3> QED BY <3>1, ClosedInv
    <2>3. CASE ~c.error
        <3>1. Outcome(c, rc) BY <1>2, <2>3
        <3> QED BY <2>1, <3>1, SentFinalized
    <2> QED BY <2>2, <2>3
<1> QED BY <1>1, <1>2

\* ngx_http_writer.
LEMMA WriterWrites ==
    ASSUME NEW c, Serving(c), c.phase = "writing", HeaderFirst(Stream(c), c.version), Whole(c),
           c.delayed => c.wtimer, NEW least \in Nat, NEW d \in Writer(c, least)
    PROVE  ConnInv(d)
<1>0. c \in ConnState BY DEF Serving
<1>1. PICK r \in OutputFilter(c, <<>>, least) :
          d \in IF r[2] # "ERROR" /\ r[1].buffered
                THEN OrClosed([r[1] EXCEPT !.wtimer = r[1].wtimer \/ ~r[1].delayed])
                ELSE FinalizeSent(r[1], r[2])
    BY DEF Writer
<1>2. PICK q \in WriteFilter(c, <<>>, least) :
          r = <<IF q[2] = "ERROR" THEN [q[1] EXCEPT !.error = TRUE] ELSE q[1], q[2]>>
    BY DEF OutputFilter
<1>3. Written(c, <<>>, q[1], q[2])
    <2>1. <<>> \in Seq(Alphabet) OBVIOUS
    <2> QED BY Zenon, <1>0, <2>1, FilterWrites
<1>4. CASE q[2] = "ERROR"
    <2>1. q[1] \in ConnState BY <1>3 DEF Written
    <2>2. [q[1] EXCEPT !.error = TRUE] \in ConnState BY Zenon, <2>1 DEF ConnState
    <2>3. r[1] = [q[1] EXCEPT !.error = TRUE] /\ r[2] = "ERROR" BY <1>2, <1>4
    <2>4. Outcome(r[1], r[2]) BY <2>2, <2>3 DEF Outcome
    <2>5. d \in FinalizeSent(r[1], r[2]) BY <1>1, <2>3
    <2> QED BY <2>4, <2>5, SentFinalized
<1>5. CASE q[2] # "ERROR"
    <2> DEFINE e == q[1]
    <2>1. r[1] = e /\ r[2] = q[2] BY <1>2, <1>5
    <2>2. /\ e \in ConnState /\ Kept(c, e) /\ Stream(e) = Stream(c) \o <<>>
          /\ (~e.buffered => e.out = <<>>) /\ q[2] \in {"OK", "AGAIN", "ERROR"}
        BY <1>3, <1>5 DEF Written
    <2> HIDE DEF e
    <2>3. Stream(e) = Stream(c)
        <3>1. c.wire \in Seq(Alphabet) /\ c.out \in Seq(Alphabet) BY <1>0 DEF ConnState
        <3>2. Stream(c) \in Seq(Alphabet) BY <3>1, ConcatProperties DEF Stream
        <3> QED BY <2>2, <3>2, ConcatEmptySeq
    <2>4. /\ e.version = c.version /\ e.length = c.length /\ e.method = c.method
          /\ (e.delayed => e.wtimer)
        BY <2>2 DEF Kept
    <2>5. Serving(e) /\ e.phase = "writing" BY <2>2 DEF Kept, Serving
    <2>6. Whole(e) /\ HeaderFirst(Stream(e), e.version) BY <2>3, <2>4 DEF Whole
    <2>7. Answered(e) BY SMTT(30), <2>2, <2>4, <2>5, <2>6 DEF Answered
    <2>8. CASE e.buffered
        <3> DEFINE wt == e.wtimer \/ ~e.delayed
                   x == [e EXCEPT !.wtimer = wt]
        <3>1. d \in OrClosed(x) BY <1>1, <1>5, <2>1, <2>8
        <3>2. wt = TRUE BY <2>4
        <3> HIDE DEF wt
        <3>3. x \in ConnState BY Zenon, <2>2, <3>2 DEF ConnState
        <3>4. /\ x.phase = "writing" /\ x.wtimer = TRUE
              /\ x.keepalive = e.keepalive /\ x.rtimer = e.rtimer /\ x.out = e.out
              /\ x.wire = e.wire /\ x.length = e.length /\ x.method = e.method
              /\ x.version = e.version /\ x.requests = e.requests
            BY <2>2, <2>5, <3>2 DEF ConnState
        <3> HIDE DEF x
        <3>5. ConnInv(x) BY Zenon, <2>7, <2>8, <3>3, <3>4, Awaits
        <3> QED BY <3>1, <3>5, OrClosedInv
    <2>9. CASE ~e.buffered
        <3>1. d \in FinalizeSent(e, q[2]) BY <1>1, <2>1, <2>9
        <3>2. Outcome(e, q[2]) BY SMTT(30), <2>2, <2>7 DEF Outcome
        <3> QED BY <3>1, <3>2, SentFinalized
    <2> QED BY <2>8, <2>9
<1> QED BY <1>4, <1>5

-----------------------------------------------------------------------------
(* The events of the worker *)

\* A request that is being read.
Reading(c) ==
    /\ c \in ConnState /\ c.phase = "reading" /\ Unsent(c)
    /\ c.requests \in 1..MaxRequests /\ ~c.keepalive

Taken(c, m, v, k) == [c EXCEPT !.rtimer = FALSE, !.method = m, !.version = v, !.keepalive = k]

LEMMA RequestTyped ==
    ASSUME NEW c \in ConnState, NEW m \in Methods \cup {"GET"}, NEW v \in {"1.x", "0.9"},
           NEW w \in BOOLEAN
    PROVE  Taken(c, m, v, KeptAlive(c, w)) \in ConnState
<1>1. PICK b \in BOOLEAN : b = KeptAlive(c, w) BY Zenon DEF KeptAlive
<1>2. Taken(c, m, v, b) \in ConnState BY ZenonT(30) DEF ConnState, Taken
<1> QED BY Zenon, <1>1, <1>2

\* ngx_http_process_request and the phases.
LEMMA RequestProcessed ==
    ASSUME Settings, NEW c, Reading(c), NEW method \in Methods \cup {"GET"},
           NEW version \in {"1.x", "0.9"}, method = "HEAD" => version # "0.9",
           NEW wanted \in BOOLEAN, NEW d \in ProcessRequest(c, method, version, wanted)
    PROVE  ConnInv(d)
<1> DEFINE k == KeptAlive(c, wanted)
           x == Taken(c, method, version, k)
<1>1. c \in ConnState BY DEF Reading
<1>2. k \in BOOLEAN BY DEF KeptAlive
<1>3. k => c.requests < MaxRequests BY DEF KeptAlive
<1>4. PICK r \in UNION {Handler(x, n, e) : n \in Sizes, e \in ErrSizes} :
          d \in FinalizeRequest(r[1], r[2])
    BY DEF ProcessRequest, Taken
<1>5. x \in ConnState BY <1>1, RequestTyped
<1>6. /\ x.rtimer = FALSE /\ x.wtimer = c.wtimer /\ x.keepalive = k /\ x.out = c.out
      /\ x.last = c.last /\ x.wire = c.wire /\ x.method = method /\ x.version = version
      /\ x.requests = c.requests /\ x.delayed = c.delayed /\ x.error = c.error
      /\ x.buffered = c.buffered /\ x.headerSent = c.headerSent /\ x.headerOnly = c.headerOnly
    <2> HIDE DEF k
    <2> QED BY <1>1 DEF ConnState, Taken
<1> HIDE DEF k, x
<1>7. Serving(x) /\ Unsent(x) BY SMTT(30), <1>2, <1>3, <1>5, <1>6 DEF Serving, Unsent, Reading
<1>8. PICK n \in Sizes, e \in ErrSizes : r \in Handler(x, n, e) BY <1>4
<1>9. n \in Nat /\ e \in Nat BY DEF Settings
<1>10. Handled(r[1], r[2]) BY <1>7, <1>8, <1>9, HandlerHandles
<1>11. r[1] \in ConnState BY SMTT(30), <1>10 DEF Handled, Serving, Outcome
<1> QED BY SMTT(30), <1>4, <1>10, <1>11, RequestFinalized DEF Handled, Serving

\* ngx_http_process_request_line and ngx_http_process_request_headers.
LEMMA RequestRead ==
    ASSUME Settings, NEW c, Reading(c), NEW d \in ReadRequest(c)
    PROVE  ConnInv(d)
<1>0. c \in ConnState BY DEF Reading
<1>1. \/ d \in OrClosed([c EXCEPT !.rtimer = TRUE])
      \/ d \in FinalizeRequest([c EXCEPT !.error = TRUE], "400")
      \/ d \in FinalizeRequest(c, "400")
      \/ d \in ProcessRequest(c, "GET", "0.9", FALSE)
      \/ \E m \in Methods, w \in BOOLEAN : d \in ProcessRequest(c, m, "1.x", w)
    <2> DEFINE U == UNION {ProcessRequest(c, m, "1.x", w) : m \in Methods, w \in BOOLEAN}
    <2>1. ReadRequest(c) = OrClosed([c EXCEPT !.rtimer = TRUE])
                             \cup FinalizeRequest([c EXCEPT !.error = TRUE], "400")
                             \cup FinalizeRequest(c, "400")
                             \cup ProcessRequest(c, "GET", "0.9", FALSE)
                             \cup U
        BY DEF ReadRequest
    <2>2. d \in U => \E m \in Methods, w \in BOOLEAN : d \in ProcessRequest(c, m, "1.x", w)
        OBVIOUS
    <2> HIDE DEF U
    <2> QED BY Zenon, <2>1, <2>2
<1>2. CASE d \in OrClosed([c EXCEPT !.rtimer = TRUE])
    <2> DEFINE x == [c EXCEPT !.rtimer = TRUE]
    <2>1. /\ x \in ConnState /\ x.phase = "reading" /\ x.rtimer = TRUE
          /\ x.wtimer = c.wtimer /\ x.keepalive = c.keepalive /\ x.out = c.out
          /\ x.last = c.last /\ x.wire = c.wire /\ x.method = c.method /\ x.version = c.version
          /\ x.requests = c.requests /\ x.delayed = c.delayed /\ x.error = c.error
          /\ x.buffered = c.buffered /\ x.headerSent = c.headerSent
          /\ x.headerOnly = c.headerOnly
        BY Zenon, <1>0 DEF ConnState, Reading
    <2> HIDE DEF x
    <2>2. Unsent(x) BY <2>1 DEF Unsent, Reading
    <2>3. ConnInv(x) BY SMTT(30), <2>1, <2>2 DEF ConnInv, Reading, Unsent
    <2> QED BY <1>2, <2>3, OrClosedInv DEF x
<1>3. CASE d \in FinalizeRequest([c EXCEPT !.error = TRUE], "400")
    <2> DEFINE x == [c EXCEPT !.error = TRUE]
    <2>1. x \in ConnState /\ x.error BY Zenon, <1>0 DEF ConnState
    <2> HIDE DEF x
    <2> QED BY Zenon, <1>3, <2>1, RequestFinalized DEF x
<1>4. CASE d \in FinalizeRequest(c, "400")
    BY <1>0, <1>4, RequestFinalized DEF Reading
<1>5. CASE d \in ProcessRequest(c, "GET", "0.9", FALSE)
    BY Zenon, <1>5, RequestProcessed
<1>6. CASE \E m \in Methods, w \in BOOLEAN : d \in ProcessRequest(c, m, "1.x", w)
    <2>1. PICK m \in Methods, w \in BOOLEAN : d \in ProcessRequest(c, m, "1.x", w) BY <1>6
    <2>2. m \in Methods \cup {"GET"} OBVIOUS
    <2> QED BY <2>1, <2>2, RequestProcessed
<1> QED BY Zenon, <1>1, <1>2, <1>3, <1>4, <1>5, <1>6

\* ngx_http_create_request, on a connection that waits for a request.
LEMMA RequestCreated ==
    ASSUME Settings, NEW c, ConnInv(c), c.phase \in {"wait", "keepalive", "pipelined"},
           NEW rt \in BOOLEAN
    PROVE  Reading([NewRequest(c) EXCEPT !.rtimer = rt]) /\ Reading(NewRequest(c))
<1> DEFINE n == c.requests + 1
           x == NewRequest(c)
           y == [x EXCEPT !.rtimer = rt]
<1>1. c \in ConnState /\ c.delayed = FALSE BY DEF ConnInv, ConnState
<1>2. c.requests \in Nat /\ c.ready \in BOOLEAN BY <1>1 DEF ConnState
<1>3. n \in 1..MaxRequests /\ n \in Nat BY <1>2 DEF ConnInv, Settings
<1>4. "reading" \in Phases /\ <<>> \in Seq(Alphabet) BY DEF Phases
<1>5. x = [Fresh EXCEPT !.phase = "reading", !.ready = c.ready, !.delayed = FALSE, !.requests = n]
    BY Zenon, <1>1 DEF NewRequest
<1> HIDE DEF n
<1>6. /\ x \in ConnState /\ y \in ConnState
    <2>1. [Fresh EXCEPT !.phase = "reading", !.ready = c.ready, !.delayed = FALSE,
                        !.requests = n] \in ConnState
        BY Zenon, <1>2, <1>3, <1>4 DEF Fresh, ConnState
    <2>2. x \in ConnState BY <1>5, <2>1
    <2> HIDE DEF x
    <2> QED BY <2>2 DEF ConnState
<1>7. /\ x.phase = "reading" /\ x.wire = <<>> /\ x.out = <<>> /\ x.last = FALSE
      /\ x.error = FALSE /\ x.buffered = FALSE /\ x.delayed = FALSE /\ x.wtimer = FALSE
      /\ x.headerSent = FALSE /\ x.headerOnly = FALSE /\ x.method = "GET" /\ x.requests = n
      /\ x.keepalive = FALSE
    BY <1>5 DEF Fresh
<1> HIDE DEF x
<1>8. /\ y.phase = "reading" /\ y.wire = <<>> /\ y.out = <<>> /\ y.last = FALSE
      /\ y.error = FALSE /\ y.buffered = FALSE /\ y.delayed = FALSE /\ y.wtimer = FALSE
      /\ y.headerSent = FALSE /\ y.headerOnly = FALSE /\ y.method = "GET" /\ y.requests = n
      /\ y.keepalive = FALSE
    BY <1>6, <1>7 DEF ConnState
<1> HIDE DEF y
<1>9. Reading(x) BY <1>3, <1>6, <1>7 DEF Reading, Unsent
<1>10. Reading(y) BY <1>3, <1>6, <1>8 DEF Reading, Unsent
<1> QED BY <1>9, <1>10 DEF x, y

\* The inductive invariant: every connection is in order, and an exited worker has none left.
HttpInv ==
    /\ conn \in [Conns -> ConnState] /\ exiting \in BOOLEAN /\ worker \in {"up", "exited"}
    /\ \A k \in Conns : ConnInv(conn[k])
    /\ worker = "exited" => \A k \in Conns : conn[k].phase = "closed"

LEMMA InitHttp == Init => HttpInv
<1> SUFFICES ASSUME Init PROVE HttpInv OBVIOUS
<1>1. Fresh \in ConnState
    <2>1. <<>> \in Seq(Alphabet) /\ "closed" \in Phases BY DEF Phases
    <2> QED BY SMTT(30), <2>1 DEF Fresh, ConnState
<1>2. /\ Fresh.phase = "closed" /\ Fresh.rtimer = FALSE /\ Fresh.wtimer = FALSE
      /\ Fresh.delayed = FALSE /\ Fresh.wire = <<>> /\ Fresh.requests = 0
    BY DEF Fresh
<1>3. ConnInv(Fresh) BY SMTT(30), <1>1, <1>2 DEF ConnInv
<1> QED BY Zenon, <1>1, <1>3 DEF Init, HttpInv

\* One event handler changes one connection.
LEMMA BecomesInv ==
    ASSUME HttpInv, NEW k \in Conns, NEW S, Becomes(k, S), \A d \in S : ConnInv(d)
    PROVE  HttpInv'
<1>1. PICK d \in S : conn' = [conn EXCEPT ![k] = d] BY Zenon DEF Becomes
<1>2. ConnInv(d) /\ d \in ConnState BY SMTT(30), <1>1 DEF ConnInv
<1>3. conn' \in [Conns -> ConnState] BY <1>1, <1>2 DEF HttpInv
<1>4. \A j \in Conns : conn'[j] = IF j = k THEN d ELSE conn[j] BY <1>1 DEF HttpInv
<1>5. \A j \in Conns : ConnInv(conn'[j]) BY <1>2, <1>4 DEF HttpInv
<1>6. worker = "up" /\ worker' = worker /\ exiting' = exiting BY DEF Becomes
<1>7. \A j \in Conns : ConnInv(conn[j])' BY Zenon, <1>5 DEF ConnInv, ConnState, Unsent, HeaderFirst, Whole, Stream
<1> QED BY <1>3, <1>6, <1>7 DEF HttpInv

LEMMA EventInv ==
    ASSUME Settings, HttpInv, NEW k \in Conns, Event(k)
    PROVE  HttpInv'
<1> DEFINE c == conn[k]
<1>0. ConnInv(c) /\ c \in ConnState BY SMTT(30) DEF HttpInv, ConnInv
<1>1. CASE Accept(k)
    <2> DEFINE x == [Fresh EXCEPT !.phase = "wait", !.rtimer = TRUE]
    <2>1. Becomes(k, OrClosed(x)) BY <1>1 DEF Accept
    <2>2. x \in ConnState
        <3>1. <<>> \in Seq(Alphabet) /\ "wait" \in Phases BY DEF Phases
        <3> QED BY Zenon, <3>1 DEF Fresh, ConnState
    <2>3. /\ x.phase = "wait" /\ x.rtimer = TRUE /\ x.wtimer = FALSE /\ x.delayed = FALSE
          /\ x.wire = <<>> /\ x.requests = 0
        BY DEF Fresh
    <2> HIDE DEF x
    <2>4. ConnInv(x) BY <2>2, <2>3 DEF ConnInv
    <2> QED BY <2>1, <2>4, OrClosedInv, BecomesInv
<1>2. CASE FirstBytes(k)
    <2> DEFINE rt == c.phase = "wait"
               x == [NewRequest(c) EXCEPT !.rtimer = rt]
               S == {Closed(c)} \cup ReadRequest(x)
    <2>1. c.phase \in {"wait", "keepalive"} /\ Becomes(k, S) BY <1>2 DEF FirstBytes
    <2>2. rt \in BOOLEAN OBVIOUS
    <2> HIDE DEF rt
    <2>3. Reading(x) BY <1>0, <2>1, <2>2, RequestCreated
    <2> HIDE DEF x
    <2>4. \A d \in S : ConnInv(d) BY <1>0, <2>3, ClosedInv, RequestRead
    <2> HIDE DEF S
    <2> QED BY <2>1, <2>4, BecomesInv
<1>3. CASE PipelinedRequest(k)
    <2>1. c.phase = "pipelined" /\ Becomes(k, ReadRequest(NewRequest(c)))
        BY <1>3 DEF PipelinedRequest
    <2>2. Reading(NewRequest(c)) BY Zenon, <1>0, <2>1, RequestCreated
    <2>3. \A d \in ReadRequest(NewRequest(c)) : ConnInv(d) BY <2>2, RequestRead
    <2> QED BY <2>1, <2>3, BecomesInv
<1>4. CASE MoreBytes(k)
    <2>1. c.phase = "reading" /\ Becomes(k, ReadRequest(c)) BY <1>4 DEF MoreBytes
    <2>2. Reading(c) BY SMTT(30), <1>0, <2>1 DEF ConnInv, Reading
    <2>3. \A d \in ReadRequest(c) : ConnInv(d) BY <2>2, RequestRead
    <2> QED BY <2>1, <2>3, BecomesInv
<1>5. CASE WriteEvent(k)
    <2> DEFINE x == [c EXCEPT !.ready = TRUE]
               S == IF x.delayed THEN OrClosed(x) ELSE Writer(x, 1)
    <2>1. x.phase = "writing" /\ Becomes(k, S) BY <1>5 DEF WriteEvent
    <2>2. /\ x \in ConnState /\ x.phase = c.phase /\ x.rtimer = c.rtimer /\ x.wtimer = c.wtimer
          /\ x.delayed = c.delayed /\ x.wire = c.wire /\ x.out = c.out
          /\ x.requests = c.requests /\ x.keepalive = c.keepalive /\ x.length = c.length
          /\ x.method = c.method /\ x.version = c.version
        BY Zenon, <1>0 DEF ConnState
    <2> HIDE DEF x
    <2>3. Stream(x) = Stream(c) /\ (Whole(c) => Whole(x)) BY Zenon, <2>2 DEF Stream, Whole
    <2>4. ConnInv(x) BY Zenon, <1>0, <2>1, <2>2, <2>3 DEF ConnInv
    <2>5. Serving(x) /\ HeaderFirst(Stream(x), x.version) /\ Whole(x) /\ x.wtimer
        BY SMTT(30), <2>1, <2>4 DEF ConnInv, Serving
    <2>6. \A d \in S : ConnInv(d)
        <3>1. CASE x.delayed BY <2>4, <3>1, OrClosedInv
        <3>2. CASE ~x.delayed
            <4>1. 1 \in Nat OBVIOUS
            <4>2. \A d \in Writer(x, 1) : ConnInv(d) BY <2>1, <2>5, <4>1, WriterWrites
            <4> QED BY <3>2, <4>2
        <3> QED BY <3>1, <3>2
    <2> HIDE DEF S
    <2> QED BY <2>1, <2>6, BecomesInv
<1>6. CASE ClientCloses(k)
    <2> DEFINE x == [c EXCEPT !.eof = TRUE, !.error = TRUE]
    <2>1. Becomes(k, FinalizeRequest(x, "OK")) BY <1>6 DEF ClientCloses
    <2>2. x \in ConnState /\ x.error BY Zenon, <1>0 DEF ConnState
    <2> HIDE DEF x
    <2>3. \A d \in FinalizeRequest(x, "OK") : ConnInv(d) BY <2>2, RequestFinalized
    <2> QED BY <2>1, <2>3, BecomesInv
<1>7. CASE LingeringRead(k)
    <2> DEFINE S == OrClosed(c) \cup {Closed(c)}
    <2>1. Becomes(k, S) BY <1>7 DEF LingeringRead
    <2>2. \A d \in S : ConnInv(d) BY <1>0, OrClosedInv, ClosedInv
    <2> HIDE DEF S
    <2> QED BY <2>1, <2>2, BecomesInv
<1>8. CASE ReadTimeout(k)
    <2> DEFINE S == {Closed(c)}
    <2>1. Becomes(k, S) BY <1>8 DEF ReadTimeout
    <2>2. \A d \in S : ConnInv(d) BY <1>0, ClosedInv
    <2> HIDE DEF S
    <2> QED BY <2>1, <2>2, BecomesInv
<1>9. CASE WriteTimeout(k)
    <2> DEFINE x == [c EXCEPT !.delayed = FALSE, !.wtimer = FALSE]
               y == [x EXCEPT !.wtimer = TRUE]
               S == IF ~c.delayed THEN {Closed(x)}
                    ELSE IF ~x.ready THEN OrClosed(y)
                    ELSE Writer(x, 0)
    <2>1. c.phase = "writing" /\ Becomes(k, S) BY <1>9 DEF WriteTimeout
    <2>2. /\ x \in ConnState /\ x.phase = c.phase /\ x.rtimer = c.rtimer /\ x.wtimer = FALSE
          /\ x.delayed = FALSE /\ x.wire = c.wire /\ x.out = c.out
          /\ x.requests = c.requests /\ x.keepalive = c.keepalive /\ x.length = c.length
          /\ x.method = c.method /\ x.version = c.version
        BY Zenon, <1>0 DEF ConnState
    <2> HIDE DEF x
    <2>3. /\ y \in ConnState /\ y.phase = c.phase /\ y.rtimer = c.rtimer /\ y.wtimer = TRUE
          /\ y.delayed = FALSE /\ y.wire = c.wire /\ y.out = c.out
          /\ y.requests = c.requests /\ y.keepalive = c.keepalive /\ y.length = c.length
          /\ y.method = c.method /\ y.version = c.version
        BY Zenon, <2>2 DEF ConnState
    <2> HIDE DEF y
    <2>4. Stream(x) = Stream(c) /\ (Whole(c) => Whole(x)) BY Zenon, <2>2 DEF Stream, Whole
    <2>5. Stream(y) = Stream(c) /\ (Whole(c) => Whole(y)) BY Zenon, <2>3 DEF Stream, Whole
    <2>6. ConnInv(y) BY Zenon, <1>0, <2>1, <2>3, <2>5 DEF ConnInv
    <2>7. Serving(x) /\ HeaderFirst(Stream(x), x.version) /\ Whole(x)
        BY Zenon, <1>0, <2>1, <2>2, <2>4 DEF ConnInv, Serving
    <2>8. \A d \in S : ConnInv(d)
        <3>1. \A d \in OrClosed(y) : ConnInv(d) BY <2>6, OrClosedInv
        <3>2. 0 \in Nat OBVIOUS
        <3>3. \A d \in Writer(x, 0) : ConnInv(d) BY SMTT(30), <2>1, <2>2, <2>7, <3>2, WriterWrites
        <3>4. ConnInv(Closed(x)) BY SMTT(30), <2>2, ClosedInv
        <3> QED BY <3>1, <3>3, <3>4
    <2> HIDE DEF S
    <2> QED BY <2>1, <2>8, BecomesInv
<1> QED BY <1>1, <1>2, <1>3, <1>4, <1>5, <1>6, <1>7, <1>8, <1>9 DEF Event

\* ngx_worker_process_cycle of an exiting worker: without a timer no connection is left.
LEMMA CycleInv ==
    ASSUME HttpInv, Cycle
    PROVE  HttpInv'
<1>1. \A k \in Conns : conn'[k] = IF conn[k].phase = "keepalive" THEN Closed(conn[k]) ELSE conn[k]
    BY DEF Cycle, IdleClosed
<1>2. \A k \in Conns : ConnInv(conn[k]) /\ conn[k] \in ConnState BY SMTT(30) DEF HttpInv, ConnInv
<1>3. \A k \in Conns : ConnInv(conn'[k]) BY <1>1, <1>2, ClosedInv
<1>4. conn' \in [Conns -> ConnState]
    <2>1. \A k \in Conns : conn'[k] \in ConnState BY SMTT(30), <1>3 DEF ConnInv
    <2>2. conn' = [k \in Conns |-> IF conn[k].phase = "keepalive" THEN Closed(conn[k]) ELSE conn[k]]
        BY DEF Cycle, IdleClosed
    <2> QED BY <2>1, <2>2
<1>5. ASSUME worker' = "exited", NEW k \in Conns
      PROVE  conn'[k].phase = "closed"
    <2>1. ~conn'[k].rtimer /\ ~conn'[k].wtimer BY <1>5 DEF Cycle
    <2>2. conn[k].phase # "pipelined" BY DEF Cycle
    <2>3. Closed(conn[k]).phase = "closed" BY DEF Closed, Fresh
    <2>4. conn'[k].phase # "pipelined" BY <1>1, <2>2, <2>3
    <2>5. conn'[k].phase \in Phases BY <1>4 DEF ConnState
    <2> QED BY SMTT(30), <1>3, <2>1, <2>4, <2>5 DEF ConnInv, Phases
<1>6. worker' \in {"up", "exited"} /\ exiting' \in BOOLEAN BY DEF Cycle, HttpInv
<1>7. \A k \in Conns : ConnInv(conn[k])'
    BY Zenon, <1>3 DEF ConnInv, ConnState, Unsent, HeaderFirst, Whole, Stream
<1> QED BY <1>4, <1>5, <1>6, <1>7 DEF HttpInv

LEMMA NextHttp ==
    ASSUME Settings
    PROVE  HttpInv /\ [Next]_vars => HttpInv'
<1> SUFFICES ASSUME HttpInv, [Next]_vars PROVE HttpInv' OBVIOUS
<1>1. CASE Quit BY <1>1 DEF Quit, HttpInv
<1>2. CASE Cycle BY <1>2, CycleInv
<1>3. CASE \E k \in Conns : Event(k) BY <1>3, EventInv
<1>4. CASE UNCHANGED vars BY <1>4 DEF vars, HttpInv
<1> QED BY <1>1, <1>2, <1>3, <1>4 DEF Next

LEMMA HttpHolds ==
    ASSUME Settings
    PROVE  Spec => []HttpInv
<1>1. HttpInv /\ [Next]_vars => HttpInv' BY NextHttp
<1> QED BY <1>1, InitHttp, PTL DEF Spec
-----------------------------------------------------------------------------
(* ngx_http_finalize_request ends no request whose response is not all out: *)
(* a client that is kept alive, or lingered for, has the header and as many *)
(* bytes as Content-Length says, however the kernel cut the writes and      *)
(* whatever was postponed or delayed.                                       *)
THEOREM ResponsesComplete ==
    ASSUME Settings
    PROVE  Spec => []ResponseComplete
<1>1. HttpInv => ResponseComplete
    <2> SUFFICES ASSUME HttpInv, NEW k \in Conns,
                        conn[k].phase \in {"keepalive", "pipelined", "lingering"},
                        conn[k].method # "HEAD"
                 PROVE  /\ Len(conn[k].wire) = conn[k].length +
                              (IF conn[k].version = "0.9" THEN 0 ELSE 1)
                        /\ conn[k].out = <<>>
        BY DEF ResponseComplete
    <2>1. ConnInv(conn[k]) /\ conn[k].wire \in Seq(Alphabet) BY Zenon DEF HttpInv, ConnInv, ConnState
    <2>2. conn[k].out = <<>> /\ Whole(conn[k]) BY Zenon, <2>1 DEF ConnInv
    <2>3. conn[k].wire \o <<>> = conn[k].wire BY SMTT(30), <2>1, ConcatEmptySeq
    <2>4. Stream(conn[k]) = conn[k].wire BY <2>2, <2>3 DEF Stream
    <2> QED BY <2>2, <2>4 DEF Whole
<1> QED BY <1>1, HttpHolds, PTL

(* Every handler of ngx_http_request.c that makes a connection wait leaves  *)
(* it exactly the timer that ends the wait.                                 *)
THEOREM EveryWaitTimed ==
    ASSUME Settings
    PROVE  Spec => []WaitsAreTimed
<1>1. HttpInv => WaitsAreTimed BY SMTT(30) DEF HttpInv, ConnInv, WaitsAreTimed
<1> QED BY <1>1, HttpHolds, PTL

(* The worker that finds no timer in ngx_worker_process_cycle, and exits,   *)
(* drops no connection.                                                     *)
THEOREM GracefulExit ==
    ASSUME Settings
    PROVE  Spec => []ExitDropsNothing
<1>1. HttpInv => ExitDropsNothing BY DEF HttpInv, ExitDropsNothing
<1> QED BY <1>1, HttpHolds, PTL

(* However often the handlers and the error pages call                      *)
(* ngx_http_send_header, a client gets one header, ahead of all else.       *)
THEOREM OneHeader ==
    ASSUME Settings
    PROVE  Spec => []HeaderOnce
<1>1. HttpInv => HeaderOnce
    <2> SUFFICES ASSUME HttpInv, NEW k \in Conns, NEW i \in DOMAIN conn[k].wire
                 PROVE  (conn[k].wire[i] = "h") <=> (i = 1 /\ conn[k].version # "0.9")
        BY DEF HeaderOnce
    <2> DEFINE c == conn[k]
               w == c.wire
               o == c.out
    <2>1. ConnInv(c) /\ w \in Seq(Alphabet) /\ o \in Seq(Alphabet) /\ c.phase \in Phases
        BY SMTT(30) DEF HttpInv, ConnInv, ConnState
    <2>2. DOMAIN w = 1..Len(w) /\ Len(w) \in Nat /\ Len(o) \in Nat BY <2>1, LenProperties
    <2>3. w # <<>> BY <2>2
    <2>4. c.phase \in {"writing", "keepalive", "pipelined", "lingering"}
        BY SMTT(30), <2>1, <2>3 DEF ConnInv, Unsent, Phases
    <2>5. HeaderFirst(w \o o, c.version) BY SMTT(30), <2>1, <2>4 DEF ConnInv, Stream
    <2> HIDE DEF w, o
    <2>6. /\ Len(w \o o) = Len(w) + Len(o)
          /\ \A j \in 1..Len(w) + Len(o) : (w \o o)[j] = IF j <= Len(w) THEN w[j] ELSE o[j - Len(w)]
        BY <2>1, ConcatProperties
    <2>7. i \in 1..Len(w) BY <2>2 DEF w
    <2>8. i \in 1..Len(w \o o) /\ (w \o o)[i] = w[i] BY <2>2, <2>6, <2>7
    <2> QED BY <2>5, <2>8 DEF HeaderFirst, w
<1> QED BY <1>1, HttpHolds, PTL

(* No connection serves more requests than keepalive_requests.              *)
THEOREM RequestsBounded ==
    ASSUME Settings
    PROVE  Spec => []TypeOK
<1>1. HttpInv => TypeOK
    <2> SUFFICES ASSUME HttpInv PROVE TypeOK OBVIOUS
    <2>1. ASSUME NEW k \in Conns
          PROVE  LET c == conn[k] IN
                   /\ c.phase \in Phases /\ c.requests \in 0 .. MaxRequests
                   /\ DOMAIN c = DOMAIN Fresh
                   /\ c.out \in Seq({"h", "e", "b"}) /\ c.wire \in Seq({"h", "e", "b"})
        <3> DEFINE c == conn[k]
        <3>1. ConnInv(c) /\ c \in ConnState BY SMTT(30) DEF HttpInv, ConnInv
        <3> HIDE DEF c
        <3>2. c.phase \in Phases /\ c.out \in Seq(Alphabet) /\ c.wire \in Seq(Alphabet)
            BY <3>1 DEF ConnState
        <3>3. DOMAIN c = DOMAIN Fresh BY SMTT(30), <3>1 DEF ConnState, Fresh
        <3>4. c.requests \in 0 .. MaxRequests BY SMTT(30), <3>1, <3>2 DEF ConnInv, Phases, Settings
        <3> QED BY <3>2, <3>3, <3>4 DEF c, Alphabet
    <2> QED BY <2>1 DEF TypeOK, HttpInv
<1> QED BY <1>1, HttpHolds, PTL
=============================================================================
