------------------------------- MODULE Output -------------------------------
(***************************************************************************)
(* The way of a response to the socket: the output chain that copies and   *)
(* reads what the socket cannot take as it is (ngx_output_chain.c, the     *)
(* copy filter), the write filter that collects, limits and delays         *)
(* (ngx_http_write_filter_module.c) or the writer of upstream requests,    *)
(* and the send_chain of each system, with what the kernel may answer.     *)
(*                                                                         *)
(* A buf is a number, its place in S.buf; a chain is a sequence of bufs.   *)
(* The memory of a buf from pos to last is the sequence data, and byte o   *)
(* of file f is <<f, o>>.  Memory does not run out, files are not cut.     *)
(***************************************************************************)
EXTENDS Integers, Sequences, SequencesExt, FiniteSetsExt, TLC

CONSTANT Setups      \* settings, and the chains that the filters above pass down

VARIABLES setup, o, todo, given

vars == <<setup, o, todo, given>>

Pages == 2           \* ngx_pagesize, and directio_alignment

Memory(data) ==      \* an ngx_buf_t; last is last_buf and last_in_chain
    [mem |-> TRUE, data |-> data, in_file |-> FALSE, fpos |-> 0, flast |-> 0, fd |-> 0,
     directio |-> FALSE, tag |-> FALSE, size |-> 0, recycled |-> FALSE, flush |-> FALSE,
     last |-> FALSE, joined |-> FALSE]

Content(fd, from, n) == [k \in 1 .. n |-> <<fd, from + k - 1>>]

special(b) == (b.flush \/ b.last) /\ ~b.mem /\ ~b.in_file

buf_size(b) == IF b.mem THEN Len(b.data) ELSE b.flast - b.fpos

Bytes(b) == IF b.mem THEN b.data ELSE Content(b.fd, b.fpos, b.flast - b.fpos)

Cut(b, n) ==         \* the first n bytes were taken
    [b EXCEPT !.data = IF b.mem THEN SubSeq(@, n + 1, Len(@)) ELSE @,
              !.fpos = IF b.in_file THEN @ + n ELSE @, !.joined = FALSE]

(* What the functions work on: the output chain context (in, busy, free,   *)
(* cbuf, allocated, direct, aio), the chain out of the write filter, the   *)
(* connection (ready, delayed, error, sent, busy_sendfile), the bufs, and  *)
(* what has arrived.                                                       *)
Init ==
    /\ setup \in Setups
    /\ o = [buf |-> << >>, in |-> << >>, busy |-> << >>, free |-> << >>, cbuf |-> 0,
            allocated |-> 0, direct |-> FALSE, aio |-> "no", out |-> << >>, ready |-> TRUE,
            delayed |-> FALSE, error |-> FALSE, sent |-> 0, busy_sendfile |-> FALSE,
            wire |-> << >>, noise |-> setup.noise, time |-> 1, interrupted |-> FALSE]
    /\ todo = setup.chains
    /\ given = << >>

----------------------------------------------------------------------------
(* send_chain: what one call of the kernel is given.  G is the bytes       *)
(* gathered, the length sent so far, the count of iovecs, whether the last *)
(* buf was taken whole (so that an adjacent one is coalesced), and the     *)
(* place in the chain.                                                     *)
Limited(size, G, limit) == IF G.send + size > limit THEN limit - G.send ELSE size

Aligned(b, G, limit) ==
    LET size == b.flast - b.fpos
        cut == limit - G.send
        aligned == ((b.fpos + cut + Pages - 1) \div Pages) * Pages
    IN  IF G.send + size <= limit THEN size
        ELSE IF aligned <= b.flast THEN aligned - b.fpos ELSE cut

Take(G, b, size) ==
    [G EXCEPT !.bytes = @ \o SubSeq(Bytes(b), 1, size), !.send = @ + size, !.at = @ + 1,
              !.n = IF b.joined /\ G.whole THEN @ ELSE @ + 1, !.whole = size = buf_size(b)]

RECURSIVE Headers(_, _, _, _)
Headers(S, in, G, limit) ==
    IF G.at > Len(in) \/ G.send >= limit THEN G
    ELSE LET b == S.buf[in[G.at]]
         IN  CASE special(b) -> Headers(S, in, [G EXCEPT !.at = @ + 1], limit)
               [] ~special(b) /\ b.in_file -> G
               [] ~special(b) /\ ~b.in_file ->
                    IF G.n >= setup.iovs /\ ~(b.joined /\ G.whole) THEN G
                    ELSE Headers(S, in, Take(G, b, Limited(Len(b.data), G, limit)), limit)

(* Neighbouring parts of a file are one call; length is file_size.         *)
RECURSIVE FilePart(_, _, _, _)
FilePart(S, in, F, limit) ==
    LET b == S.buf[in[F.at]]
        size == Aligned(b, F, limit)
        H == [F EXCEPT !.length = @ + size, !.send = @ + size, !.at = @ + 1]
        next == S.buf[in[H.at]]
    IN  IF /\ H.at <= Len(in) /\ H.send < limit
           /\ next.in_file /\ next.fd = b.fd /\ next.fpos = b.fpos + size
        THEN FilePart(S, in, H, limit) ELSE H

WithFile(S, in, G, limit) ==
    LET first == S.buf[in[G.at]]
        F == FilePart(S, in, [at |-> G.at, send |-> G.send, length |-> 0], limit)
    IN  [G EXCEPT !.bytes = @ \o Content(first.fd, first.fpos, F.length), !.send = F.send,
                  !.at = F.at, !.file = TRUE, !.length = F.length]

AtFile(S, in, G, limit) ==
    G.at <= Len(in) /\ G.send < limit /\ S.buf[in[G.at]].in_file

TakeVec(G, b, size, coalesced) ==
    [G EXCEPT !.bytes = @ \o SubSeq(Bytes([b EXCEPT !.mem = ~b.in_file]), 1, size),
              !.send = @ + size, !.at = @ + 1, !.n = IF coalesced THEN @ ELSE @ + 1,
              !.whole = ~b.in_file /\ size = buf_size(b),
              !.fprev = IF b.in_file THEN <<b.fd, b.fpos + size>> ELSE <<0, 0>>]

RECURSIVE SendfileVec(_, _, _, _)
SendfileVec(S, in, G, limit) ==
    IF G.at > Len(in) \/ G.send >= limit THEN G
    ELSE LET b == S.buf[in[G.at]]
             coalesced == IF b.in_file THEN G.fprev = <<b.fd, b.fpos>> ELSE b.joined /\ G.whole
             size == IF b.in_file THEN Aligned(b, G, limit) ELSE Limited(Len(b.data), G, limit)
         IN  CASE special(b) -> SendfileVec(S, in, [G EXCEPT !.at = @ + 1], limit)
               [] ~special(b) /\ G.n >= setup.iovs /\ ~coalesced -> G
               [] OTHER -> SendfileVec(S, in, TakeVec(G, b, size, coalesced), limit)

(* ngx_linux_sendfile_chain: one call for the headers, one for a file.     *)
linux_gather(S, in, limit, H) ==
    IF H.n = 0 /\ AtFile(S, in, H, limit) THEN WithFile(S, in, H, limit) ELSE H

(* ngx_freebsd_sendfile_chain: headers, file and trailers in one call.     *)
Trailers(S, in, F, limit) == Headers(S, in, [F EXCEPT !.n = 0, !.whole = FALSE], limit)

freebsd_gather(S, in, limit, H) ==
    IF AtFile(S, in, H, limit) THEN Trailers(S, in, WithFile(S, in, H, limit), limit) ELSE H

(* ngx_darwin_sendfile_chain: trailers only without headers.               *)
darwin_gather(S, in, limit, H) ==
    IF H.n = 0 THEN freebsd_gather(S, in, limit, H)
    ELSE IF AtFile(S, in, H, limit) THEN WithFile(S, in, H, limit) ELSE H

AfterHeaders(S, in, limit, H) ==
    CASE setup.system = "writev" -> H
      [] setup.system = "linux" -> linux_gather(S, in, limit, H)
      [] setup.system = "freebsd" -> freebsd_gather(S, in, limit, H)
      [] setup.system = "darwin" -> darwin_gather(S, in, limit, H)

Gathered(S, in, send, limit) ==
    LET G == [bytes |-> << >>, send |-> send, n |-> 0, at |-> 1, whole |-> FALSE,
              file |-> FALSE, length |-> 0, fprev |-> <<0, 0>>]
    IN  IF setup.system = "solaris" THEN SendfileVec(S, in, G, limit)
        ELSE AfterHeaders(S, in, limit, Headers(S, in, G, limit))

(* After the call: sent bytes leave the bufs; the place where that ends.   *)
RECURSIVE Advanced(_, _, _, _)
Advanced(S, in, i, sent) ==
    IF i > Len(in) THEN [s |-> S, rest |-> << >>]
    ELSE LET b == S.buf[in[i]]
             n == Min({sent, buf_size(b)})
             T == [S EXCEPT !.buf[in[i]] = Cut(b, n)]
         IN  CASE special(b) -> Advanced(S, in, i + 1, sent)
               [] ~special(b) /\ sent = 0 -> [s |-> S, rest |-> SubSeq(in, i, Len(in))]
               [] ~special(b) /\ sent > 0 /\ sent >= buf_size(b) ->
                    Advanced(T, in, i + 1, sent - n)
               [] OTHER -> [s |-> T, rest |-> SubSeq(in, i, Len(in))]

(* What the kernel answers: all is taken, or a part; EAGAIN or EINTR with  *)
(* nothing taken, or for a file (but on Linux) with a part; an error.  A   *)
(* file is busy when SF_NODISKIO would have to read it.                    *)
Parts(n) == {0, 1, n - 1} \cap 0 .. n - 1

Plain(n) ==
    {[err |-> "ok", sent |-> k] : k \in Parts(n) \ {0}}
    \cup {[err |-> e, sent |-> 0] : e \in {"eagain", "eintr", "error"}}

Partial(n) ==
    {[err |-> e, sent |-> k] : e \in {"eagain", "eintr"}, k \in Parts(n)}
    \cup {[err |-> "eagain", sent |-> n]}
    \cup {[err |-> "error", sent |-> 0]}

Busy(n) == {[err |-> "ebusy", sent |-> k] : k \in Parts(n)}

Kernel(S, n, file) ==
    {[err |-> "ok", sent |-> n]}
    \cup (IF S.noise = 0 THEN {}
          ELSE IF setup.system = "solaris" \/ (setup.system \in {"freebsd", "darwin"} /\ file)
          THEN Partial(n) \cup (IF setup.aio_sendfile THEN Busy(n) ELSE {})
          ELSE Plain(n))

(* Bufs that an interrupted call has emptied are gathered again, so that a *)
(* call may be for no bytes: of a file that means all of it, and the loop  *)
(* around a vector of such bufs does not end.  The model stops there.      *)
Hollow(G, limit) ==
    \/ G.file /\ G.length = 0
    \/ G.bytes = << >> /\ G.send < limit

RECURSIVE send_pass(_, _, _, _)
AfterCall(S, in, limit, G, k, A) ==
    LET complete == k.sent = Len(G.bytes)
        T == [A.s EXCEPT !.sent = @ + k.sent, !.wire = @ \o SubSeq(G.bytes, 1, k.sent),
                         !.noise = IF k.err = "ok" /\ complete THEN @ ELSE @ - 1,
                         !.interrupted = @ \/ k.err = "eintr"]
    IN  CASE k.err = "error" \/ Hollow(G, limit) -> {[s |-> [T EXCEPT !.error = TRUE], rest |-> in]}
          [] k.err = "ebusy" -> {[s |-> [T EXCEPT !.busy_sendfile = TRUE], rest |-> A.rest]}
          [] k.err = "eagain" /\ setup.system = "freebsd" /\ G.file ->
               {[s |-> [T EXCEPT !.ready = FALSE], rest |-> A.rest]}
          [] k.err = "eintr" -> send_pass(T, in, G.send, limit)
          [] k.err \in {"ok", "eagain"} /\ ~(k.err = "eagain" /\ setup.system = "freebsd" /\ G.file) ->
               IF ~complete THEN {[s |-> [T EXCEPT !.ready = FALSE], rest |-> A.rest]}
               ELSE IF G.send >= limit \/ A.rest = << >> THEN {[s |-> T, rest |-> A.rest]}
               ELSE send_pass(T, A.rest, G.send, limit)

send_pass(S, in, send, limit) ==
    UNION {AfterCall(S, in, limit, G, k, Advanced(S, in, 1, k.sent)) :
              <<G, k>> \in UNION {{<<H, k>> : k \in Kernel(S, Len(H.bytes), H.file)} :
                                     H \in {Gathered(S, in, send, limit)}}}

send_chain(S, in, limit) ==
    IF ~S.ready THEN {[s |-> S, rest |-> in]}
    ELSE send_pass(S, in, 0, IF limit = 0 THEN 1000 ELSE limit)

----------------------------------------------------------------------------
(* ngx_http_write_filter: the results are states with what is returned.    *)
Sum(S, chain) == FoldLeft(LAMBDA acc, b : acc + buf_size(S.buf[b]), 0, chain)

Some(S, chain, marks) == \E i \in DOMAIN chain, f \in marks : S.buf[chain[i]][f]

RateLimit(S) ==
    IF setup.rate = 0 THEN setup.chunk
    ELSE LET left == setup.rate * S.time - (S.sent - setup.after)
         IN  IF setup.chunk # 0 /\ setup.chunk < left THEN setup.chunk ELSE left

(* After send_chain: a limited rate and a whole chunk delay the next.      *)
Written(S, limit, sent) ==
    LET counted(n) == IF setup.rate # 0 THEN Max({n - setup.after, 0}) ELSE n
        slow == setup.rate # 0 /\ counted(S.sent) > counted(sent)
        chunk == ~slow /\ limit # 0 /\ S.ready /\ S.sent - counted(sent) >= limit - 2 * Pages
    IN  [S EXCEPT !.delayed = @ \/ slow \/ chunk]

write_filter(S0, in) ==
    LET S == [S0 EXCEPT !.out = @ \o in]
        size == Sum(S, S.out)
        last == Some(S, S.out, {"last"})
        flush == Some(S, S.out, {"flush", "recycled"})
        limit == RateLimit(S)
    IN  CASE S0.error -> {[s |-> S0, rc |-> "error"]}
          [] ~S0.error /\ ~last /\ ~flush /\ in # << >> /\ size < setup.postpone ->
               {[s |-> S, rc |-> "ok"]}
          [] ~S0.error /\ (last \/ flush \/ in = << >> \/ size >= setup.postpone) ->
               CASE S.delayed -> {[s |-> S, rc |-> "again"]}
                 [] ~S.delayed /\ size = 0 ->
                      IF last \/ flush THEN {[s |-> [S EXCEPT !.out = << >>], rc |-> "ok"]}
                      ELSE {[s |-> S, rc |-> "error"]}
                 [] ~S.delayed /\ size > 0 /\ setup.rate # 0 /\ limit <= 0 ->
                      {[s |-> [S EXCEPT !.delayed = TRUE], rc |-> "again"]}
                 [] OTHER ->
                      {IF x.s.error THEN [s |-> x.s, rc |-> "error"]
                       ELSE [s |-> [Written(x.s, limit, S.sent) EXCEPT !.out = x.rest],
                             rc |-> IF x.rest = << >> THEN "ok" ELSE "again"] :
                          x \in send_chain(S, S.out, limit)}

(* ngx_chain_writer, for requests to upstream servers.                     *)
chain_writer(S0, in) ==
    LET S == [S0 EXCEPT !.out = @ \o in]
    IN  IF Sum(S, S.out) = 0 THEN {[s |-> S, rc |-> "ok"]}
        ELSE {IF x.s.error THEN [s |-> x.s, rc |-> "error"]
              ELSE [s |-> [x.s EXCEPT !.out = x.rest],
                    rc |-> IF x.rest = << >> THEN "ok" ELSE "again"] :
                 x \in send_chain(S, S.out, 0)}

output_filter(S, in) ==
    IF setup.upstream THEN chain_writer(S, in) ELSE write_filter(S, in)

----------------------------------------------------------------------------
(* ngx_output_chain_as_is; it also takes a buf out of its file when there  *)
(* is no sendfile.                                                         *)
Sendfile(b) == setup.sendfile /\ (setup.offset = 0 \/ ~b.in_file \/ b.fpos < setup.offset)

as_is(b) ==
    \/ special(b)
    \/ /\ ~(b.in_file /\ b.directio)
       /\ Sendfile(b) \/ b.mem
       /\ setup.in_memory => b.mem
       /\ setup.in_temp => b.size # 0 \/ ~b.mem

AsIs(b) == IF special(b) \/ Sendfile(b) THEN b ELSE [b EXCEPT !.in_file = FALSE]

(* ngx_output_chain_add_copy: new bufs, with a file split at the limit of  *)
(* sendfile offsets.                                                       *)
add_copy(chain) ==
    FlattenSeq([i \in DOMAIN chain |->
        LET b == chain[i]
        IN  IF setup.offset # 0 /\ b.in_file /\ b.fpos < setup.offset /\ b.flast > setup.offset
            THEN <<[b EXCEPT !.flast = setup.offset,
                              !.data = IF b.mem THEN SubSeq(@, 1, setup.offset - b.fpos) ELSE @],
                   [Cut(b, setup.offset - b.fpos) EXCEPT !.fpos = setup.offset]>>
            ELSE <<b>>])

Store(S, chain) == [S EXCEPT !.buf = @ \o chain]

(* ngx_output_chain_align_file_buf: a direct read that is short or starts  *)
(* within a sector gets a buf of its own, which is not reused.             *)
AlignSize(b) ==
    LET head == b.fpos % Pages
    IN  CASE ~b.directio -> 0
          [] b.directio /\ head = 0 -> IF buf_size(b) >= setup.size THEN 0 ELSE buf_size(b)
          [] b.directio /\ head # 0 -> Min({Pages - head, buf_size(b)})

Temp(size, tag, recycled) ==
    [Memory(<< >>) EXCEPT !.size = size, !.tag = tag, !.recycled = recycled]

(* ngx_output_chain_get_buf: a small last part gets a small buf.           *)
get_buf(S) ==
    LET b == S.buf[Head(S.in)]
        n == buf_size(b)
        small == b.last /\ (n < setup.size \/ (~S.direct /\ setup.num = 1
                                               /\ n < setup.size + setup.size \div 4))
        T == Store(S, <<Temp(IF small THEN n ELSE setup.size, TRUE, ~small)>>)
    IN  [T EXCEPT !.cbuf = Len(T.buf), !.allocated = @ + 1]

(* A buf to copy into, when there is one: otherwise none.                  *)
Obtained(S, out) ==
    LET b == S.buf[Head(S.in)]
        size == AlignSize(b)
        D == [S EXCEPT !.direct = @ \/ b.directio]
        own == Store(D, <<Temp(size, FALSE, FALSE)>>)
    IN  CASE S.cbuf # 0 -> S
          [] S.cbuf = 0 /\ size # 0 -> [own EXCEPT !.cbuf = Len(own.buf)]
          [] S.cbuf = 0 /\ size = 0 /\ S.free # << >> ->
               [D EXCEPT !.cbuf = Head(D.free), !.free = Tail(@)]
          [] S.cbuf = 0 /\ size = 0 /\ S.free = << >> ->
               IF out # << >> \/ S.allocated = setup.num THEN D ELSE get_buf(D)

(* ngx_output_chain_copy_buf: from memory or from the file, by aio if set  *)
(* up: then the read is started and its result taken when it is done.      *)
Copied(S) ==
    LET src == S.buf[Head(S.in)]
        dst == S.buf[S.cbuf]
        n == Min({buf_size(src), dst.size})
        keep == src.in_file /\ setup.sendfile /\ ~S.direct /\ Sendfile(src)
        end == n = buf_size(src)
    IN  [S EXCEPT !.buf[S.cbuf] =
                     [dst EXCEPT !.data = SubSeq(Bytes(src), 1, n), !.in_file = keep, !.fd = src.fd,
                                 !.fpos = src.fpos, !.flast = src.fpos + n,
                                 !.flush = IF end THEN src.flush ELSE @,
                                 !.last = IF end THEN src.last ELSE @],
                  !.buf[Head(S.in)] = Cut(src, n),
                  !.aio = "no"]

CopyStarts(S) == setup.aio /\ ~S.buf[Head(S.in)].mem /\ S.aio = "no"

(* The loop over ctx->in: what has been moved to out.                      *)
RECURSIVE Filled(_, _)
Filled(S, out) ==
    IF S.in = << >> THEN [s |-> S, out |-> out, started |-> FALSE]
    ELSE LET i == Head(S.in)
             b == S.buf[i]
             moved == [S EXCEPT !.in = Tail(@), !.buf[i] = AsIs(b)]
         IN  IF as_is(b) THEN Filled(moved, Append(out, i))
             ELSE LET T == Obtained(S, out)
                      C == Copied(T)
                      D == IF buf_size(C.buf[i]) = 0 THEN [C EXCEPT !.in = Tail(@)] ELSE C
                  IN  CASE T.cbuf = 0 -> [s |-> T, out |-> out, started |-> FALSE]
                        [] T.cbuf # 0 /\ CopyStarts(T) ->
                             [s |-> [T EXCEPT !.aio = "reading"], out |-> out, started |-> TRUE]
                        [] T.cbuf # 0 /\ ~CopyStarts(T) ->
                             Filled([D EXCEPT !.cbuf = 0], Append(out, T.cbuf))

(* ngx_chain_update_chains: the bufs at the head of busy that are empty    *)
(* are free to be filled again, if they are of the output chain.           *)
UpdatedUnsent(S) ==   \* mutant: the bufs are free once they were passed on
    [S EXCEPT !.busy = << >>, !.free = SelectSeq(S.busy, LAMBDA i : S.buf[i].tag) \o @]

RECURSIVE Updated(_)
Updated(S) ==
    IF S.busy = << >> \/ buf_size(S.buf[Head(S.busy)]) # 0 THEN S
    ELSE LET i == Head(S.busy)
         IN  Updated(IF S.buf[i].tag
                     THEN [S EXCEPT !.busy = Tail(@), !.free = <<i>> \o @,
                                    !.buf[i].data = << >>, !.buf[i].mem = TRUE]
                     ELSE [S EXCEPT !.busy = Tail(@)])

update_chains(S, out) == Updated([S EXCEPT !.busy = @ \o out])

(* ngx_output_chain; last is what the filter below returned.               *)
RECURSIVE output_loop(_, _)
Passed(S, F, last) ==
    CASE F.started /\ F.out = << >> -> {[s |-> F.s, rc |-> "again"]}
      [] ~F.started /\ F.out = << >> /\ last # "none" ->
           {[s |-> F.s, rc |-> IF F.s.in # << >> THEN "again" ELSE last]}
      [] F.out # << >> \/ (last = "none" /\ ~F.started) ->
           UNION {IF x.rc = "error" THEN {x}
                  ELSE output_loop(update_chains(x.s, F.out), x.rc) :
                     x \in output_filter(F.s, F.out)}

output_loop(S, last) ==
    IF S.aio = "reading" THEN {[s |-> S, rc |-> "again"]}
    ELSE Passed(S, Filled(S, << >>), last)

output_chain(S, chain) ==
    LET T == Store(S, add_copy(chain))
        new == [i \in 1 .. Len(T.buf) - Len(S.buf) |-> Len(S.buf) + i]
    IN  IF /\ S.in = << >> /\ S.busy = << >>
           /\ \/ chain = << >>
              \/ Len(chain) = 1 /\ Len(new) = 1 /\ as_is(chain[1])
        THEN output_filter([T EXCEPT !.buf = [i \in DOMAIN T.buf |->
                                IF i > Len(S.buf) THEN AsIs(T.buf[i]) ELSE T.buf[i]]], new)
        ELSE output_loop([T EXCEPT !.in = @ \o new], "none")

(* ngx_http_copy_filter: a busy sendfile starts a read of the file, which  *)
(* brings the page into memory.                                            *)
copy_filter(S, chain) ==
    {IF x.s.busy_sendfile
     THEN [x.s EXCEPT !.busy_sendfile = FALSE, !.aio = IF @ = "no" THEN "preload" ELSE @]
     ELSE x.s : x \in output_chain(S, chain)}

----------------------------------------------------------------------------
(* The handler of the response passes its next chain.                      *)
Pass ==
    /\ todo # << >> /\ ~o.error
    /\ o' \in copy_filter(o, Head(todo))
    /\ todo' = Tail(todo)
    /\ given' = given \o FlattenSeq([i \in DOMAIN Head(todo) |-> Bytes(Head(todo)[i])])
    /\ UNCHANGED setup

Waiting == o.in # << >> \/ o.out # << >>

(* The events that ngx_http_writer acts upon: the socket can be written,   *)
(* the delay is over, a read is done.  Time passes with the delay.         *)
Reading(S) == S.aio \in {"reading", "preload"}

Events ==
    {[o EXCEPT !.ready = TRUE] : x \in IF o.ready THEN {} ELSE {0}}
    \cup {[o EXCEPT !.delayed = FALSE, !.time = IF setup.rate = 0 THEN @ ELSE @ + 1] :
             x \in IF o.delayed THEN {0} ELSE {}}
    \cup {[o EXCEPT !.aio = IF @ = "reading" THEN "done" ELSE "no"] :
             x \in IF Reading(o) THEN {0} ELSE {}}

Writer ==
    /\ Waiting /\ ~o.error
    /\ \E S \in Events :
         IF S.delayed \/ Reading(S) \/ (o.delayed /\ ~S.ready) THEN o' = S
         ELSE o' \in copy_filter(S, << >>)
    /\ UNCHANGED <<setup, todo, given>>

Next == Pass \/ Writer

Spec == Init /\ [][Next]_vars

----------------------------------------------------------------------------
Pending(S) == FlattenSeq([i \in DOMAIN S.out |-> Bytes(S.buf[S.out[i]])])
              \o FlattenSeq([i \in DOMAIN S.in |-> Bytes(S.buf[S.in[i]])])

(* The client gets the response: what has arrived and what waits in the    *)
(* bufs is, in order and each byte once, what was passed down, however the *)
(* bufs are coalesced, copied, reused and sent in part; and what waits has *)
(* something to wait for (an event of the socket, a delay, a read, more    *)
(* output), or the output stops for good.  Left out is the second when a   *)
(* call was interrupted, after which send_chain counts the bytes it was    *)
(* given twice against its limit.                                          *)
OutputFlows ==
    ~o.error =>
      /\ o.wire \o Pending(o) = given
      /\ Waiting /\ ~o.interrupted =>
           \/ ~o.ready \/ o.delayed \/ Reading(o)
           \/ todo # << >> /\ o.in = << >> /\ Sum(o, o.out) < setup.postpone
=============================================================================
