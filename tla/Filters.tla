------------------------------ MODULE Filters ------------------------------
(***************************************************************************)
(* What the filters make of a response: ngx_http_not_modified_filter,       *)
(* ngx_http_headers_filter, ngx_http_gunzip_filter, ngx_http_gzip_filter,   *)
(* ngx_http_range_filter, ngx_http_chunked_filter and                       *)
(* ngx_http_header_filter, with the dates they read and write               *)
(* (ngx_http_parse_time.c, ngx_times.c).  A byte is <<kind, n, n, n>>; how   *)
(* zlib streams its input through buffers is left out.                      *)
(***************************************************************************)
EXTENDS Integers, Sequences, SequencesExt, FiniteSets

CONSTANTS Exchanges,  \* set of [rq, en, cf]: request, response of the handler, configuration
          OffWidth    \* bits of an off_t

VARIABLES ex,      \* the exchange
          rsp,      \* the fields of the request that filters change
          todo,   \* chains the handler has still to pass on
          head,   \* the header on the wire: << >> or << header >>
          wire    \* the body on the wire

vars == <<ex, rsp, todo, head, wire>>

rq == ex.rq
cf == ex.cf

\* Characters; digits are themselves, and Word is the text "gzip".
Nul == -1
Space == 32
Comma == 44
Dash == 45
Point == 46
Semi == 59
Equals == 61
Letter == 113
Word == 1000

Byte(k, n) == <<k, n, 0, 0>>
Bytes(k, n) == [i \in 1 .. n |-> Byte(k, i)]
Gzipped(s) == <<Byte("gz", 0)>> \o s \o <<Byte("end", 0)>>
Buf(s, last) == [data |-> s, mem |-> TRUE, file |-> FALSE, last |-> last, flush |-> FALSE,
                 sync |-> FALSE]
Special(b) == (b.flush \/ b.last \/ b.sync) /\ ~b.mem /\ ~b.file
Sum(s) == FoldLeft(LAMBDA n, i : n + i, 0, s)
-----------------------------------------------------------------------------
(* Dates.  A date is [fmt, year, mon, day, hour, min, sec], the form it is *)
(* written in and its fields, of which "rfc850" shows two digits of the    *)
(* year; "bad" is any text of another shape.                               *)

Leap(y) == y % 4 = 0 /\ (y % 100 /= 0 \/ y % 400 = 0)
mday == <<31, 28, 31, 30, 31, 30, 31, 31, 30, 31, 30, 31>>

\* ngx_http_parse_time(), with Gauss' formula; -1 is NGX_ERROR.  mon counts from 0.
ParseTime(d) ==
    LET two == d.year % 100
        year == IF d.fmt = "rfc850" THEN two + (IF two < 70 THEN 2000 ELSE 1900) ELSE d.year
        y == IF d.mon - 1 <= 0 THEN year - 1 ELSE year
        m == IF d.mon - 1 <= 0 THEN d.mon - 1 + 12 ELSE d.mon - 1
    IN CASE d.fmt = "bad" \/ d.hour > 23 \/ d.min > 59 \/ d.sec > 59 -> -1
         [] d.day = 29 /\ d.mon = 1 /\ ~Leap(year) -> -1
         [] ~(d.day = 29 /\ d.mon = 1) /\ d.day > mday[d.mon + 1] -> -1
         [] OTHER -> (365 * y + y \div 4 - (y \div 100) + y \div 400 + (367 * m) \div 12 - 30
                      + d.day - 1 - 719527 + 31 + 28) * 86400
                     + d.hour * 3600 + d.min * 60 + d.sec

\* ngx_gmtime()
Gmtime(t) ==
    LET days == (t \div 86400) - (31 + 28) + 719527
        y == ((days + 2) * 400) \div (365 * 400 + 100 - 4 + 1)
        Days(n) == 365 * n + n \div 4 - (n \div 100) + n \div 400
        yd == days - Days(y)
        yday == IF yd < 0 THEN 365 + (IF Leap(y) THEN 1 ELSE 0) + yd ELSE yd
        year == IF yd < 0 THEN y - 1 ELSE y
        mon == ((yday + 31) * 10) \div 306
    IN [sec |-> t % 60, min |-> (t % 3600) \div 60, hour |-> (t % 86400) \div 3600,
        day |-> yday - ((367 * mon) \div 12 - 30) + 1,
        mon |-> (IF yday >= 306 THEN mon - 10 ELSE mon + 2) - 1,
        year |-> IF yday >= 306 THEN year + 1 ELSE year,
        fmt |-> "rfc822"]

\* ngx_http_time() writes the fields; ngx_http_cookie_time() with two digits of the year
HttpTime(t) == Gmtime(t)
CookieTime(t) == LET d == Gmtime(t)
                 IN IF d.year > 2037 THEN d ELSE [d EXCEPT !.fmt = "rfc850"]

\* ngx_next_time(), where local time is universal time
NextTime(now, when) == LET next == now - (now % 86400) + when
                       IN IF next - now > 0 THEN next ELSE next + 86400

\* The calendar: seconds since 1970 of a civil date, by counting days.
Seconds(d) ==
    ((d.year - 1970) * 365 + Cardinality({y \in 1970 .. d.year - 1 : Leap(y)})
     + Sum([i \in 1 .. d.mon |-> mday[i]]) + (IF d.mon > 1 /\ Leap(d.year) THEN 1 ELSE 0)
     + d.day - 1) * 86400 + d.hour * 3600 + d.min * 60 + d.sec
\* The date is one of the calendar.
Real(d) == /\ d.fmt \notin {"bad", "none"} /\ d.hour < 24 /\ d.min < 60 /\ d.sec < 60
           /\ d.day \in 1 .. (IF d.mon = 1 /\ Leap(d.year) THEN 29 ELSE mday[d.mon + 1])
-----------------------------------------------------------------------------
(* ngx_http_not_modified_filter_module.c                                   *)

\* ngx_http_test_if_match(): the entity tag is an item of the list
TestIfMatch(R, list) ==
    LET Blank == {" ", ","}
        Begins(i) == \/ i = 1
                     \/ \E j \in 1 .. i - 1 : list[j] = "," /\ \A k \in j .. i - 1 : list[k] \in Blank
        Ends(i) == \/ \A k \in i + 1 .. Len(list) : list[k] = " "
                   \/ \E j \in i + 1 .. Len(list) :
                          list[j] = "," /\ \A k \in i + 1 .. j - 1 : list[k] = " "
    IN \/ list = <<"*">>
       \/ R.etag /= "" /\ \E i \in 1 .. Len(list) : list[i] = R.etag /\ Begins(i) /\ Ends(i)

\* ngx_http_test_if_modified()
TestIfModified(R) ==
    LET ims == ParseTime(rq.ims)
    IN \/ cf.ims = "off"
       \/ ims /= R.lm /\ (cf.ims = "exact" \/ ims < R.lm)

ClearContentLength(R) == [R EXCEPT !.clen = -1, !.clenHeader = FALSE]
ClearAcceptRanges(R) == [R EXCEPT !.allowRanges = FALSE, !.acceptRanges = FALSE]
ClearEtag(R) == [R EXCEPT !.etag = ""]

\* ngx_http_not_modified_header_filter()
NotModified(R) ==
    LET has(d) == d.fmt /= "none"
    IN CASE R.status /= 200 \/ R.lm = -1 -> R
         [] R.status = 200 /\ R.lm /= -1 ->
            (CASE has(rq.iums) /\ ParseTime(rq.iums) < R.lm -> [R EXCEPT !.rc = 412]
               [] ~(has(rq.iums) /\ ParseTime(rq.iums) < R.lm) /\ rq.im /= << >>
                  /\ ~TestIfMatch(R, rq.im) -> [R EXCEPT !.rc = 412]
               [] OTHER ->
                  IF \/ ~has(rq.ims) /\ rq.inm = << >>
                     \/ has(rq.ims) /\ TestIfModified(R)
                     \/ rq.inm /= << >> /\ ~TestIfMatch(R, rq.inm)
                  THEN R
                  ELSE [ClearAcceptRanges(ClearContentLength(R)) EXCEPT
                           !.status = 304, !.statusLine = FALSE, !.ctype = "", !.encoding = ""])
-----------------------------------------------------------------------------
(* ngx_http_headers_filter_module.c                                        *)

\* the value of Cache-Control and Expires; << name, seconds >>
SetCache(R, expires, value) ==
    [R EXCEPT !.expires = expires,
              !.cc = IF R.cc = << >> THEN <<[value |-> value, live |-> TRUE]>>
                     ELSE [i \in DOMAIN R.cc |->
                             IF i = 1 THEN [R.cc[1] EXCEPT !.value = value]
                             ELSE [R.cc[i] EXCEPT !.live = FALSE]]]

\* ngx_http_set_expires()
SetExpires(R) ==
    LET Timed(expires, age) ==
            SetCache(R, expires, IF cf.expires.time < 0 \/ age < 0 THEN <<"no-cache", 0>>
                                 ELSE <<"max-age", age>>)
    IN CASE cf.expires.mode = "epoch" -> SetCache(R, 1, <<"no-cache", 0>>)
         [] cf.expires.mode = "max" -> SetCache(R, 2145916555, <<"max-age", 315360000>>)
         [] cf.expires.mode \in {"access", "modified"} /\ cf.expires.time = 0 ->
            SetCache(R, cf.now, <<"max-age", 0>>)
         [] cf.expires.mode = "daily" ->
            LET next == NextTime(cf.now, cf.expires.time) IN Timed(next, next - cf.now)
         [] OTHER -> IF cf.expires.mode = "access" \/ R.lm = -1
                     THEN Timed(cf.now + cf.expires.time, cf.expires.time)
                     ELSE Timed(R.lm + cf.expires.time, R.lm + cf.expires.time - cf.now)

\* ngx_http_add_header(), ngx_http_add_cache_control(), ngx_http_set_last_modified() and
\* ngx_http_set_response_header(): an empty value takes a header away
AddHeader(R, h) ==
    CASE h.key = "etag" -> [R EXCEPT !.etag = h.value]
      [] h.key = "last-modified" ->
         [R EXCEPT !.lm = ParseTime(h.date),
                   !.lmHeader = IF h.date.fmt = "none" THEN << >> ELSE <<h.date>>]
      [] h.key = "cache-control" -> [R EXCEPT !.cc = Append(@, [value |-> <<h.value, 0>>, live |-> TRUE])]
      [] OTHER -> IF h.value = "" THEN R ELSE [R EXCEPT !.extra = Append(@, h.key)]

\* ngx_http_headers_filter()
HeadersFilter(R) ==
    IF \/ cf.expires.mode = "off" /\ cf.adds = << >>
       \/ R.status \notin {200, 201, 204, 206, 301, 302, 303, 304, 307}
    THEN R
    ELSE FoldLeft(AddHeader, IF cf.expires.mode = "off" THEN R ELSE SetExpires(R), cf.adds)
-----------------------------------------------------------------------------
(* ngx_http_gzip_ok() and the header filters of gunzip and gzip.           *)

\* ngx_http_gzip_quantity(), in hundredths; the digits after the point are added up
Quantity(s) ==
    LET Digit(ch) == ch \in 0 .. 9
        stops == {i \in 3 .. Len(s) : s[i] \in {Comma, Space}}
        last == IF stops = {} THEN Len(s) ELSE (CHOOSE i \in stops : \A j \in stops : i <= j) - 1
        q == s[1] * 100 + Sum([i \in 1 .. last - 2 |-> s[i + 2]])
    IN CASE s[1] \notin {0, 1} -> 0
         [] s[1] \in {0, 1} /\ (Len(s) = 1 \/ s[2] \in {Comma, Space}) -> s[1] * 100
         [] OTHER -> IF s[2] /= Point \/ (\E i \in 3 .. last : ~Digit(s[i])) \/ q > 100 \/ last - 2 > 3
                     THEN 0 ELSE q

\* ngx_http_gzip_accept_encoding()
AcceptEncoding(ae) ==
    LET found == {i \in 1 .. Len(ae) : ae[i] = Word /\ (i = 1 \/ ae[i - 1] \in {Comma, Space})}
        First(i) == LET s == {j \in i .. Len(ae) : ae[j] /= Space}
                    IN IF s = {} THEN Len(ae) + 1 ELSE CHOOSE j \in s : \A k \in s : j <= k
        Param(p) == \* after ';'
            CASE p > Len(ae) -> TRUE
              [] p <= Len(ae) -> /\ ae[p] = Letter /\ p + 2 <= Len(ae) /\ ae[p + 1] = Equals
                                 /\ Quantity(SubSeq(ae, p + 2, Len(ae))) /= 0
        After(p) == \/ p > Len(ae)
                    \/ p <= Len(ae) /\ ae[p] = Comma
                    \/ p <= Len(ae) /\ ae[p] = Semi /\ Param(First(p + 1))
    IN found /= {} /\ After(First((CHOOSE i \in found : \A j \in found : i <= j) + 1))

\* ngx_http_gzip_ok()
GzipOk(R) ==
    LET p == cf.proxied
        OneOf(name) == name \in p /\ \E i \in DOMAIN R.cc : R.cc[i].value[1] = name
    IN /\ rq.ae /= << >>
       /\ IsPrefix(<<Word, Comma>>, rq.ae) \/ AcceptEncoding(rq.ae)
       /\ rq.version >= cf.gzipVersion
       /\ \/ ~rq.via
          \/ /\ "off" \notin p
             /\ \/ "any" \in p
                \/ rq.auth /\ "auth" \in p
                \/ R.expires /= -1 /\ "expired" \in p /\ R.expires < cf.now
                \/ R.expires = -1 /\ R.cc /= << >> /\ (OneOf("no-cache") \/ OneOf("no-store") \/ OneOf("private"))
                \/ /\ R.expires = -1 /\ R.cc = << >>
                   /\ ~("no_last_modified" \in p /\ R.lmHeader /= << >>)
                   /\ ~("no_etag" \in p /\ R.etag /= "")

\* r->gzip_tested and r->gzip_ok remember the first test
Tested(R) == IF R.tested THEN R ELSE [R EXCEPT !.tested = TRUE, !.ok = GzipOk(R)]

Recoded(R, encoding, coder) ==
    [ClearEtag(ClearAcceptRanges(ClearContentLength(R))) EXCEPT !.encoding = encoding, !.coder = coder]

\* ngx_http_gunzip_header_filter()
GunzipHeader(R) ==
    LET Of(T) == IF T.ok THEN T ELSE Recoded(T, "", "gunzip")
    IN IF ~cf.gunzip \/ R.encoding /= "gzip" THEN R ELSE Of(Tested([R EXCEPT !.vary = TRUE]))

\* ngx_http_gzip_header_filter() with ngx_http_test_content_type()
GzipHeaderTagged(R) ==
    IF \/ ~cf.gzip \/ R.status \notin {200, 403, 404} \/ R.encoding /= ""
       \/ (R.clen /= -1 /\ R.clen < cf.minLength) \/ R.ctype \notin cf.types \/ ~GzipOk(R)
    THEN R ELSE [Recoded(R, "gzip", "gzip") EXCEPT !.etag = R.etag]
GzipHeader(R) ==
    LET Of(T) == IF T.ok THEN Recoded(T, "gzip", "gzip") ELSE T
    IN IF \/ ~cf.gzip \/ R.status \notin {200, 403, 404} \/ R.encoding /= ""
          \/ R.clen /= -1 /\ R.clen < cf.minLength
          \/ R.ctype = "" \/ R.ctype \notin cf.types
       THEN R
       ELSE Of(Tested([R EXCEPT !.vary = TRUE]))
-----------------------------------------------------------------------------
(* ngx_http_range_filter_module.c                                          *)

\* The value an off_t has after arithmetic that gives v; nothing checks that it fits.
MaxOff == 2 ^ (OffWidth - 1) - 1
Off(v) == ((v + MaxOff + 1) % 2 ^ OffWidth) - MaxOff - 1

\* One turn of the loop of ngx_http_range_parse() from p; digits are numbers.  The result
\* is the range, or "416"; next is the place after it.
ParseOne(s, p0, n) ==
    LET Ch(p) == IF p > Len(s) THEN Nul ELSE s[p]
        Skip(p, set) == LET e == {j \in p .. Len(s) : s[j] \notin set}
                        IN IF e = {} THEN Len(s) + 1 ELSE CHOOSE j \in e : \A k \in e : j <= k
        Number(p, q) == FoldLeft(LAMBDA v, ch : Off(v * 10 + ch), 0, SubSeq(s, p, q - 1))
        Digits == 0 .. 9
        Bad == [rc |-> "416", start |-> 0, end |-> 0, next |-> 0]
        Found(start, end, p) == [rc |-> "ok", start |-> start, end |-> end, next |-> p]
        Cut(end) == IF end >= n THEN n ELSE end + 1
        End(start, suffix, p) ==
            LET q == Skip(p, Digits)
                e == Skip(q, {Space})
                v == Number(p, q)
            IN IF q = p \/ Ch(e) \notin {Comma, Nul} THEN Bad
               ELSE IF suffix THEN Found(Off(n - v), Cut(n - 1), e) ELSE Found(start, Cut(v), e)
        Start(p) ==
            LET q == Skip(p, Digits)
                dash == Skip(q, {Space})
                e == Skip(dash + 1, {Space})
            IN CASE q = p \/ Ch(dash) /= Dash -> Bad
                 [] q /= p /\ Ch(dash) = Dash /\ Ch(e) \in {Comma, Nul} -> Found(Number(p, q), n, e)
                 [] OTHER -> End(Number(p, q), FALSE, e)
        From(p) == IF Ch(p) = Dash THEN End(0, TRUE, p + 1) ELSE Start(p)
    IN From(Skip(p0, {Space}))

\* ngx_http_range_parse()
RangeParse(s, n, max) ==
    LET Step(S, one) ==
            CASE one.rc = "416" -> [S EXCEPT !.rc = "416"]
              [] one.rc = "ok" /\ one.start >= one.end -> [S EXCEPT !.p = one.next]
              [] OTHER -> [S EXCEPT !.ranges = Append(@, [start |-> one.start, end |-> one.end]),
                                    !.size = Off(@ + one.end - one.start), !.p = one.next,
                                    !.rc = IF Len(S.ranges) >= max THEN "declined" ELSE "go"]
        Turn(S, i) == IF S.rc /= "go" \/ S.over THEN S
                      ELSE LET T == Step(S, ParseOne(s, S.p, n))
                           IN IF T.rc /= "go" THEN T
                              ELSE IF T.p > Len(s) THEN [T EXCEPT !.over = TRUE]
                              ELSE [T EXCEPT !.p = @ + 1]
        End(S) == IF S.rc /= "go" THEN S
                  ELSE [S EXCEPT !.rc = IF S.ranges = << >> THEN "416"
                                        ELSE IF S.size > n THEN "declined" ELSE "ok"]
    IN End(FoldLeft(Turn, [rc |-> "go", over |-> FALSE, p |-> 1, size |-> 0, ranges |-> << >>],
                    [i \in 1 .. Len(s) + 1 |-> i]))

\* ngx_http_range_singlepart_header(): << start, last, of >> is the Content-Range
SinglepartHeader(R, one) ==
    [R EXCEPT !.contentRange = <<one.start, one.end - 1, R.clen>>, !.clen = one.end - one.start,
              !.clenHeader = FALSE]

\* ngx_http_range_multipart_header(): a boundary header, a content range and the last
\* boundary count as one byte each
MultipartHeader(R) ==
    [R EXCEPT !.parts = [i \in DOMAIN R.ranges |-> <<R.ranges[i].start, R.ranges[i].end - 1, R.clen>>],
              !.ctype = "multipart/byteranges", !.clenHeader = FALSE,
              !.clen = 1 + Sum([i \in DOMAIN R.ranges |-> 2 + R.ranges[i].end - R.ranges[i].start])]

\* If-Range of ngx_http_range_header_filter()
IfRange(R) ==
    CASE rq.ifRange.kind = "none" -> TRUE
      [] rq.ifRange.kind = "etag" -> R.etag /= "" /\ R.etag = rq.ifRange.etag
      [] OTHER -> R.lm /= -1 /\ ParseTime(rq.ifRange.date) = R.lm

\* ngx_http_range_header_filter(); 416 is returned to the handler
RangeHeader(R) ==
    LET Next == [R EXCEPT !.acceptRanges = TRUE]
        Of(P) == CASE P.rc = "416" -> [ClearContentLength(R) EXCEPT !.status = 416, !.rc = 416,
                                            !.contentRange = <<-1, -1, R.clen>>]
                   [] P.rc = "declined" -> Next
                   [] P.rc = "ok" ->
                      LET T == [R EXCEPT !.status = 206, !.statusLine = FALSE, !.ranges = P.ranges]
                      IN IF Len(P.ranges) = 1 THEN SinglepartHeader(T, P.ranges[1])
                         ELSE MultipartHeader(T)
    IN CASE rq.version < 10 \/ R.status /= 200 \/ R.clen = -1 \/ ~R.allowRanges \/ cf.maxRanges = 0 -> R
         [] OTHER -> IF rq.range = << >> \/ ~IfRange(R) THEN Next
                     ELSE Of(RangeParse(rq.range, R.clen, cf.maxRanges))

SinglepartBody(R, in) ==
    LET one == R.ranges[1]
        Step(S, b) ==
            LET start == S.offset
                last == start + Len(b.data)
                from == IF one.start > start THEN one.start - start ELSE 0
                to == IF one.end <= last THEN one.end - start ELSE Len(b.data)
                T == [S EXCEPT !.offset = last]
            IN CASE S.over -> S
                 [] ~S.over /\ Special(b) -> [T EXCEPT !.out = @ \o S.skipped \o <<b>>, !.skipped = << >>]
                 [] ~S.over /\ ~Special(b) /\ (one.end <= start \/ one.start >= last) ->
                    [T EXCEPT !.skipped = IF S.out = << >> THEN << >>
                                          ELSE Append(@, [b EXCEPT !.data = << >>, !.sync = TRUE])]
                 [] OTHER -> [T EXCEPT !.out = Append(@, [b EXCEPT !.data = SubSeq(@, from + 1, to),
                                                                   !.last = @ \/ one.end <= last]),
                                       !.skipped = << >>, !.over = one.end <= last]
        Of(S) == [r |-> [R EXCEPT !.offset = S.offset], rc |-> "ok",
                  out |-> IF S.out = << >> THEN << >> ELSE <<S.out \o S.skipped>>]
    IN Of(FoldLeft(Step, [offset |-> R.offset, out |-> << >>, skipped |-> << >>, over |-> FALSE], in))

\* ngx_http_range_test_overlapped() and ngx_http_range_multipart_body()
MultipartBody(R, in) ==
    LET b == in[1]
        overlapped == R.offset /= 0 \/ (~b.last /\ \E i \in DOMAIN R.ranges : Len(b.data) < R.ranges[i].end)
        Part(i) == <<Byte("boundary", 0), <<"range", R.parts[i][1], R.parts[i][2], R.parts[i][3]>> >>
                   \o SubSeq(b.data, R.ranges[i].start + 1, R.ranges[i].end)
        all == FlattenSeq([i \in DOMAIN R.ranges |-> Part(i)]) \o <<Byte("boundaries", 0)>>
    IN IF overlapped THEN [r |-> R, rc |-> "error", out |-> << >>]
       ELSE [r |-> [R EXCEPT !.offset = Len(b.data)], rc |-> "ok", out |-> << <<Buf(all, TRUE)>> >>]

\* ngx_http_range_body_filter(); out is the chain passed on, if any
RangeBody(R, in) ==
    CASE R.ranges = << >> -> [r |-> R, rc |-> "ok", out |-> <<in>>]
      [] Len(R.ranges) = 1 -> SinglepartBody(R, in)
      [] OTHER -> IF Special(in[1]) THEN [r |-> R, rc |-> "ok", out |-> <<in>>] ELSE MultipartBody(R, in)
-----------------------------------------------------------------------------
(* ngx_http_chunked_filter_module.c                                        *)

\* ngx_http_chunked_header_filter()
ChunkedHeader(R) ==
    CASE R.status \in {304, 204} \/ R.status < 200 \/ rq.method = "head" \/ R.clen /= -1 -> R
      [] OTHER -> IF rq.version < 11 \/ ~cf.chunked THEN [R EXCEPT !.keepalive = FALSE]
                  ELSE [R EXCEPT !.chunked = TRUE]

ChunkedBody(R, in) ==
    LET size == Sum([i \in DOMAIN in |-> Len(in[i].data)])
        kept == SelectSeq(in, LAMBDA b : b.flush \/ b.sync \/ b.mem \/ b.file)
        crlf == IF size > 0 THEN <<Byte("crlf", 0)>> ELSE << >>
    IN IF ~R.chunked \/ R.headerOnly THEN in
       ELSE (IF size > 0 THEN <<Buf(<<Byte("size", size)>>, FALSE)>> ELSE << >>)
            \o [i \in DOMAIN kept |-> [kept[i] EXCEPT !.last = FALSE]]
            \o IF Last(in).last THEN <<Buf(crlf \o <<Byte("zero", 0)>>, TRUE)>>
               ELSE IF size > 0 THEN <<Buf(crlf, FALSE)>> ELSE << >>
-----------------------------------------------------------------------------
(* ngx_http_header_filter()                                                *)

\* A Location that begins with '/' is completed with the server the client reached.
Redirected(R) ==
    IF ~R.location.local THEN R.location
    ELSE [R.location EXCEPT !.local = FALSE,
             !.host = IF cf.nameInRedirect THEN "name" ELSE IF rq.host /= "" THEN rq.host ELSE "addr",
             !.port = IF ~cf.portInRedirect \/ cf.port = (IF cf.ssl THEN 443 ELSE 80) THEN 0 ELSE cf.port]

\* What becomes of the fields before the header is written.
Adjusted(R) ==
    LET noContent == ~R.statusLine /\ R.status = 204
        dated == R.status \in {200, 206, 304} /\ ~noContent
    IN [R EXCEPT !.headerOnly = \/ @ \/ rq.method = "head" \/ noContent
                                \/ ~R.statusLine /\ R.status = 304,
                 !.ctype = IF noContent THEN "" ELSE @,
                 !.clen = IF noContent THEN -1 ELSE @,
                 !.lm = IF dated THEN @ ELSE -1,
                 !.vary = @ /\ cf.gzipVary]

HeaderOf(R) ==
    [status |-> R.status, ctype |-> R.ctype, chunked |-> R.chunked, keepalive |-> R.keepalive,
     length |-> R.clen, encoding |-> R.encoding, etag |-> R.etag,
     lm |-> IF R.lmHeader /= << >> THEN R.lmHeader ELSE IF R.lm = -1 THEN << >> ELSE <<HttpTime(R.lm)>>,
     acceptRanges |-> R.acceptRanges, contentRange |-> R.contentRange, expires |-> R.expires,
     cc |-> SelectSeq(R.cc, LAMBDA h : h.live), location |-> Redirected(R), vary |-> R.vary,
     extra |-> R.extra]

\* A request of HTTP/0.9 gets no header.
HeaderFilter(R) ==
    LET T == Adjusted(R)
    IN CASE R.rc /= 0 \/ R.sent -> [r |-> R, head |-> head]
         [] R.rc = 0 /\ ~R.sent -> IF rq.version < 10 THEN [r |-> [R EXCEPT !.sent = TRUE], head |-> head]
                                   ELSE [r |-> [T EXCEPT !.sent = TRUE], head |-> <<HeaderOf(T)>>]
-----------------------------------------------------------------------------
\* ngx_http_send_header(): the filters in their order; 412 stops at the first of them
SendHeader(R) ==
    LET Rest(T) == IF T.rc /= 0 THEN [r |-> T, head |-> head]
                   ELSE HeaderFilter(ChunkedHeader(RangeHeader(GzipHeader(GunzipHeader(HeadersFilter(T))))))
    IN Rest(NotModified(R))

\* The coders keep what they are given until its end.
Coder(R, in) ==
    LET given == R.held \o FlattenSeq([i \in DOMAIN in |-> in[i].data])
        bare == SelectSeq(given, LAMBDA b : b[1] = "byte")
    IN CASE R.coder = "none" -> [r |-> R, out |-> <<in>>]
         [] R.coder /= "none" /\ ~Last(in).last -> [r |-> [R EXCEPT !.held = given], out |-> << >>]
         [] OTHER -> [r |-> [R EXCEPT !.held = << >>],
                      out |-> << <<Buf(IF R.coder = "gunzip" THEN bare ELSE Gzipped(given), TRUE)>> >>]

\* ngx_http_output_filter() for one chain
Output(R, in) ==
    LET Write(T, out) == [r |-> T, rc |-> "ok",
                          wire |-> IF out = << >> THEN wire
                                   ELSE wire \o FlattenSeq([i \in DOMAIN out[1] |-> out[1][i].data])]
        Chunked(C) == Write(C.r, IF C.out = << >> THEN << >> ELSE <<ChunkedBody(C.r, C.out[1])>>)
        Code(B) == IF B.rc = "error" \/ B.out = << >> THEN [r |-> B.r, rc |-> B.rc, wire |-> wire]
                   ELSE Chunked(Coder(B.r, B.out[1]))
    IN Code(RangeBody(R, in))

\* The response as the handler leaves it.
NewResponse(en) ==
    [status |-> en.status, statusLine |-> en.statusLine, clen |-> en.clen, clenHeader |-> en.clenHeader,
     ctype |-> en.ctype, lm |-> IF en.lm.fmt = "none" THEN -1 ELSE Seconds(en.lm),
     lmHeader |-> IF en.statusLine /\ en.lm.fmt /= "none" THEN <<en.lm>> ELSE << >>,
     etag |-> en.etag, encoding |-> en.encoding, acceptRanges |-> FALSE, contentRange |-> << >>,
     expires |-> -1, cc |-> en.cc, location |-> en.location, extra |-> << >>,
     allowRanges |-> en.allowRanges, vary |-> FALSE, tested |-> FALSE, ok |-> FALSE,
     keepalive |-> ex.rq.keepalive, chunked |-> FALSE, headerOnly |-> FALSE, sent |-> FALSE, rc |-> 0,
     ranges |-> << >>, parts |-> << >>, offset |-> 0, coder |-> "none", held |-> << >>]

\* ngx_http_special_response_handler() for what a filter answers itself, with
\* ngx_http_clean_header() for 412
SpecialPage == [status |-> 0, length |-> 2]
SpecialResponse(R) ==
    LET clean == [R EXCEPT !.cc = << >>, !.expires = -1, !.extra = << >>, !.encoding = "", !.contentRange = << >>]
    IN [(IF R.rc = 412 THEN clean ELSE R) EXCEPT
            !.status = R.rc, !.statusLine = FALSE, !.rc = 0, !.clen = SpecialPage.length,
            !.clenHeader = FALSE, !.ctype = "text/html", !.lm = -1, !.lmHeader = << >>, !.etag = "",
            !.allowRanges = FALSE, !.acceptRanges = FALSE]

Init == /\ ex \in Exchanges
        /\ rsp = NewResponse(ex.en)
        /\ todo = ex.en.chains
        /\ head = << >>
        /\ wire = << >>

\* The handler sends the header; its own response is given up for an error page.
Header == /\ ~rsp.sent
          /\ \E S \in {SendHeader(rsp)} :
                /\ rsp' = IF S.r.rc /= 0 THEN SpecialResponse(S.r) ELSE S.r
                /\ head' = S.head
                /\ todo' = CASE S.r.rc /= 0 -> << <<Buf(Bytes("page", SpecialPage.length), TRUE)>> >>
                             [] S.r.rc = 0 /\ S.r.headerOnly -> << >>
                             [] OTHER -> todo
          /\ UNCHANGED <<ex, wire>>

\* The handler passes on a chain.
Body == /\ rsp.sent /\ todo /= << >> /\ rsp.rc = 0
        /\ \E S \in {Output(rsp, Head(todo))} :
              /\ rsp' = IF S.rc = "error" THEN [S.r EXCEPT !.rc = -1] ELSE S.r
              /\ wire' = S.wire
        /\ todo' = Tail(todo)
        /\ UNCHANGED <<ex, head>>

Next == Header \/ Body
Spec == Init /\ [][Next]_vars
-----------------------------------------------------------------------------
(* What the client reads.                                                  *)

Over == rsp.sent /\ todo = << >> /\ rsp.rc = 0

\* The chunks of a body; << >> if it is no sequence of chunks up to its end.
Dechunk(s) ==
    LET Step(S, b) ==
            CASE S.st = "size" /\ b[1] = "size" -> [S EXCEPT !.st = "data", !.left = b[2]]
              [] S.st = "size" /\ b[1] = "zero" -> [S EXCEPT !.st = "end"]
              [] S.st = "data" /\ S.left > 0 -> [S EXCEPT !.left = @ - 1, !.data = Append(@, b)]
              [] S.st = "data" /\ S.left = 0 /\ b[1] = "crlf" -> [S EXCEPT !.st = "size"]
              [] OTHER -> [S EXCEPT !.st = "bad"]
        Of(S) == IF S.st = "end" THEN <<S.data>> ELSE << >>
    IN Of(FoldLeft(Step, [st |-> "size", left |-> 0, data |-> << >>], s))

\* The body a client takes from the connection, and whether it knows where it ends.
Framed(h) ==
    CASE rq.method = "head" \/ h.status \in {204, 304} -> <<wire = << >>, << >> >>
      [] h.chunked -> <<Dechunk(wire) /= << >>, IF Dechunk(wire) = << >> THEN << >> ELSE Dechunk(wire)[1]>>
      [] h.length /= -1 /\ ~h.chunked -> <<Len(wire) = h.length, wire>>
      [] OTHER -> <<~h.keepalive, wire>>

\* The entity as the handler has it, and without its coding.
Entity == FlattenSeq([i \in DOMAIN ex.en.chains |->
             FlattenSeq([j \in DOMAIN ex.en.chains[i] |-> ex.en.chains[i][j].data])])
Plain(s) == SelectSeq(s, LAMBDA b : b[1] = "byte")

\* The ranges the client asked for that the entity has.
Asked(n) ==
    LET Of(a) == CASE a.kind = "between" -> <<a.from, IF a.to + 1 > n THEN n ELSE a.to + 1>>
                   [] a.kind = "from" -> <<a.from, n>>
                   [] a.kind = "last" -> <<n - a.to, n>>
    IN SelectSeq([i \in DOMAIN rq.asked |-> Of(rq.asked[i])], LAMBDA p : p[1] < p[2])

\* The numbers of the ranges asked for, and the sum of their lengths, fit an off_t.
Countable ==
    LET Length(a) == IF a.kind = "last" THEN a.to ELSE 0
    IN /\ \A i \in DOMAIN rq.asked : rq.asked[i].from <= MaxOff /\ rq.asked[i].to <= MaxOff
       /\ Sum([i \in DOMAIN rq.asked |-> Length(rq.asked[i])]) + Len(Entity) * Len(rq.asked) <= MaxOff

\* The conditions of the request, by the calendar.
Unchanged ==
    LET listed(l) == \E i \in DOMAIN l : l[i] = "*" \/ l[i] = ex.en.etag
        t == Seconds(ex.en.lm)
    IN /\ rq.ims.fmt = "none"
          \/ (cf.ims /= "off" /\ Real(rq.ims)
              /\ (Seconds(rq.ims) = t \/ (cf.ims = "before" /\ Seconds(rq.ims) > t)))
       /\ rq.inm = << >> \/ listed(rq.inm)
       /\ rq.ims.fmt /= "none" \/ rq.inm /= << >>
Refused ==
    LET listed(l) == \E i \in DOMAIN l : l[i] = "*" \/ l[i] = ex.en.etag
    IN \/ rq.iums.fmt /= "none" /\ (~Real(rq.iums) \/ Seconds(rq.iums) < Seconds(ex.en.lm))
       \/ rq.im /= << >> /\ ~listed(rq.im)

\* The fields of a header agree with each other and with the entity: a body that was coded
\* here carries no tag of the entity and offers no ranges of it, Expires and max-age give
\* the same moment, and Last-Modified is the date of the entity.
HeadersAgree ==
    Over /\ head /= << >> =>
        LET h == head[1]
            ages == {i \in DOMAIN h.cc : h.cc[i].value[1] = "max-age"}
        IN /\ rsp.coder /= "none" => h.etag = "" /\ ~h.acceptRanges /\ h.contentRange = << >> /\ h.length = -1
           /\ h.expires /= -1 /\ cf.expires.mode /= "max" =>
                 /\ \A i \in ages : h.expires = cf.now + h.cc[i].value[2]
                 /\ ages = {} => h.expires < cf.now
           /\ h.lm /= << >> /\ cf.adds = << >> =>
                 /\ Seconds(h.lm[1]) = Seconds(ex.en.lm)
                 /\ ParseTime(CookieTime(rsp.lm)) = rsp.lm
           /\ h.location.path /= "" => ~h.location.local

\* The client finds the end of every response, and has then what it asked for: the entity,
\* coded or not as the header says; exactly the ranges it named, when it named any that
\* exist; or no byte of the entity, when its conditions do not want it.  The fields of the
\* header agree with that and with each other.  A request that is answered from its ranges
\* is judged while their numbers are Countable: ngx_http_range_parse() does not check that
\* they are, and the test of their total length is of no use once it has wrapped.
ClientReadsEntity ==
    Over /\ head /= << >> /\ Countable =>
        LET h == head[1]
            f == Framed(h)
            n == Len(Entity)
            asked == Asked(n)
            Slice(p) == SubSeq(Entity, p[1] + 1, p[2])
            conditional == ex.en.status = 200 /\ ex.en.lm.fmt /= "none"
        IN /\ f[1]
           /\ (h.status = 412) = (conditional /\ Refused)
           /\ (h.status = 304) = (ex.en.status = 304 \/ (conditional /\ ~Refused /\ Unchanged))
           /\ h.status = ex.en.status /\ rq.method = "get" /\ h.status \notin {204, 304} =>
                 /\ Plain(f[2]) = Plain(Entity)
                 /\ (h.encoding = "gzip") = (f[2] = Gzipped(Plain(Entity)))
                 /\ h.encoding = "gzip" /\ ex.en.encoding = "" => rq.gzip
           /\ h.status = 206 =>
                 /\ h.encoding = ex.en.encoding
                 /\ rq.fresh
                 /\ rq.method = "get" =>
                    IF Len(asked) = 1
                    THEN f[2] = Slice(asked[1]) /\ h.contentRange = <<asked[1][1], asked[1][2] - 1, n>>
                    ELSE f[2] = FlattenSeq([i \in DOMAIN asked |->
                                   <<Byte("boundary", 0), <<"range", asked[i][1], asked[i][2] - 1, n>> >>
                                   \o Slice(asked[i])]) \o <<Byte("boundaries", 0)>>
           /\ h.status = 416 => asked = << >>
           /\ HeadersAgree
=============================================================================
