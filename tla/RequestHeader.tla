--------------------------- MODULE RequestHeader ----------------------------
(***************************************************************************)
(* How the header of a request is read (ngx_http_request.c): the bytes     *)
(* come in pieces into the client header buffer, the parsers of HttpParse  *)
(* are called on what is there, and when a buffer is full the unfinished   *)
(* line is copied to a large one and the parser's pointers are moved with  *)
(* it.  Requests may be pipelined, and the next one then starts in the     *)
(* buffer the last one ended in.                                           *)
(*                                                                         *)
(* Buffer 0 is c->buffer and 1, 2, ... are large buffers; a pointer is a   *)
(* buffer and an offset.  Header names and values are of one letter where  *)
(* only their being different matters.                                     *)
(***************************************************************************)
EXTENDS HttpParse

CONSTANTS Clients    \* what is sent, the sizes of the reads, and the configuration

VARIABLES client, text, got, mem, hin, phase, r, h, hc, served

vars == <<client, text, got, mem, hin, phase, r, h, hc, served>>

Wild == <<-2, 0>>          \* a pointer computed from NULL

LowLen == 2                \* NGX_HTTP_LC_HEADER_LEN

conf == client.conf

Buffers == 0..conf.num

Cap(b) == IF b = 0 THEN conf.small ELSE conf.large

(* The bytes of a request as the client means it: the method, the target   *)
(* of a host, a path and a query, the version and the headers.             *)
Raw(tokens) == FlattenSeq([k \in DOMAIN tokens |-> tokens[k].raw])

Target(q) ==
    (IF q.host = << >> THEN << >> ELSE <<"h", ":", "/", "/">> \o q.host) \o Raw(q.path)
    \o (IF q.query = << >> THEN << >> ELSE <<"?">> \o q.query)

Line(q) ==
    q.method \o <<" ">> \o Target(q)
    \o (IF q.version = << >> THEN << >> ELSE <<" ", "H", "T", "T", "P", "/">> \o q.version)
    \o <<"CR", "LF">>

Wire(q) ==
    Line(q)
    \o (IF q.version = << >> THEN << >>
        ELSE FlattenSeq([k \in DOMAIN q.headers |->
                            q.headers[k].name \o <<":", " ">> \o q.headers[k].value
                            \o <<"CR", "LF">>]) \o <<"CR", "LF">>)

(* A request before its first byte; server is the one of the address, or   *)
(* the one the TLS handshake named.                                        *)
NewRequest == LineStart @@
    [list |-> << >>, host |-> FALSE, hostname |-> << >>, server |-> conf.sni.server,
     length |-> << >>, te |-> << >>, type |-> "none", forwarded |-> << >>]

Init == /\ client \in Clients
        /\ text = FlattenSeq([k \in DOMAIN client.requests |-> Wire(client.requests[k])])
        /\ got = 0
        /\ mem = [b \in Buffers |-> << >>]
        /\ hin = [b |-> 0, pos |-> 0, last |-> 0]
        /\ phase = "line"
        /\ r = NewRequest
        /\ h = HeaderStart
        /\ hc = [busy |-> << >>, free |-> << >>]
        /\ served = << >>

Text(p, q) == IF p[1] >= 0 /\ p[1] = q[1] THEN SubSeq(mem[p[1]], p[2] + 1, q[2])
              ELSE <<"garbage">>

----------------------------------------------------------------------------
(* ngx_http_read_request_header: what is in the buffer, or a read of it.   *)
Reads == IF hin.pos < hin.last THEN {0}
         ELSE {Min({n, Len(text) - got, Cap(hin.b) - hin.last}) : n \in client.reads} \ {0}

Received(n) == [mem EXCEPT ![hin.b] = @ \o SubSeq(text, got + 1, got + n)]

Parse(Char(_, _, _), s, m, b, from, to) ==
    LET One(acc, o) == IF acc.s.rc # "again" THEN acc
                       ELSE [s |-> Char(acc.s, m[b][o + 1], <<b, o>>), pos |-> o + 1]
    IN  FoldLeft(One, [s |-> s, pos |-> from], [k \in 1..(to - from) |-> from + k - 1])

(* A mutant of Moved: uri_ext is left behind.                              *)
MovedNoExt(s, old, b) ==
    LET Rebase(p) == IF p[1] < 0 THEN Wild ELSE <<b, p[2] - old>>
        Set(p)    == IF p = Null THEN Null ELSE Rebase(p)
    IN  [s EXCEPT !.request_start = <<b, 0>>, !.request_end = Set(@),
                  !.method_end = Rebase(@), !.uri_start = Rebase(@), !.uri_end = Rebase(@),
                  !.schema_end = Set(@), !.host_start = Set(@), !.host_end = Set(@),
                  !.args_start = Set(@), !.protocol = Set(@)]

(* The parser's pointers into the line that was copied; port_end stays.    *)
Moved(s, old, b) ==
    LET Rebase(p) == IF p[1] < 0 THEN Wild ELSE <<b, p[2] - old>>
        Set(p)    == IF p = Null THEN Null ELSE Rebase(p)
    IN  [s EXCEPT !.request_start = <<b, 0>>, !.request_end = Set(@),
                  !.method_end = Rebase(@), !.uri_start = Rebase(@), !.uri_end = Rebase(@),
                  !.schema_end = Set(@), !.host_start = Set(@), !.host_end = Set(@),
                  !.uri_ext = Set(@), !.args_start = Set(@), !.protocol = Set(@)]

MovedHeader(g, old, b) ==
    LET Rebase(p) == IF p[1] < 0 THEN Wild ELSE <<b, p[2] - old>>
    IN  [g EXCEPT !.name_start = <<b, 0>>, !.name_end = Rebase(@), !.start = Rebase(@),
                  !.end = Rebase(@)]

(* ngx_http_alloc_large_header_buffer, on the buffer i, the memory m and   *)
(* the parser's state st; old is where the line starts.                    *)
Large(line, i, m, st, old) ==
    LET new == CHOOSE b \in Buffers \ {0} : b \notin ToSet(hc.busy) \cup ToSet(hc.free)
        b   == IF hc.free # << >> THEN Last(hc.free) ELSE new
        got2 == [hc EXCEPT !.busy = Append(@, b),
                           !.free = IF @ = << >> THEN @ ELSE Front(@)]
    IN  IF line /\ st = "start"
        THEN [rc |-> "ok", hin |-> [i EXCEPT !.pos = 0, !.last = 0],
              mem |-> [m EXCEPT ![i.b] = << >>], hc |-> hc]
        ELSE IF \/ st # "start" /\ i.pos - old >= conf.large
                \/ hc.free = << >> /\ Len(hc.busy) >= conf.num
        THEN [rc |-> "declined"]
        ELSE IF st = "start"
        THEN [rc |-> "ok", hin |-> [b |-> b, pos |-> 0, last |-> 0],
              mem |-> [m EXCEPT ![b] = << >>], hc |-> got2]
        ELSE [rc |-> "copied", hin |-> [b |-> b, pos |-> i.pos - old, last |-> i.pos - old],
              mem |-> [m EXCEPT ![b] = SubSeq(m[i.b], old + 1, i.pos)], hc |-> got2]

Refuse(status) ==
    /\ phase' = "closed"
    /\ served' = Append(served, [status |-> status])
    /\ UNCHANGED <<r, h, hc>>

----------------------------------------------------------------------------
(* ngx_http_validate_host: dropped are the port, the case and a last dot.  *)
ValidateHost(name) ==
    LET n     == Len(name)
        close == SelectInSeq(name, LAMBDA c : c = "]")
        colon == SelectInSeq(name, LAMBDA c : c = ":")
        len   == IF n > 0 /\ name[1] = "[" THEN IF close > 0 THEN close ELSE n
                 ELSE IF colon > 0 THEN colon - 1 ELSE n
        dots  == \E k \in 1..(n - 1) : name[k] = "." /\ name[k + 1] = "."
        dot   == SelectLastInSeq(name, LAMBDA c : c = ".")
        cut   == IF dot > 0 /\ dot = len THEN len - 1 ELSE len
    IN  IF dots \/ "/" \in ToSet(name) \/ "NUL" \in ToSet(name) \/ cut = 0
        THEN [ok |-> FALSE, host |-> << >>]
        ELSE [ok |-> TRUE, host |-> [k \in 1..cut |-> Lower(name[k])]]

(* ngx_http_set_virtual_server: the server of a name, or the one there is. *)
Virtual(s, host) ==
    LET named == host \in DOMAIN conf.servers
    IN  IF conf.sni.name # << >> /\ conf.sni.name = host THEN [ok |-> TRUE, r |-> s]
        ELSE IF conf.sni.name # << >>
                /\ (IF named THEN conf.servers[host] ELSE "default") \in conf.verify
        THEN [ok |-> FALSE, r |-> s]
        ELSE [ok |-> TRUE, r |-> IF named THEN [s EXCEPT !.server = conf.servers[host]]
                                 ELSE IF conf.sni.name # << >>
                                 THEN [s EXCEPT !.server = "default"] ELSE s]

(* ngx_http_process_request_uri; z is what ngx_http_parse_complex_uri made *)
(* of it.                                                                  *)
UriOf(s, raw, z) ==
    LET end == IF s.args_start = Null THEN s.uri_end
               ELSE <<s.args_start[1], s.args_start[2] - 1>>
    IN  IF s.complex \/ s.quoted
        THEN [ok |-> z.rc = "ok", uri |-> z.out,
              exten |-> IF z.ext = 0 THEN << >> ELSE SubSeq(z.out, z.ext + 1, Len(z.out)),
              args |-> IF z.args = 0 THEN << >> ELSE SubSeq(raw, z.args, z.last)]
        ELSE [ok |-> TRUE, uri |-> Text(s.uri_start, end),
              exten |-> IF s.uri_ext = Null THEN << >> ELSE Text(s.uri_ext, end),
              args |-> IF s.args_start = Null THEN << >> ELSE Text(s.args_start, s.uri_end)]

Uri(s) == LET raw == Text(s.uri_start, s.uri_end)
          IN  UriOf(s, raw, ComplexUri(raw, conf.merge))

(* What ngx_http_process_request has of a request that was understood.     *)
Request(s) ==
    [status |-> 200, line |-> Uri(s), server |-> s.server, length |-> s.length,
     chunked |-> s.te = <<"c">>, type |-> s.type, forwarded |-> s.forwarded,
     headers |-> [k \in DOMAIN s.list |->
                     [name |-> Text(s.list[k].name, s.list[k].colon),
                      value |-> Text(s.list[k].value, s.list[k].end)]]]

(* One turn of the loop of ngx_http_process_request_line.                  *)
RequestLine ==
    /\ phase = "line"
    /\ \E n \in Reads :
          LET m    == Received(n)
              i    == [hin EXCEPT !.last = @ + n]
              Char(s, c, p) == LineChar(s, c, p)
          IN  \E q \in {Parse(Char, r, m, i.b, i.pos, i.last)} :
              \E s \in {LineDone(q.s)} :
          LET j    == [i EXCEPT !.pos = q.pos]
              big  == Large(TRUE, j, m, s.st, s.request_start[2])
              full == s.rc = "again" /\ j.pos = Cap(j.b)
          IN  /\ got' = got + n
              /\ mem' = IF full /\ big.rc # "declined" THEN big.mem ELSE m
              /\ hin' = IF full /\ big.rc # "declined" THEN big.hin ELSE j
              /\ CASE s.rc = "invalid" -> Refuse(400)
                   [] s.rc = "ok" ->
                        /\ r' = [s EXCEPT !.st = "start"]
                        /\ phase' = "uri"
                        /\ UNCHANGED <<h, hc, served>>
                   [] full /\ big.rc = "declined" -> Refuse(414)
                   [] OTHER ->
                        /\ r' = IF full /\ big.rc = "copied"
                                THEN Moved(s, s.request_start[2], big.hin.b) ELSE s
                        /\ hc' = IF full THEN big.hc ELSE hc
                        /\ UNCHANGED <<phase, h, served>>
    /\ UNCHANGED <<client, text>>

(* The rest of ngx_http_process_request_line: the URI, the host that the   *)
(* line may name, and a request without headers.                           *)
LineParsed ==
    /\ phase = "uri"
    /\ LET named == r.host_start # Null /\ r.host_end # Null
           host  == ValidateHost(Text(r.host_start, r.host_end))
           v     == Virtual(r, host.host)
           s     == IF named THEN [v.r EXCEPT !.hostname = host.host] ELSE r
           old   == r.major * 1000 + r.minor < 1000
           e     == Virtual(s, << >>)
       IN  IF ~Uri(r).ok \/ (named /\ (~host.ok \/ ~v.ok)) \/ (old /\ ~named /\ ~e.ok)
           THEN Refuse(400)
           ELSE /\ r' = IF old /\ ~named THEN e.r ELSE s
                /\ h' = [HeaderStart EXCEPT !.st = r.st]
                /\ phase' = IF old THEN "process" ELSE "headers"
                /\ UNCHANGED <<hc, served>>
    /\ UNCHANGED <<client, text, got, mem, hin>>

(* The name in lower case: the parser's copy, or made anew.                *)
LowKey(g, name) ==
    IF Len(name) = g.i THEN SubSeq(g.low, 1, Len(name))
    ELSE [k \in 1..Len(name) |-> Lower(name[k])]

(* The handlers of ngx_http_headers_in, found by hash and lowcase name.    *)
Handlers == (<<"h">> :> "host") @@ (<<"l">> :> "length") @@ (<<"c">> :> "connection")
            @@ (<<"t">> :> "te") @@ (<<"f", "f", "f">> :> "forwarded")

Handler(g, name) ==
    LET key == LowKey(g, name)
    IN  IF key \in DOMAIN Handlers /\ g.hash = key THEN Handlers[key] ELSE "none"

(* A header that was parsed, given to its handler: process_host,           *)
(* process_unique_header_line, process_header_line, process_connection and *)
(* process_multi_header_lines.                                             *)
Header(s, g, name, value) ==
    LET which == Handler(g, name)
        host  == ValidateHost(value)
        v     == Virtual(s, host.host)
    IN  CASE which = "host" ->
               IF ~host.ok THEN [ok |-> FALSE, r |-> s]
               ELSE IF s.hostname # << >> THEN [ok |-> TRUE, r |-> [s EXCEPT !.host = TRUE]]
               ELSE [ok |-> v.ok, r |-> [v.r EXCEPT !.host = TRUE, !.hostname = host.host]]
          [] which = "length" -> [ok |-> s.length = << >>, r |-> [s EXCEPT !.length = <<value>>]]
          [] which = "te" -> [ok |-> TRUE, r |-> [s EXCEPT !.te = IF @ = << >> THEN value ELSE @]]
          [] which = "connection" ->
               [ok |-> TRUE, r |-> [s EXCEPT !.type = CASE "c" \in ToSet(value) -> "close"
                                                        [] "k" \in ToSet(value) -> "keep-alive"
                                                        [] OTHER -> @]]
          [] which = "forwarded" -> [ok |-> TRUE, r |-> [s EXCEPT !.forwarded = Append(@, value)]]
          [] OTHER -> [ok |-> TRUE, r |-> s]

(* One turn of the loop of ngx_http_process_request_headers.  A header's   *)
(* name and value are ended with a NUL where they stand.                   *)
RequestHeaders ==
    /\ phase = "headers"
    /\ LET big  == Large(FALSE, hin, mem, h.st, h.name_start[2])
           full == hin.pos = Cap(hin.b)
           g0   == IF full /\ big.rc = "copied"
                   THEN MovedHeader(h, h.name_start[2], big.hin.b) ELSE h
       IN  IF full /\ big.rc = "declined"
           THEN Refuse(494) /\ UNCHANGED <<got, mem, hin>>
           ELSE IF full
           THEN /\ mem' = big.mem /\ hin' = big.hin /\ hc' = big.hc /\ h' = g0
                /\ UNCHANGED <<got, phase, r, served>>
           ELSE \E n \in Reads :
                LET m == Received(n)
                    i == [hin EXCEPT !.last = @ + n]
                    Char(s, c, p) == HeaderChar(s, c, p, LowLen, conf.underscores)
                IN
                \E q \in {Parse(Char, [h EXCEPT !.rc = "again"], m, i.b, i.pos, i.last)} :
                LET g           == q.s
                    At(p, z)    == SubSeq(m[i.b], p[2] + 1, z[2])
                    name        == At(g.name_start, g.name_end)
                    value       == At(g.start, g.end)
                    hd          == Header(r, g, name, value)
                    entry       == [name |-> g.name_start, colon |-> g.name_end,
                                    value |-> g.start, end |-> g.end]
                IN  /\ got' = got + n
                    /\ hin' = [i EXCEPT !.pos = q.pos]
                    /\ CASE g.rc = "again" ->
                              /\ h' = g /\ mem' = m
                              /\ UNCHANGED <<phase, r, hc, served>>
                         [] g.rc = "invalid" -> Refuse(400) /\ mem' = m
                         [] g.rc = "header_done" ->
                              /\ h' = Goto(g, "start") /\ mem' = m /\ phase' = "check"
                              /\ UNCHANGED <<r, hc, served>>
                         [] g.invalid /\ conf.ignoreInvalid ->
                              /\ h' = Goto(g, "start") /\ mem' = m
                              /\ UNCHANGED <<phase, r, hc, served>>
                         [] ~hd.ok -> Refuse(400) /\ mem' = m
                         [] OTHER ->
                              /\ r' = [hd.r EXCEPT !.list = Append(@, entry)]
                              /\ h' = Goto(g, "start")
                              /\ mem' = [m EXCEPT ![i.b][g.name_end[2] + 1] = "NUL",
                                                  ![i.b][g.end[2] + 1] = "NUL"]
                              /\ UNCHANGED <<phase, hc, served>>
    /\ UNCHANGED <<client, text>>

(* ngx_http_process_request_header                                         *)
CheckHeaders ==
    /\ phase = "check"
    /\ LET e == Virtual(r, << >>)
           s == IF r.hostname = << >> THEN e.r ELSE r
       IN  CASE \/ r.hostname = << >> /\ ~e.ok
                \/ ~r.host /\ r.major * 1000 + r.minor > 1000
                \/ r.length # << >> /\ (r.length[1] = << >> \/ ~(ToSet(r.length[1]) \subseteq Digits))
                     -> Refuse(400)
             [] r.method = <<"T", "R", "A", "C", "E">> -> Refuse(405)
             [] r.te \notin {<< >>, <<"c">>, <<"i">>} -> Refuse(501)
             [] OTHER -> /\ r' = IF r.te = <<"c">> THEN [s EXCEPT !.length = << >>] ELSE s
                         /\ phase' = "process"
                         /\ UNCHANGED <<h, hc, served>>
    /\ UNCHANGED <<client, text, got, mem, hin>>

(* ngx_http_set_keepalive, for a pipelined request in a large buffer.      *)
Recycled(b) == [busy |-> <<b>>, free |-> hc.free \o Front(hc.busy)]

(* The request is answered and the connection kept, or closed: HTTP/0.9    *)
(* and 1.0 without keep-alive, Connection: close, or the last of requests. *)
NextRequestLine ==
    /\ phase = "process"
    /\ served' = Append(served, Request(r))
    /\ LET kept == /\ r.type # "close"
                   /\ r.major * 1000 + r.minor > 1000 \/ r.type = "keep-alive"
           more == hin.pos < hin.last
       IN  IF ~kept \/ Len(served) + 1 = Len(client.requests)
           THEN phase' = "closed" /\ UNCHANGED <<mem, hin, r, h, hc>>
           ELSE /\ phase' = "line" /\ r' = NewRequest /\ h' = HeaderStart
                /\ IF more /\ hin.b # 0
                   THEN /\ hc' = Recycled(hin.b)
                        /\ mem' = [b \in Buffers |-> IF b \in ToSet(Front(hc.busy)) THEN << >>
                                                     ELSE mem[b]]
                        /\ UNCHANGED hin
                   ELSE IF more THEN UNCHANGED <<mem, hin, hc>>
                   ELSE /\ mem' = [b \in Buffers |-> << >>]
                        /\ hin' = [b |-> 0, pos |-> 0, last |-> 0]
                        /\ hc' = [busy |-> << >>, free |-> << >>]
    /\ UNCHANGED <<client, text, got>>

Next == RequestLine \/ LineParsed \/ RequestHeaders \/ CheckHeaders \/ NextRequestLine

Spec == Init /\ [][Next]_vars

----------------------------------------------------------------------------
(* The path that a path of tokens stands for.  A token is a character or   *)
(* an escape of one: escaped or not a dot and a slash mean the same.       *)
Chars(tokens) == [k \in DOMAIN tokens |-> tokens[k].char]

Segments(chars) ==
    LET at == SetToSortSeq({k \in DOMAIN chars : chars[k] = "/"}, <)
    IN  [k \in DOMAIN at |-> SubSeq(chars, at[k] + 1,
                                    IF k = Len(at) THEN Len(chars) ELSE at[k + 1] - 1)]

(* Segments "." go, ".." takes the one before it along, empty ones merge;  *)
(* the last segment stays what it is.                                      *)
Normal(chars) ==
    LET segs == Segments(chars)
        One(acc, g) == CASE ~acc.ok -> acc
                         [] g \in {<< >>, <<".">>} -> acc
                         [] g = <<".", ".">> -> IF acc.path = << >> THEN [acc EXCEPT !.ok = FALSE]
                                                ELSE [acc EXCEPT !.path = Front(@)]
                         [] OTHER -> [acc EXCEPT !.path = Append(@, g)]
        up  == FoldLeft(One, [ok |-> TRUE, path |-> << >>], Front(segs))
        all == Append(up.path, Last(segs))
    IN  [ok |-> up.ok, uri |-> FlattenSeq([k \in DOMAIN all |-> <<"/">> \o all[k]])]

(* What follows the last dot of the last segment, unless the dot is one of *)
(* three that it starts with.                                              *)
Extension(chars) ==
    LET last == Last(Segments(chars))
        lead == CHOOSE n \in 0..3 :
                   /\ n <= Len(last) /\ \A k \in 1..n : last[k] = "."
                   /\ n = 3 \/ n = Len(last) \/ last[n + 1] # "."
        dots == {k \in DOMAIN last : last[k] = "." /\ k > lead}
    IN  IF dots = {} THEN << >> ELSE SubSeq(last, Max(dots) + 1, Len(last))

Values(q, name) ==
    LET mine == SelectSeq(q.headers, LAMBDA e : [k \in DOMAIN e.name |-> Lower(e.name[k])] = name)
    IN  [k \in DOMAIN mine |-> mine[k].value]

(* The host a request names, first in its line and then in its headers.    *)
HostOf(q) == LET named == IF q.host = << >> THEN Values(q, <<"h">>) ELSE <<q.host>>
             IN  IF named = << >> THEN << >> ELSE ValidateHost(named[1]).host

ServerOf(q) == IF HostOf(q) = conf.sni.name THEN conf.sni.server
               ELSE IF HostOf(q) \in DOMAIN conf.servers THEN conf.servers[HostOf(q)]
               ELSE "default"

(* A server that asks for client certificates serves only connections on   *)
(* which it was named in the handshake, when one was.                      *)
Good(q) ==
    /\ conf.sni.name \in {<< >>, HostOf(q)} \/ ServerOf(q) \notin conf.verify
    /\ Normal(Chars(q.path)).ok
    /\ q.version = << >> => q.method = <<"G", "E", "T">>
    /\ q.method # <<"T", "R", "A", "C", "E">> \/ q.version = << >>
    /\ q.version = <<"1", ".", "1">> => Values(q, <<"h">>) # << >>
    /\ \A v \in ToSet(Values(q, <<"h">>)) : ValidateHost(v).ok
    /\ Len(Values(q, <<"l">>)) <= 1
    /\ \A v \in ToSet(Values(q, <<"l">>)) : v # << >> /\ ToSet(v) \subseteq Digits
    /\ \A v \in ToSet(Values(q, <<"t">>)) : v \in {<<"c">>, <<"i">>}

(* A request means to the server what the client meant, however its bytes  *)
(* are split over reads and its lines over buffers, and whatever requests  *)
(* came before it on the connection: the path is the normal form of the    *)
(* one in the line, and the extension, the arguments, the virtual server,  *)
(* the headers and the body's length are the request's own.  A request is  *)
(* refused only when it is wrong, or its line longer than a large buffer   *)
(* holds, or its headers more than the buffers hold.                       *)
Understood ==
    \A k \in DOMAIN served :
       LET q == client.requests[k]
           s == served[k]
       IN  CASE s.status = 200 ->
                  /\ Good(q)
                  /\ s.line.uri = Normal(Chars(q.path)).uri
                  /\ s.line.exten = Extension(Chars(q.path))
                  /\ s.line.args = q.query
                  /\ q.version # << >> => s.headers = q.headers
                  /\ s.server = ServerOf(q)
                  /\ s.chunked = (\E v \in ToSet(Values(q, <<"t">>)) : v = <<"c">>)
                  /\ s.chunked \/ s.length = Values(q, <<"l">>)
                  /\ s.forwarded = Values(q, <<"f", "f", "f">>)
             [] s.status = 414 -> Len(Line(q)) > conf.large
             [] s.status = 494 -> Len(Wire(q)) > conf.large
             [] OTHER -> ~Good(q)

=============================================================================
