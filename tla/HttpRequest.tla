---------------------------- MODULE HttpRequest ----------------------------
(***************************************************************************)
(* The life of the connections of one nginx worker that serves the Aret    *)
(* locations: reading a request, the Aret content handlers, the output     *)
(* path under them (ngx_http_send_header, the header filter, the write     *)
(* filter), the finalization of the request, keepalive, timers, and the    *)
(* worker's graceful shutdown.                                             *)
(*                                                                         *)
(* A worker has one thread, so an event handler with all it calls is one   *)
(* step.  Inside a step the only choices are what the kernel returns: a    *)
(* function of the code is therefore an operator from the state of the     *)
(* connection to the set of its possible results, pairs of a new state and *)
(* a return code.  The bytes of a response are "h" (the header), "e" (the  *)
(* engine's err text) and "b" (the page); sizes are counted in these.      *)
(***************************************************************************)
EXTENDS Integers, Sequences, FiniteSets

CONSTANTS
  Conns,       \* the worker's connections
  Sizes,       \* sizes of the content the handlers produce
  ErrSizes,    \* sizes of the err text the engine returns with it
  Methods,     \* request methods that occur
  PageSize,    \* size of nginx's own error pages
  Postpone,    \* postpone_output, 2 or more
  Limited,     \* limit_rate or sendfile_max_chunk is in use
  Faults,      \* failures that can happen: "alloc", "send", "epoll"
  MaxRequests  \* keepalive_requests

VARIABLES
  conn,     \* conn[k]: the state of connection k and of its request
  exiting,  \* ngx_exiting
  worker    \* "up", or "exited"

vars == <<conn, exiting, worker>>

Phases == {"closed", "wait", "reading", "writing", "keepalive", "pipelined", "lingering"}
(* A connection that is not in use, or whose request was just created.     *)
Fresh ==
  [phase |-> "closed", rtimer |-> FALSE, wtimer |-> FALSE, delayed |-> FALSE,
   ready |-> TRUE, error |-> FALSE, eof |-> FALSE, buffered |-> FALSE,
   out |-> << >>, last |-> FALSE, requests |-> 0, method |-> "GET",
   version |-> "1.x", keepalive |-> FALSE, headerSent |-> FALSE,
   headerOnly |-> FALSE, length |-> 0, wire |-> << >>, zero |-> FALSE]

Bytes(b, n) == [i \in 1 .. n |-> b]
Buf(bytes, last) == <<[bytes |-> bytes, last |-> last]>>

(* The results of F where those of S are NGX_OK, the others as they are.   *)
Then(S, F(_)) == UNION {IF r[2] = "OK" THEN F(r[1]) ELSE {r} : r \in S}
-----------------------------------------------------------------------------
(* The first n bytes of what waits go out.                                 *)
Sent(c, n) ==
  [c EXCEPT !.wire = @ \o SubSeq(c.out, 1, n),
            !.out = SubSeq(c.out, n + 1, Len(c.out)),
            !.last = c.last /\ n < Len(c.out),
            !.buffered = n < Len(c.out),
            !.ready = @ /\ n = Len(c.out)]
SentCode(c, n) == IF n < Len(c.out) THEN "AGAIN" ELSE "OK"

(* With a limit the rest, or all of it when the limit is used up already,  *)
(* is put off until a timer fires.                                         *)
PutOff(c, ready) == [c EXCEPT !.delayed = TRUE, !.wtimer = TRUE, !.ready = ready]

(* c->send_chain and the rest of ngx_http_write_filter: an error, or the   *)
(* first n bytes go out, where n is at least `least'.                      *)
SendChain(c, least) ==
  {<<Sent(c, n), SentCode(c, n)>> : n \in least .. Len(c.out)}
    \cup (IF Limited
          THEN {<<PutOff(Sent(c, 0), c.ready), SentCode(c, 0)>>}
                 \cup {<<PutOff(Sent(c, n), ready), SentCode(c, n)>> :
                         n \in 1 .. Len(c.out), ready \in BOOLEAN}
          ELSE {})
    \cup (IF "send" \in Faults
          THEN {<<[c EXCEPT !.error = TRUE], "ERROR">>} ELSE {})

(* The new chain is added to the saved one.                                *)
Chained(out, bytes) == out \o bytes

(* ngx_http_write_filter, with a chain `in' of one buffer or none.  Aret's *)
(* buffers are in memory, so none is special: one of size zero is refused. *)
WriteFilter(c, in, least) ==
  LET add  == IF in = << >> THEN << >> ELSE in[1].bytes
      last == c.last \/ (in # << >> /\ in[1].last)
      d    == [c EXCEPT !.out = Chained(@, add), !.last = last]
  IN  IF c.error THEN {<<c, "ERROR">>}
      ELSE IF in # << >> /\ add = << >> THEN {<<[d EXCEPT !.zero = TRUE], "ERROR">>}
      ELSE IF ~last /\ in # << >> /\ Len(d.out) < Postpone THEN {<<d, "OK">>}
      ELSE IF c.delayed THEN {<<[d EXCEPT !.buffered = TRUE], "AGAIN">>}
      ELSE IF d.out = << >>
           THEN {<<[d EXCEPT !.buffered = FALSE], IF last THEN "OK" ELSE "ERROR">>}
      ELSE SendChain(d, least)

(* ngx_http_send_header and ngx_http_header_filter.                        *)
SendHeader(c) ==
  LET d == [c EXCEPT !.headerSent = TRUE]
      e == [d EXCEPT !.headerOnly = c.method = "HEAD"]
  IN  IF c.headerSent THEN {<<c, "OK">>}
      ELSE IF c.version = "0.9" THEN {<<d, "OK">>}
      ELSE WriteFilter(e, Buf(<<"h">>, e.headerOnly), 0)

(* ngx_http_output_filter: an error of any filter marks the connection.    *)
OutputFilter(c, in, least) ==
  {<<IF r[2] = "ERROR" THEN [r[1] EXCEPT !.error = TRUE] ELSE r[1], r[2]>> :
     r \in WriteFilter(c, in, least)}

(* ngx_http_recommend_handler and ngx_http_view_handler, once the engine   *)
(* has answered with an err text of size e and a page of size n: the       *)
(* buffer holds both, Content-Length and the end of the buffer count n.    *)
Handler(c, n, e) ==
  LET d == [c EXCEPT !.length = n]
      text == SubSeq(Bytes("e", e) \o Bytes("b", n), 1, n)
      body(f) == OutputFilter(f, Buf(text, TRUE), 0)
      alloc(f) == Then(SendHeader(f), body)
                    \cup (IF "alloc" \in Faults THEN {<<f, "500">>} ELSE {})
  IN  IF c.method \notin {"HEAD", "GET", "POST"} THEN {<<c, "405">>}
      ELSE Then(IF c.method = "HEAD" THEN SendHeader(d) ELSE {<<d, "OK">>}, alloc)

(* ngx_http_special_response_handler, and for 500 the static page that     *)
(* error_page names, which is sent in the same way.                        *)
SpecialResponse(c, code) ==
  LET d == [c EXCEPT !.keepalive = @ /\ code = "405", !.length = PageSize]
  IN  UNION {IF r[2] = "ERROR" \/ r[1].headerOnly THEN {r}
             ELSE OutputFilter(r[1], Buf(Bytes("b", PageSize), TRUE), 0) : r \in SendHeader(d)}
-----------------------------------------------------------------------------
(* ngx_http_close_connection; the connection's slot is free again.         *)
Closed(c) == [Fresh EXCEPT !.zero = c.zero]

(* What may fail in a handler that ends by arming an event.                *)
OrClosed(c) == {c} \cup (IF "epoll" \in Faults THEN {Closed(c)} ELSE {})

(* ngx_http_set_write_handler: the send timer is set, unless the output is *)
(* delayed and a timer is running already.                                 *)
SetWriteHandler(c) ==
  OrClosed([c EXCEPT !.phase = "writing", !.wtimer = @ \/ ~c.delayed])

(* ngx_http_set_keepalive, with a further request in the buffer or not.    *)
SetKeepalive(c) ==
  OrClosed([c EXCEPT !.phase = "keepalive", !.keepalive = FALSE, !.rtimer = TRUE])
    \cup OrClosed([c EXCEPT !.phase = "pipelined", !.keepalive = FALSE])

(* ngx_http_finalize_connection.                                           *)
FinalizeConnection(c) ==
  IF ~exiting /\ c.keepalive THEN SetKeepalive(c)
  ELSE OrClosed([c EXCEPT !.phase = "lingering", !.rtimer = TRUE]) \cup {Closed(c)}

(* Mutant: what is still buffered is not waited for.                       *)
FinalizeSentAtOnce(c, rc) ==
  IF rc = "ERROR" \/ c.error THEN {Closed(c)}
  ELSE FinalizeConnection([c EXCEPT !.rtimer = FALSE, !.wtimer = FALSE,
                                    !.delayed = @ /\ ~c.wtimer])

(* ngx_http_finalize_request with a code that is not a status: terminate,  *)
(* wait for the rest of the output to go, or end the request.              *)
FinalizeSent(c, rc) ==
  IF rc = "ERROR" \/ c.error THEN {Closed(c)}
  ELSE IF c.buffered THEN SetWriteHandler(c)
  ELSE LET d == [c EXCEPT !.rtimer = FALSE, !.wtimer = FALSE,
                          !.delayed = @ /\ ~c.wtimer]
       IN  IF c.eof THEN {Closed(d)} ELSE FinalizeConnection(d)

FinalizeRequest(c, rc) ==
  IF rc \in {"400", "405", "500"} /\ ~c.error
  THEN LET d == [c EXCEPT !.rtimer = FALSE, !.wtimer = FALSE]
       IN  UNION {FinalizeSent(r[1], r[2]) : r \in SpecialResponse(d, rc)}
  ELSE FinalizeSent(c, rc)

(* ngx_http_writer, past its checks for timeout and delay.                 *)
Writer(c, least) ==
  UNION {IF r[2] # "ERROR" /\ r[1].buffered
         THEN OrClosed([r[1] EXCEPT !.wtimer = @ \/ ~r[1].delayed])
         ELSE FinalizeSent(r[1], r[2]) : r \in OutputFilter(c, << >>, least)}
-----------------------------------------------------------------------------
Init ==
  /\ conn = [k \in Conns |-> Fresh]
  /\ exiting = FALSE
  /\ worker = "up"

Becomes(k, S) ==
  /\ worker = "up"
  /\ \E c \in S : conn' = [conn EXCEPT ![k] = c]
  /\ UNCHANGED <<exiting, worker>>

(* ngx_http_create_request: the request's own fields start afresh.         *)
NewRequest(c) ==
  [Fresh EXCEPT !.phase = "reading", !.ready = c.ready, !.delayed = c.delayed,
                !.requests = c.requests + 1]

(* The decision of ngx_http_handler and ngx_http_update_location_config.   *)
KeptAlive(c, wanted) == wanted /\ c.requests < MaxRequests

(* ngx_http_process_request: the whole request is there, and goes through  *)
(* the phases to the content handler of its location.                      *)
ProcessRequest(c, method, version, wanted) ==
  LET d == [c EXCEPT !.rtimer = FALSE, !.method = method, !.version = version,
                     !.keepalive = KeptAlive(c, wanted)]
  IN  UNION {FinalizeRequest(r[1], r[2]) :
               r \in UNION {Handler(d, n, e) : n \in Sizes, e \in ErrSizes}}

(* ngx_http_process_request_line and ngx_http_process_request_headers: the *)
(* rest is awaited, the client is gone, the request is malformed, or it is *)
(* complete.  HTTP/0.9 has only GET and no keepalive.                      *)
ReadRequest(c) ==
  OrClosed([c EXCEPT !.rtimer = TRUE])
    \cup FinalizeRequest([c EXCEPT !.error = TRUE], "400")
    \cup FinalizeRequest(c, "400")
    \cup ProcessRequest(c, "GET", "0.9", FALSE)
    \cup UNION {ProcessRequest(c, m, "1.x", w) : m \in Methods, w \in BOOLEAN}

(* ngx_http_init_connection.                                               *)
Accept(k) ==
  /\ ~exiting /\ conn[k].phase = "closed"
  /\ Becomes(k, OrClosed([Fresh EXCEPT !.phase = "wait", !.rtimer = TRUE]))

(* ngx_http_wait_request_handler and ngx_http_keepalive_handler: the first *)
(* bytes of a request arrive, or the client closes.                        *)
FirstBytes(k) ==
  LET c == conn[k] IN
  /\ c.phase \in {"wait", "keepalive"}
  /\ Becomes(k, {Closed(c)} \cup
        ReadRequest([NewRequest(c) EXCEPT !.rtimer = c.phase = "wait"]))

(* The posted read event of a pipelined request.                           *)
PipelinedRequest(k) ==
  /\ conn[k].phase = "pipelined"
  /\ Becomes(k, ReadRequest(NewRequest(conn[k])))

MoreBytes(k) ==
  /\ conn[k].phase = "reading"
  /\ Becomes(k, ReadRequest(conn[k]))

(* ngx_http_writer on a write event: a delayed output waits for its timer. *)
WriteEvent(k) ==
  LET c == [conn[k] EXCEPT !.ready = TRUE] IN
  /\ c.phase = "writing"
  /\ Becomes(k, IF c.delayed THEN OrClosed(c) ELSE Writer(c, 1))

(* ngx_http_test_reading: the client closes while its response is sent.    *)
ClientCloses(k) ==
  /\ conn[k].phase = "writing"
  /\ Becomes(k, FinalizeRequest([conn[k] EXCEPT !.eof = TRUE, !.error = TRUE], "OK"))

(* ngx_http_lingering_close_handler: data is dropped, or the client closes.*)
LingeringRead(k) ==
  /\ conn[k].phase = "lingering"
  /\ Becomes(k, OrClosed(conn[k]) \cup {Closed(conn[k])})

(* The read timer fires: every read handler closes the connection.         *)
ReadTimeout(k) ==
  /\ conn[k].rtimer
  /\ Becomes(k, {Closed(conn[k])})

(* ngx_http_writer when its timer fires: the end of a delay, or the client *)
(* has timed out.                                                          *)
WriteTimeout(k) ==
  LET c == [conn[k] EXCEPT !.delayed = FALSE, !.wtimer = FALSE] IN
  /\ conn[k].phase = "writing" /\ conn[k].wtimer
  /\ Becomes(k, IF ~conn[k].delayed THEN {Closed(c)}
                ELSE IF ~c.ready THEN OrClosed([c EXCEPT !.wtimer = TRUE])
                ELSE Writer(c, 0))
-----------------------------------------------------------------------------
(* SIGQUIT: the listening sockets are closed.                              *)
Quit ==
  /\ worker = "up" /\ ~exiting
  /\ exiting' = TRUE
  /\ UNCHANGED <<conn, worker>>

(* What the exiting worker's cycle does with the idle connections.         *)
IdleClosed ==
  [k \in Conns |-> IF conn[k].phase = "keepalive" THEN Closed(conn[k]) ELSE conn[k]]

(* The top of ngx_worker_process_cycle while exiting; no event is posted   *)
(* then, ngx_process_events_and_timers has run them all.                   *)
Cycle ==
  /\ worker = "up" /\ exiting
  /\ \A k \in Conns : conn[k].phase # "pipelined"
  /\ conn' = IdleClosed
  /\ worker' = IF \E k \in Conns : conn'[k].rtimer \/ conn'[k].wtimer
               THEN "up" ELSE "exited"
  /\ UNCHANGED exiting

Event(k) ==
  \/ Accept(k) \/ FirstBytes(k) \/ PipelinedRequest(k) \/ MoreBytes(k)
  \/ WriteEvent(k) \/ ClientCloses(k) \/ LingeringRead(k)
  \/ ReadTimeout(k) \/ WriteTimeout(k)

Next == Quit \/ Cycle \/ \E k \in Conns : Event(k)

Spec == Init /\ [][Next]_vars

-----------------------------------------------------------------------------
(* Types, and the promise of keepalive_requests: no connection serves more *)
(* requests than that.                                                     *)
TypeOK ==
  /\ exiting \in BOOLEAN /\ worker \in {"up", "exited"}
  /\ \A k \in Conns : LET c == conn[k] IN
       /\ c.phase \in Phases /\ c.requests \in 0 .. MaxRequests
       /\ DOMAIN c = DOMAIN Fresh
       /\ c.out \in Seq({"h", "e", "b"}) /\ c.wire \in Seq({"h", "e", "b"})

(* Every connection that waits for its client has a timer that ends the    *)
(* wait, and no timer outlives the wait it was set for: the handlers of    *)
(* ngx_http_request.c set and delete them on many paths (the send timer,   *)
(* the delay of a limited output, the header, keepalive and lingering      *)
(* timeouts).                                                              *)
WaitsAreTimed ==
  \A k \in Conns : LET c == conn[k] IN
    /\ c.rtimer <=> c.phase \in {"wait", "reading", "keepalive", "lingering"}
    /\ c.wtimer <=> c.phase = "writing"

(* A request whose response went through to the end (its connection is     *)
(* kept alive or is closed lingering) got exactly one header, first, and   *)
(* as many bytes of body as its Content-Length says, through partial       *)
(* writes, postponed output and delays.  HEAD is left out: its handlers    *)
(* let the page follow a header that went out at once, and no other.       *)
ResponseComplete ==
  \A k \in Conns : LET c == conn[k] IN
    c.phase \in {"keepalive", "pipelined", "lingering"} /\ c.method # "HEAD" =>
      /\ Len(c.wire) = c.length + (IF c.version = "0.9" THEN 0 ELSE 1)
      /\ c.out = << >>

(* At no time has a client got a header other than as its response's first *)
(* byte, although the handlers call ngx_http_send_header twice for HEAD    *)
(* and an error page asks for it again.                                    *)
HeaderOnce ==
  \A k \in Conns : \A i \in DOMAIN conn[k].wire :
    (conn[k].wire[i] = "h") <=> (i = 1 /\ conn[k].version # "0.9")

(* A gracefully shut down worker exits only when every connection is       *)
(* closed: the emptiness of the timer tree, which is all that              *)
(* ngx_worker_process_cycle looks at, implies it.                          *)
ExitDropsNothing ==
  worker = "exited" => \A k \in Conns : conn[k].phase = "closed"

(* A response that went through to the end carries the whole page its      *)
(* handler built, and nothing else.                                        *)
ContentDelivered ==
  \A k \in Conns : LET c == conn[k] IN
    c.phase \in {"keepalive", "pipelined", "lingering"} /\ c.method # "HEAD" =>
      SelectSeq(c.wire, LAMBDA b : b # "h") = Bytes("b", c.length)
=============================================================================
