----------------------------- MODULE MailProxy ------------------------------
(***************************************************************************)
(* A mail session from a complete login on (ngx_mail_auth_http_module.c,   *)
(* ngx_mail_proxy_module.c): the authentication server is asked over HTTP, *)
(* it lets the client in, has it wait, or refuses it; a client that is let *)
(* in is logged in to the server the answer names, and then what either    *)
(* side sends is relayed to the other.                                     *)
(***************************************************************************)
EXTENDS MailSession

VARIABLES
    auth,      \* the connection to the authentication server, and its answer
    peer,      \* the connection to the mail server
    asked,     \* what the authentication server was asked
    lines,     \* what the mail server was sent to log the client in
    down, up   \* what the client and the mail server were relayed

proxy == <<auth, peer, asked, lines, down, up>>

vars == <<script, s, segs, rest, sock, ev, replies, heard, auth, peer, asked, lines, down, up>>

NoAuth == [conn |-> "none", handler |-> "status", buf |-> << >>, pos |-> 1, state |-> "start",
           name |-> 0, value |-> << >>, header |-> << >>, wire |-> << >>, in |-> << >>,
           err |-> FALSE, addr |-> "", port |-> "", sleep |-> FALSE]

NoPeer == [conn |-> "none", buf |-> << >>, pos |-> 1, in |-> << >>, said |-> 0, todo |-> << >>,
           eof |-> FALSE, ceof |-> FALSE]

Init ==
    /\ script \in Scripts
    /\ s = NewSession /\ segs = Stream /\ rest = << >> /\ sock = << >> /\ ev = FALSE
    /\ replies = 0 /\ heard = << >>
    /\ auth = NoAuth /\ peer = NoPeer
    /\ asked = << >> /\ lines = << >> /\ down = << >> /\ up = << >>

----------------------------------------------------------------------------
(* ngx_mail_auth_http_create_request: a password that answers a challenge  *)
(* is not kept.                                                            *)
Request(t) == [login |-> t.login, passwd |-> t.passwd.text, method |-> t.method,
               attempt |-> t.attempt,
               smtp |-> IF t.method = "none" THEN <<t.helo, t.from, t.to>> ELSE << >>]

Asking(t) == IF t.method # "plain" /\ t.salt THEN [t EXCEPT !.passwd.null = TRUE] ELSE t

(* ngx_mail_auth_http_init.  To ask again with a password that was not     *)
(* kept reads through NULL.                                                *)
AuthHttpInit(t) ==
    IF t.passwd.null /\ t.passwd.text # << >>
    THEN s' = [t EXCEPT !.handler = "crashed"] /\ auth' = NoAuth /\ UNCHANGED <<asked, ev, replies>>
    ELSE \/ /\ Sends(ServerError(t))
            /\ auth' = NoAuth /\ UNCHANGED asked
         \/ /\ s' = [Asking(t) EXCEPT !.handler = "auth_wait"]
            /\ asked' = Append(asked, Request(t))
            /\ auth' = [NoAuth EXCEPT !.conn = "asking"]
            /\ UNCHANGED <<ev, replies>>

AuthHttpStart ==
    /\ s.handler = "auth_http"
    /\ AuthHttpInit(s)
    /\ UNCHANGED <<script, segs, rest, sock, heard, peer, lines, down, up>>

AuthFailed(t) == Sends(ServerError(t)) /\ auth' = NoAuth

(* ngx_mail_auth_http_write_handler; the server answers what it was sent.  *)
AuthHttpWrite ==
    /\ auth.conn = "asking"
    /\ \/ AuthFailed(s)
       \/ /\ Len(asked) <= Len(script.answers)
          /\ auth' = [auth EXCEPT !.conn = "reading", !.wire = script.answers[Len(asked)].wire]
          /\ UNCHANGED <<s, ev, replies>>
    /\ UNCHANGED <<script, segs, rest, sock, heard, peer, asked, lines, down, up>>

AuthServerSends ==
    /\ auth.conn = "reading" /\ auth.wire # << >>
    /\ \E n \in script.pieces :
          LET k == Min({n, Len(auth.wire)})
          IN  auth' = [auth EXCEPT !.in = @ \o SubSeq(auth.wire, 1, k),
                                   !.wire = SubSeq(@, k + 1, Len(@))]
    /\ UNCHANGED <<mail, peer, asked, lines, down, up>>

(* ngx_mail_auth_http_ignore_status_line: an answer that does not begin    *)
(* with one is all headers.                                                *)
StatusChar(a, c, p) ==
    CASE a.state = "start" -> IF c = "HTTP/" THEN [a EXCEPT !.state = "skip"]
                              ELSE [a EXCEPT !.handler = "headers", !.pos = 1]
      [] a.state = "skip" /\ c = "CR" -> [a EXCEPT !.state = "almost_done"]
      [] c = "LF" -> [a EXCEPT !.handler = "headers", !.state = "start", !.pos = p + 1]
      [] a.state = "almost_done" -> [a EXCEPT !.handler = "error"]
      [] OTHER -> a

(* ngx_mail_auth_http_parse_header_line                                    *)
HeaderLine(a, p) == [a EXCEPT !.state = "line", !.header = <<a.name, a.value>>, !.pos = p + 1]

HeaderChar(a, c, p) ==
    CASE a.state = "start" ->
           (CASE c = "CR" -> [a EXCEPT !.state = "header_almost_done"]
              [] c = "LF" -> [a EXCEPT !.handler = "done"]
              [] c \in {" ", ":"} -> [a EXCEPT !.handler = "error"]
              [] OTHER -> [a EXCEPT !.state = "name", !.name = p, !.value = << >>])
      [] a.state = "name" ->
           (CASE c = ":" -> [a EXCEPT !.state = "space_before_value"]
              [] c = "CR" -> [a EXCEPT !.state = "almost_done"]
              [] c = "LF" -> HeaderLine(a, p)
              [] c = " " -> [a EXCEPT !.handler = "error"]
              [] OTHER -> a)
      [] a.state \in {"space_before_value", "value"} ->
           (CASE c = "CR" -> [a EXCEPT !.state = "almost_done"]
              [] c = "LF" -> HeaderLine(a, p)
              [] c = " " -> a
              [] OTHER -> [a EXCEPT !.state = "value", !.value = Append(@, c)])
      [] c # "LF" -> [a EXCEPT !.handler = "error"]
      [] a.state = "almost_done" -> HeaderLine(a, p)
      [] OTHER -> [a EXCEPT !.handler = "done"]

(* What ngx_mail_auth_http_process_headers does with a header, to the      *)
(* answer and to the session.                                              *)
AuthHeader(x) ==
    LET name  == x.a.buf[x.a.header[1]]
        value == x.a.header[2]
        a     == [x.a EXCEPT !.state = "start"]
    IN  CASE name = "Auth-Status" /\ value = <<"OK">> -> [x EXCEPT !.a = a]
          [] name = "Auth-Status" /\ value = <<"WAIT">> -> [a |-> a, t |-> [x.t EXCEPT !.wait = TRUE]]
          [] name = "Auth-Status" -> [x EXCEPT !.a = [a EXCEPT !.err = TRUE]]
          [] name = "Auth-Server" -> [x EXCEPT !.a = [a EXCEPT !.addr = value[1]]]
          [] name = "Auth-Port" -> [x EXCEPT !.a = [a EXCEPT !.port = value[1]]]
          [] name = "Auth-User" -> [a |-> a, t |-> [x.t EXCEPT !.login = value]]
          [] name = "Auth-Pass" -> [a |-> a, t |-> [x.t EXCEPT !.passwd = Text(value)]]
          [] name = "Auth-Wait" -> [x EXCEPT !.a = [a EXCEPT !.sleep = value # <<"0">>]]
          [] OTHER -> [x EXCEPT !.a = a]

AuthChar(x, p) ==
    LET c == x.a.buf[p]
        a == IF x.a.handler = "status" THEN StatusChar(x.a, c, p) ELSE HeaderChar(x.a, c, p)
        y == [x EXCEPT !.a = a]
    IN  CASE x.a.handler \in {"error", "done"} -> x
          [] x.a.handler = "status" /\ a.handler = "headers" /\ a.pos = 1 ->
               [x EXCEPT !.a = HeaderChar(a, c, p)]
          [] a.state = "line" -> AuthHeader(y)
          [] OTHER -> y

(* ngx_mail_auth_http_read_handler and the rest of process_headers, when   *)
(* the answer is complete.                                                 *)
Sleeping(t) == [t EXCEPT !.handler = "sleep"]

ProxyInit(t) ==
    /\ auth' = NoAuth
    /\ \/ Sends(ServerError(t)) /\ peer' = NoPeer
       \/ /\ s' = [t EXCEPT !.handler = "proxy", !.mail = "start", !.len = 0]
          /\ peer' = [NoPeer EXCEPT !.conn = "login"]
          /\ UNCHANGED <<ev, replies>>
    /\ UNCHANGED asked

AuthAnswered(a, t) ==
    CASE a.err /\ a.sleep ->
           /\ s' = Sleeping(Replying(t, "auth_error")) /\ auth' = NoAuth
           /\ UNCHANGED <<ev, replies, peer, asked>>
      [] a.err /\ ~a.sleep ->
           /\ Sends([Replying(t, "auth_error") EXCEPT !.quit = TRUE])
           /\ auth' = NoAuth /\ UNCHANGED <<peer, asked>>
      [] ~a.err /\ t.wait /\ a.sleep ->
           /\ s' = Sleeping(t) /\ auth' = NoAuth /\ UNCHANGED <<ev, replies, peer, asked>>
      [] ~a.err /\ t.wait /\ ~a.sleep -> AuthHttpInit(t) /\ UNCHANGED peer
      [] ~a.err /\ ~t.wait ->
           IF a.addr = "" \/ a.port = "" \/ (t.passwd.null /\ conf.protocol # "smtp")
              \/ a.addr = "invalid" \/ a.port = "0"
           THEN AuthFailed(t) /\ UNCHANGED <<peer, asked>>
           ELSE ProxyInit(t)

AuthHttpRead ==
    /\ auth.conn = "reading"
    /\ \/ /\ auth.in # << >>
          /\ LET n   == Min({Len(auth.in), script.authcap - Len(auth.buf)})
                 buf == auth.buf \o SubSeq(auth.in, 1, n)
                 x   == FoldLeft(AuthChar,
                                 [a |-> [auth EXCEPT !.buf = buf, !.in = SubSeq(@, n + 1, Len(@))],
                                  t |-> s],
                                 [k \in 1..n |-> Len(auth.buf) + k])
             IN  CASE n = 0 \/ x.a.handler = "error" -> AuthFailed(x.t) /\ UNCHANGED <<peer, asked>>
                   [] n > 0 /\ x.a.handler = "done" -> AuthAnswered(x.a, x.t)
                   [] OTHER -> auth' = x.a /\ s' = x.t /\ UNCHANGED <<ev, replies, peer, asked>>
       \/ auth.in = << >> /\ AuthFailed(s) /\ UNCHANGED <<peer, asked>>
    /\ UNCHANGED <<script, segs, rest, sock, heard, lines, down, up>>

(* ngx_mail_auth_sleep_handler, when the time is over: ask again, or let   *)
(* the client try again.                                                   *)
AuthSleepHandler ==
    /\ s.handler = "sleep"
    /\ IF s.wait THEN AuthHttpInit([s EXCEPT !.wait = FALSE])
       ELSE LET t == [s EXCEPT !.handler = "auth_state", !.mail = "start", !.method = "plain"]
            IN  /\ \E how \in conf.sends :
                      /\ s' = Sent(t, how)
                      /\ replies' = IF s'.len = 0 THEN replies + 1 ELSE replies
                      /\ ev' = (ev \/ sock # << >>)
                /\ UNCHANGED <<auth, asked>>
    /\ UNCHANGED <<script, segs, rest, sock, heard, peer, lines, down, up>>

----------------------------------------------------------------------------
(* The mail server greets, answers each line it is sent, and then goes on. *)
BackendSays ==
    /\ peer.conn # "none"
    /\ \/ /\ peer.todo # << >>
          /\ \E n \in script.pieces :
                LET k == Min({n, Len(peer.todo)})
                IN  peer' = [peer EXCEPT !.in = @ \o SubSeq(peer.todo, 1, k),
                                         !.todo = SubSeq(@, k + 1, Len(@))]
       \/ /\ peer.todo = << >> /\ peer.said < Len(script.backend)
          /\ Len(lines) >= peer.said \/ peer.conn = "relay"
          /\ peer' = [peer EXCEPT !.said = @ + 1, !.todo = script.backend[peer.said + 1]]
       \/ /\ peer.todo = << >> /\ peer.said = Len(script.backend) /\ "EOF" \notin ToSet(peer.in)
          /\ peer' = [peer EXCEPT !.in = Append(@, "EOF")]
    /\ UNCHANGED <<mail, auth, asked, lines, down, up>>

(* ngx_mail_proxy_read_response                                            *)
Codes == {"+OK", "-ERR", "* OK", "220", "250", "550"}

Length(b) == FoldLeft(LAMBDA n, c : n + IF c \in Codes THEN 3 ELSE 1, 0, b)

Accepted(t, b) ==
    CASE conf.protocol = "pop3" -> b[1] = "+OK"
      [] conf.protocol = "imap" ->
           (CASE t.mail = "start" -> b[1] = "* OK"
              [] t.mail = "passwd" -> IsPrefix(Append(t.tag, "OK"), b)
              [] OTHER -> b[1] = "+")
      [] t.mail = "start" -> b[1] = "220"
      [] t.mail \in {"helo", "helo_xclient", "helo_from", "from"} -> b[1] = "250"
      [] t.mail \in {"xclient", "xclient_from", "xclient_helo"} -> b[1] \in {"220", "250"}
      [] OTHER -> TRUE

(* The line that answers the server, and the state after it: << >> when    *)
(* the client is logged in.                                                *)
Pop3Line(t) ==
    CASE t.mail = "start" -> <<"user", <<"USER", t.login>> >>
      [] t.mail = "user" -> <<"passwd", <<"PASS", t.passwd.text>> >>
      [] OTHER -> << >>

ImapLine(t) ==
    CASE t.mail = "start" -> <<"login", <<"LOGIN", Len(t.login)>> >>
      [] t.mail = "login" -> <<"user", <<t.login, Len(t.passwd.text)>> >>
      [] t.mail = "user" -> <<"passwd", <<t.passwd.text>> >>
      [] OTHER -> << >>

SmtpLine(t) ==
    LET from(state) == IF t.method = "none" THEN state \o "_from" ELSE state
    IN  CASE t.mail = "start" ->
               <<IF conf.xclient THEN "helo_xclient" ELSE from("helo"),
                 <<IF t.esmtp \/ conf.xclient THEN "EHLO" ELSE "HELO", "server">> >>
          [] t.mail = "helo_xclient" ->
               <<IF t.helo # << >> THEN "xclient_helo" ELSE from("xclient"),
                 <<"XCLIENT", t.login>> >>
          [] t.mail = "xclient_helo" ->
               <<from("helo"), <<IF t.esmtp THEN "EHLO" ELSE "HELO", t.helo>> >>
          [] t.mail \in {"helo_from", "xclient_from"} -> <<"from", t.from>>
          [] t.mail = "from" -> <<"to", t.to>>
          [] OTHER -> << >>

LoginLine(t) == CASE conf.protocol = "pop3" -> Pop3Line(t)
                  [] conf.protocol = "imap" -> ImapLine(t)
                  [] OTHER -> SmtpLine(t)

SmtpAuthOk == <<"235", "CR", "LF">>

ProxyFailed(t) == peer' = NoPeer /\ Sends(ServerError(t))

(* ngx_mail_proxy_upstream_error                                           *)
UpstreamError(t) ==
    IF t.len = 0 THEN ProxyFailed(t) ELSE peer' = NoPeer /\ Sends([t EXCEPT !.quit = TRUE])

(* ngx_mail_proxy_pop3_handler, ngx_mail_proxy_imap_handler and            *)
(* ngx_mail_proxy_smtp_handler                                             *)
ProxyReply(b, n) ==
    LET line == LoginLine(s)
    IN  CASE ~Accepted(s, b) ->
               /\ UpstreamError(IF conf.pass_error THEN Replying(s, "upstream_error") ELSE s)
               /\ UNCHANGED lines
          [] Accepted(s, b) /\ line = << >> ->
               /\ s' = [s EXCEPT !.handler = "relay"]
               /\ peer' = [peer EXCEPT !.conn = "relay", !.in = SubSeq(@, n + 1, Len(@)),
                            !.buf = IF conf.protocol = "smtp" /\ s.method # "none"
                                    THEN SmtpAuthOk ELSE b]
               /\ UNCHANGED <<lines, ev, replies>>
          [] OTHER ->
               \/ ProxyFailed(s) /\ UNCHANGED lines
               \/ /\ s' = [s EXCEPT !.mail = line[1]]
                  /\ lines' = Append(lines, line[2])
                  /\ peer' = [peer EXCEPT !.buf = << >>, !.in = SubSeq(@, n + 1, Len(@))]
                  /\ UNCHANGED <<ev, replies>>

ProxyLogin ==
    /\ peer.conn = "login" /\ peer.in # << >>
    /\ LET n == Min({Arrived(peer.in), script.peercap - Len(peer.buf)})
           b == peer.buf \o SubSeq(peer.in, 1, n)
       IN  CASE n = 0 -> UpstreamError(s) /\ UNCHANGED lines
             [] n > 0 /\ (Length(b) < 4 \/ SubSeq(b, Len(b) - 1, Len(b)) # <<"CR", "LF">>) ->
                  IF Length(b) >= 4 /\ Len(b) = script.peercap THEN UpstreamError(s) /\ UNCHANGED lines
                  ELSE /\ peer' = [peer EXCEPT !.buf = b, !.in = SubSeq(@, n + 1, Len(@))]
                       /\ UNCHANGED <<s, ev, replies, lines>>
             [] OTHER -> ProxyReply(b, n)
    /\ UNCHANGED <<script, segs, rest, sock, heard, auth, asked, down, up>>

ProxyTimeout ==
    /\ peer.conn = "login"
    /\ ProxyFailed(s)
    /\ UNCHANGED <<script, segs, rest, sock, heard, auth, asked, lines, down, up>>

----------------------------------------------------------------------------
(* ngx_mail_proxy_handler: a way through which one side's stream goes to   *)
(* the other.  It sends what it has, receives, and goes on until there is  *)
(* nothing to receive or no room.                                          *)
RECURSIVE Pump(_)
Pump(w) ==
    LET size  == Len(w.buf) + 1 - w.pos
        sends == IF w.write /\ w.ready THEN 0..size ELSE {0}
        After(k) ==
            IF k = 0 THEN [w EXCEPT !.ready = @ /\ (size = 0 \/ ~w.write)]
            ELSE [w EXCEPT !.out = @ \o SubSeq(w.buf, w.pos, w.pos + k - 1), !.ready = k = size,
                           !.pos = IF k = size THEN 1 ELSE @ + k,
                           !.buf = IF k = size THEN << >> ELSE @]
        Receive(v) ==
            LET n == Min({Arrived(v.in), v.cap - Len(v.buf)})
            IN  IF v.cap = Len(v.buf) \/ v.in = << >> THEN {v}
                ELSE IF n = 0 THEN {[v EXCEPT !.eof = TRUE]}
                ELSE Pump([v EXCEPT !.write = TRUE, !.buf = @ \o SubSeq(v.in, 1, n),
                                    !.in = SubSeq(@, n + 1, Len(@))])
    IN  UNION {Receive(After(k)) : k \in sends}

Downward == [buf |-> peer.buf, pos |-> peer.pos, in |-> peer.in, out |-> down, eof |-> peer.eof,
             cap |-> script.peercap, ready |-> TRUE, write |-> TRUE]

Upward == [buf |-> s.buf, pos |-> s.pos, in |-> sock, out |-> up, eof |-> peer.ceof,
           cap |-> conf.cap, ready |-> TRUE, write |-> TRUE]

Empty(w) == w.pos = Len(w.buf) + 1

OverAtEof(c, u) == c.eof \/ u.eof

(* The session is over when one side has closed and what it sent was sent  *)
(* on, or when both have.                                                  *)
Over(c, u) == (c.eof /\ Empty(c)) \/ (u.eof /\ Empty(u)) \/ (c.eof /\ u.eof)

Relay ==
    /\ peer.conn = "relay"
    /\ \E write \in BOOLEAN, downward \in BOOLEAN :
       \E w \in Pump([IF downward THEN Downward ELSE Upward EXCEPT !.write = write]) :
          LET c == IF downward THEN Upward ELSE w
              u == IF downward THEN w ELSE Downward
          IN  /\ down' = u.out /\ up' = c.out /\ sock' = c.in
              /\ IF Over(c, u) THEN s' = Closed(s) /\ peer' = [NoPeer EXCEPT !.eof = u.eof, !.ceof = c.eof]
                 ELSE /\ s' = [s EXCEPT !.buf = c.buf, !.pos = c.pos]
                      /\ peer' = [peer EXCEPT !.buf = u.buf, !.pos = u.pos, !.in = u.in,
                                              !.eof = u.eof, !.ceof = c.eof]
    /\ UNCHANGED <<script, segs, rest, ev, replies, heard, auth, asked, lines>>

(* A send that fails, or nothing from the client for too long.             *)
RelayCut ==
    /\ peer.conn = "relay"
    /\ s' = Closed(s) /\ peer' = NoPeer
    /\ UNCHANGED <<script, segs, rest, sock, ev, replies, heard, auth, asked, lines, down, up>>

Next == \/ SessionNext /\ UNCHANGED proxy
        \/ AuthHttpStart \/ AuthHttpWrite \/ AuthServerSends \/ AuthHttpRead \/ AuthSleepHandler
        \/ BackendSays \/ ProxyLogin \/ ProxyTimeout \/ Relay \/ RelayCut

Spec == Init /\ [][Next]_vars

----------------------------------------------------------------------------
(* Every command is heard as it was meant, and the authentication server   *)
(* is asked, at each attempt, for exactly the user and password of that    *)
(* attempt, and the same again after it said to wait: nothing of an        *)
(* attempt that failed, of a command that was refused or of a line that    *)
(* came in pieces is left in the session (ngx_mail_auth,                   *)
(* ngx_mail_auth_http_create_request).                                     *)
AsksAsTold ==
    /\ HeardAsMeant
    /\ \A k \in DOMAIN asked :
          /\ asked[k].attempt <= Len(script.logins)
          /\ asked[k].login = script.logins[asked[k].attempt].login
          /\ asked[k].passwd = script.logins[asked[k].attempt].passwd
          /\ asked[k].method = script.logins[asked[k].attempt].method

(* A client that is relayed was let in by the authentication server's last *)
(* answer and accepted by the mail server as the user of that answer; what *)
(* each side sent is passed to the other once and in order; and when the   *)
(* mail server is the one that closes, all it sent has reached the client  *)
(* (ngx_mail_auth_http_process_headers, ngx_mail_proxy_handler).           *)
FromBackend == FlattenSeq(SubSeq(script.backend, Len(lines) + 2, Len(script.backend)))

Greeting == IF conf.protocol = "smtp" /\ s.method # "none" THEN SmtpAuthOk
            ELSE script.backend[Len(lines) + 1]

RelaysFaithfully ==
    /\ peer.conn = "relay" => /\ script.answers[Len(asked)].lets
                              /\ lines = script.answers[Len(asked)].lines
    /\ down # << >> => IsPrefix(down, Greeting \o FromBackend)
    /\ IsPrefix(up, script.data)
    /\ peer.conn = "none" /\ peer.eof /\ ~peer.ceof => down = Greeting \o FromBackend
=============================================================================
