---------------------------- MODULE MailSession -----------------------------
(***************************************************************************)
(* A mail client before it is proxied (ngx_mail_handler.c, ngx_mail_       *)
(* parse.c and the POP3, IMAP and SMTP handlers): its commands arrive in   *)
(* pieces, the protocol's parser is called on what is there, and the       *)
(* handler of the session's state answers, until a command completes a     *)
(* login and the session goes to the authentication server (MailProxy).    *)
(*                                                                         *)
(* A word (of a command, or in base64) is one character.  Each reply is of *)
(* two units, so that a send may be short.  A position is an index of the  *)
(* buffer, and 0 is NULL.                                                  *)
(***************************************************************************)
EXTENDS Integers, Sequences, SequencesExt, FiniteSetsExt, TLC

CONSTANTS Scripts    \* what the peers of a session do, and the configuration

VARIABLES script, s, segs, rest, sock, ev, replies, heard

mail == <<script, s, segs, rest, sock, ev, replies, heard>>

conf == script.conf

Digest == <<"d">>      \* stands for 32 characters

(* basis64 for the characters of a word: 77 is a character that base64     *)
(* does not have, and Pad is '='.                                          *)
Pad == 64

basis64 == ("dQ==" :> <<29, 16, Pad, Pad>>) @@ ("cA==" :> <<28, 0, Pad, Pad>>)
           @@ ("AHUAcA==" :> <<0, 7, 20, 0, 28, 0, Pad, Pad>>) @@ ("AHU=" :> <<0, 7, 20, Pad>>)
           @@ ("dSBk" :> <<29, 18, 1, 36>>) @@ ("dSBw" :> <<29, 18, 1, 48>>)
           @@ ("u" :> <<46>>) @@ ("p" :> <<41>>)

Ascii == (0 :> "NUL") @@ (32 :> " ") @@ (100 :> "d") @@ (112 :> "p") @@ (117 :> "u")

NoText == [text |-> << >>, null |-> TRUE]

Text(t) == [text |-> t, null |-> FALSE]

(* ngx_mail_init_connection and ngx_mail_init_session                      *)
NewSession ==
    [handler |-> "new", buf |-> << >>, pos |-> 1, state |-> "start", rc |-> "again",
     command |-> "none", args |-> << >>, arg_start |-> 0, arg_end |-> 0, cmd_start |-> 0,
     quoted |-> FALSE, backslash |-> FALSE, nosync |-> FALSE, literal |-> 0, tag |-> << >>,
     mail |-> "start", login |-> << >>, passwd |-> NoText, method |-> "plain",
     salt |-> FALSE, host |-> "none", helo |-> << >>, from |-> << >>, to |-> << >>,
     esmtp |-> FALSE, wait |-> FALSE, attempt |-> 0, quit |-> FALSE, blocked |-> FALSE,
     out |-> "none", len |-> 0, ssl |-> FALSE]

----------------------------------------------------------------------------
(* The command parsers, one character at a time: rc is "again" until the   *)
(* line is complete or wrong.                                              *)
Ends == {" ", "CR", "LF"}

Others == {"1", "2", "q", "{", "}", "+", "bs"}      \* not letters; q is a double quote

Invalid(t) == [t EXCEPT !.rc = "bad", !.state = "start", !.arg_start = 0]

Push(t, end) == [t EXCEPT !.args = Append(@, SubSeq(t.buf, t.arg_start, end - 1)),
                          !.arg_start = 0]

Parsed(t, p, auth) ==
    LET u == IF t.arg_start = 0 THEN t ELSE Push(t, t.arg_end)
    IN  [u EXCEPT !.rc = "ok", !.pos = p + 1,
                  !.state = IF t.command = auth THEN "argument" ELSE "start"]

(* After a word that c ends.                                               *)
Ended(t, c, p, auth) == CASE c = " " -> [t EXCEPT !.state = "spaces"]
                          [] c = "CR" -> [t EXCEPT !.state = "almost_done"]
                          [] OTHER -> Parsed(t, p, auth)

WordChar(t, c, p, commands, limit, spaced) ==
    CASE t.state = "start" ->
           IF c \in Ends
           THEN IF p = 2 /\ t.buf[1] \in commands
                THEN Ended([t EXCEPT !.command = t.buf[1]], c, p, "AUTH") ELSE Invalid(t)
           ELSE IF c \in Others THEN Invalid(t) ELSE t
      [] t.state = "spaces" ->
           (CASE c = " " -> t
              [] c \in Ends -> Ended([t EXCEPT !.arg_end = p], c, p, "AUTH")
              [] OTHER -> IF Len(t.args) <= limit
                          THEN [t EXCEPT !.state = "argument", !.arg_start = p] ELSE Invalid(t))
      [] t.state = "argument" ->
           IF c \in Ends /\ ~(c = " " /\ t.command \in spaced)
           THEN Ended(Push(t, p), c, p, "AUTH") ELSE t
      [] OTHER -> IF c = "LF" THEN Parsed(t, p, "AUTH") ELSE Invalid(t)

Pop3Char(t, c, p) ==
    WordChar(t, c, p, {"USER", "PASS", "APOP", "QUIT", "CAPA", "AUTH", "NOOP", "STLS"}, 2,
             {"USER", "PASS"})

SmtpChar(t, c, p) ==
    WordChar(t, c, p, {"HELO", "EHLO", "QUIT", "AUTH", "NOOP", "MAIL", "RSET", "RCPT", "VRFY",
                       "EXPN", "HELP", "STARTTLS"}, 10, {})

ImapBad(t) == [t EXCEPT !.rc = "bad", !.state = "start"]

ImapInvalid(t) == [ImapBad(t) EXCEPT !.quoted = FALSE, !.nosync = FALSE, !.literal = 0]

ImapDone(t, p) ==
    LET u == Parsed(t, p, "AUTHENTICATE")
    IN  IF t.arg_start = 0 THEN u
        ELSE [u EXCEPT !.cmd_start = 0, !.quoted = FALSE, !.nosync = FALSE, !.literal = 0]

ImapEnded(t, c, p) == IF c = "LF" THEN ImapDone(t, p) ELSE Ended(t, c, p, "AUTHENTICATE")

ImapCommands == {"NOOP", "LOGIN", "LOGOUT", "STARTTLS", "CAPABILITY", "AUTHENTICATE"}

ImapTag(t, c, p) ==
    CASE t.state = "start" /\ c = " " ->
           [t EXCEPT !.tag = SubSeq(t.buf, 1, p), !.state = "before_command"]
      [] t.state # "command" /\ c \in {"CR", "LF"} -> ImapBad(t)
      [] t.state = "before_command" /\ c # " " ->
           [t EXCEPT !.cmd_start = p, !.state = "command"]
      [] t.state = "command" /\ c \in Ends ->
           IF p - t.cmd_start = 1 /\ t.buf[t.cmd_start] \in ImapCommands
           THEN ImapEnded([t EXCEPT !.command = t.buf[t.cmd_start]], c, p) ELSE ImapInvalid(t)
      [] t.state = "command" /\ c \in Others -> ImapInvalid(t)
      [] OTHER -> t

ImapArgument(t, c, p) ==
    CASE t.state = "spaces" ->
           (CASE c = " " -> t
              [] c \in Ends -> ImapEnded([t EXCEPT !.arg_end = p], c, p)
              [] Len(t.args) > 2 -> ImapInvalid(t)
              [] c = "q" -> [t EXCEPT !.quoted = TRUE, !.arg_start = p + 1, !.state = "argument"]
              [] c = "{" -> [t EXCEPT !.state = "literal"]
              [] OTHER -> [t EXCEPT !.arg_start = p, !.state = "argument"])
      [] t.state = "argument" ->
           (CASE c = " " /\ t.quoted -> t
              [] c = "q" /\ t.quoted -> [Push(t, p) EXCEPT !.quoted = FALSE, !.state = "spaces"]
              [] c \in Ends -> ImapEnded(Push(t, p), c, p)
              [] c = "bs" /\ t.quoted -> [t EXCEPT !.backslash = TRUE, !.state = "backslash"]
              [] OTHER -> t)
      [] OTHER -> IF c \in {"CR", "LF"} THEN ImapInvalid(t) ELSE [t EXCEPT !.state = "argument"]

Numerals == <<"1", "2">>

ImapLiteral(t, c, p) ==
    CASE t.state = "literal" ->
           (CASE c \in ToSet(Numerals) ->
                   [t EXCEPT !.literal = @ * 10 + CHOOSE k \in 1..2 : Numerals[k] = c]
              [] c = "}" -> [t EXCEPT !.state = "start_literal"]
              [] c = "+" -> [t EXCEPT !.state = "no_sync"]
              [] OTHER -> ImapInvalid(t))
      [] t.state = "no_sync" -> IF c = "}" THEN [t EXCEPT !.nosync = TRUE, !.state = "start_literal"]
                                ELSE ImapInvalid(t)
      [] t.state = "start_literal" ->
           (CASE c = "CR" -> t
              [] c = "LF" -> [t EXCEPT !.pos = p + 1, !.arg_start = p + 1, !.state = "in_literal",
                                       !.nosync = FALSE, !.rc = IF t.nosync THEN @ ELSE "next"]
              [] OTHER -> ImapInvalid(t))
      [] t.state = "in_literal" ->
           IF t.literal > 1 THEN [t EXCEPT !.literal = @ - 1]
           ELSE [Push(t, p + 1) EXCEPT !.literal = 0, !.state = "end_literal"]
      [] t.state = "end_literal" ->
           (CASE c = "{" -> IF Len(t.args) <= 2 THEN [t EXCEPT !.state = "literal"] ELSE ImapInvalid(t)
              [] c \in {"CR", "LF"} -> ImapEnded(t, c, p)
              [] OTHER -> [t EXCEPT !.state = "spaces"])
      [] OTHER -> IF c = "LF" THEN ImapDone(t, p) ELSE ImapInvalid(t)

ImapChar(t, c, p) ==
    CASE t.state \in {"start", "before_command", "command"} -> ImapTag(t, c, p)
      [] t.state \in {"spaces", "argument", "backslash"} -> ImapArgument(t, c, p)
      [] OTHER -> ImapLiteral(t, c, p)

CommandChar(t, c, p) == CASE conf.protocol = "pop3" -> Pop3Char(t, c, p)
                          [] conf.protocol = "imap" -> ImapChar(t, c, p)
                          [] OTHER -> SmtpChar(t, c, p)

----------------------------------------------------------------------------
(* Logins in base64.                                                       *)
Sextets(t) ==
    LET all == FlattenSeq([k \in DOMAIN t |-> IF t[k] \in DOMAIN basis64 THEN basis64[t[k]] ELSE <<77>>])
        end == SelectInSeq(all, LAMBDA v : v = Pad)
    IN  IF end = 0 THEN all ELSE SubSeq(all, 1, end - 1)

Decodes(t) == 77 \notin ToSet(Sextets(t)) /\ Len(Sextets(t)) % 4 # 1

(* Three bytes of every four sextets, one less for each that is missing:   *)
(* bits of rest are not part of a byte yet.                                *)
Decoded(t) ==
    LET Join(a, v) ==
            LET w == a.rest * 64 + v
                unit == 2 ^ (a.bits - 2)
            IN  IF a.bits = 0 THEN [a EXCEPT !.bits = 6, !.rest = v]
                ELSE [bits |-> a.bits - 2, rest |-> w % unit,
                      text |-> Append(a.text, Ascii[w \div unit])]
    IN  FoldLeft(Join, [bits |-> 0, rest |-> 0, text |-> << >>], Sextets(t)).text

Bad(t) == [t EXCEPT !.rc = "bad"]

Say(t, what) == [t EXCEPT !.out = what]

StarttlsOnly(t) == ~t.ssl /\ conf.starttls = "only"

AuthPlain(t, text) ==
    LET d  == IF Decodes(text) THEN Decoded(text) ELSE << >>
        n  == SelectInSeq(d, LAMBDA c : c = "NUL")
        m  == SelectInSeq(SubSeq(d, n + 1, Len(d)), LAMBDA c : c = "NUL")
    IN  IF ~Decodes(text) \/ n = 0 \/ m = 0 THEN Bad(t)
        ELSE [t EXCEPT !.login = SubSeq(d, n + 1, n + m - 1), !.rc = "done",
                       !.passwd = Text(SubSeq(d, n + m + 1, Len(d)))]

AuthLoginUsername(t, text) == IF Decodes(text) THEN [t EXCEPT !.login = Decoded(text)] ELSE Bad(t)

AuthLoginPassword(t, text) ==
    IF Decodes(text) THEN [t EXCEPT !.passwd = Text(Decoded(text)), !.rc = "done"] ELSE Bad(t)

(* The digest's length is all that is looked at.                           *)
AuthCramMd5(t, text) ==
    LET d == IF Decodes(text) THEN Decoded(text) ELSE << >>
        n == SelectInSeq(d, LAMBDA c : c = " ")
        u == IF n = 0 THEN [t EXCEPT !.login = d]
             ELSE [t EXCEPT !.login = SubSeq(d, 1, n - 1),
                            !.passwd = Text(SubSeq(d, n + 1, Len(d)))]
    IN  IF ~Decodes(text) THEN Bad(t)
        ELSE IF u.passwd.text # Digest THEN Bad(u)
        ELSE [u EXCEPT !.method = "cram-md5", !.rc = "done"]

(* ngx_mail_auth_parse, and what the handlers do with its result.          *)
AuthParse(t) ==
    LET n    == Len(t.args)
        mech == IF n = 0 THEN "none" ELSE IF Len(t.args[1]) = 1 THEN t.args[1][1] ELSE "none"
    IN  CASE mech = "LOGIN" /\ n = 1 -> [Say(t, "username") EXCEPT !.mail = "login_username"]
          [] mech = "LOGIN" /\ n = 2 ->
               AuthLoginUsername([Say(t, "password") EXCEPT !.mail = "login_password"], t.args[2])
          [] mech = "PLAIN" /\ n = 1 -> [Say(t, "next") EXCEPT !.mail = "plain"]
          [] mech = "PLAIN" /\ n = 2 -> AuthPlain(t, t.args[2])
          [] mech = "CRAM-MD5" /\ n = 1 /\ "cram-md5" \in conf.methods ->
               [Say(t, "salt") EXCEPT !.mail = "cram_md5", !.salt = TRUE]
          [] OTHER -> Bad(t)

(* The answers to what the AUTH commands ask for.                          *)
Answers == {"login_username", "login_password", "plain", "cram_md5"}

Answer(t) ==
    CASE t.mail = "login_username" ->
           AuthLoginUsername([Say(t, "password") EXCEPT !.mail = "login_password"], t.args[1])
      [] t.mail = "login_password" -> AuthLoginPassword(t, t.args[1])
      [] t.mail = "plain" -> AuthPlain(t, t.args[1])
      [] OTHER -> AuthCramMd5(t, t.args[1])

Starttls(t) == IF ~t.ssl /\ conf.starttls # "off" THEN [t EXCEPT !.handler = "starttls"]
               ELSE Bad(t)

Pop3User(t) == IF StarttlsOnly(t) \/ Len(t.args) # 1 THEN Bad(t)
               ELSE [t EXCEPT !.login = t.args[1], !.mail = "user"]

Pop3Pass(t) == IF Len(t.args) # 1 THEN Bad(t)
               ELSE [t EXCEPT !.passwd = Text(t.args[1]), !.rc = "done"]

Pop3Apop(t) == IF StarttlsOnly(t) \/ Len(t.args) # 2 \/ "apop" \notin conf.methods THEN Bad(t)
               ELSE [t EXCEPT !.login = t.args[1], !.passwd = Text(t.args[2]),
                              !.method = "apop", !.rc = "done"]

Pop3Auth(t) == CASE StarttlsOnly(t) -> Bad(t)
                 [] t.args = << >> -> [Say(t, "auth_capability") EXCEPT !.state = "start"]
                 [] OTHER -> AuthParse(t)

Pop3State(t) ==
    CASE t.mail \in Answers -> Answer(t)
      [] t.command = "QUIT" -> [t EXCEPT !.quit = TRUE]
      [] t.command = "NOOP" -> t
      [] t.command = "CAPA" -> Say(t, "capability")
      [] t.mail = "user" -> IF t.command = "PASS" THEN Pop3Pass(t) ELSE Bad(t)
      [] t.command = "USER" -> Pop3User(t)
      [] t.command = "APOP" -> Pop3Apop(t)
      [] t.command = "AUTH" -> Pop3Auth(t)
      [] t.command = "STLS" -> Starttls(t)
      [] OTHER -> Bad(t)

ImapLogin(t) ==
    IF StarttlsOnly(t) \/ Len(t.args) # 2 THEN Bad(t)
    ELSE IF t.args[1] = << >> THEN Bad(t)
    ELSE [t EXCEPT !.login = t.args[1], !.passwd = Text(t.args[2]), !.rc = "done"]

ImapAuthenticate(t) == IF StarttlsOnly(t) THEN Bad(t) ELSE AuthParse(t)

ImapState(t) ==
    CASE t.mail \in Answers -> Answer(t)
      [] t.command = "LOGIN" -> ImapLogin(t)
      [] t.command = "AUTHENTICATE" -> ImapAuthenticate(t)
      [] t.command = "CAPABILITY" -> Say(t, "capability")
      [] t.command = "LOGOUT" -> [Say(t, "bye") EXCEPT !.quit = TRUE]
      [] t.command = "STARTTLS" -> Starttls(t)
      [] OTHER -> t

SmtpHelo(t) ==
    IF Len(t.args) # 1 THEN [Say(t, "invalid_argument") EXCEPT !.state = "start"]
    ELSE [Say(t, "capability") EXCEPT !.helo = t.args[1], !.from = << >>, !.to = << >>,
                                      !.esmtp = @ \/ t.command = "EHLO"]

SmtpAuth(t) == CASE StarttlsOnly(t) -> Bad(t)
                 [] t.args = << >> -> [Say(t, "invalid_argument") EXCEPT !.state = "start"]
                 [] OTHER -> AuthParse(t)

(* The line that is in the buffer, without its end.                        *)
BufferLine(t) ==
    LET l == [k \in DOMAIN t.buf |-> IF t.buf[k] \in Ends THEN " " ELSE t.buf[k]]
    IN  SubSeq(l, 1, SelectLastInSeq(l, LAMBDA c : c # " "))

SmtpMail(t) == CASE "none" \notin conf.methods -> Say(t, "auth_required")
                 [] t.from # << >> -> Say(t, "bad_sequence")
                 [] OTHER -> [t EXCEPT !.from = BufferLine(t)]

SmtpRcpt(t) == IF t.from = << >> THEN Say(t, "bad_sequence")
               ELSE [t EXCEPT !.to = BufferLine(t), !.method = "none", !.rc = "done"]

SmtpRset(t) == [t EXCEPT !.from = << >>, !.to = << >>]

SmtpStarttls(t) ==
    LET u == Starttls(Say(t, "starttls"))
    IN  IF u.rc = "bad" THEN u ELSE [u EXCEPT !.helo = << >>, !.from = << >>, !.to = << >>]

SmtpState(t) ==
    CASE t.mail \in Answers -> Answer(t)
      [] t.command \in {"HELO", "EHLO"} -> SmtpHelo(t)
      [] t.command = "AUTH" -> SmtpAuth(t)
      [] t.command = "QUIT" -> [Say(t, "bye") EXCEPT !.quit = TRUE]
      [] t.command = "MAIL" -> SmtpMail(t)
      [] t.command = "RCPT" -> SmtpRcpt(t)
      [] t.command = "RSET" -> SmtpRset(t)
      [] t.command = "NOOP" -> t
      [] t.command = "STARTTLS" -> SmtpStarttls(t)
      [] OTHER -> Bad(t)

----------------------------------------------------------------------------
(* ngx_mail_send with one of its outcomes.  A short send takes the length  *)
(* down and leaves the data where they are.                                *)
Closed(t) == [t EXCEPT !.handler = "closed", !.len = 0]

Sent(t, how) ==
    CASE t.len = 0 -> t
      [] how = "again" -> t
      [] how = "error" \/ t.quit -> Closed(t)
      [] OTHER -> [t EXCEPT !.len = IF how = "part" THEN @ - 1 ELSE 0]

(* A step that ends in ngx_mail_send: a handler that was kept from reading *)
(* is called again when something was sent.                                *)
Sends(t) ==
    \E how \in conf.sends :
       LET u == Sent(t, how)
       IN  /\ s' = u
           /\ replies' = IF t.len > 0 /\ u.len = 0 THEN replies + 1 ELSE replies
           /\ ev' = (ev \/ (u.len < t.len /\ u.blocked))

Replying(t, what) == [t EXCEPT !.out = what, !.len = 2]

(* ngx_mail_session_internal_server_error                                  *)
ServerError(t) == [Replying(t, "internal_server_error") EXCEPT !.quit = TRUE]

(* ngx_mail_auth: what is left in the buffer is forgotten.                 *)
Auth(t) == [t EXCEPT !.args = << >>, !.buf = << >>, !.pos = 1, !.state = "start",
                     !.attempt = @ + 1, !.handler = "auth_http", !.len = 0]

(* The ends of the auth_state handlers, after a command.                   *)
Pop3Ends(t) ==
    LET u == IF t.rc = "bad"
             THEN [Say(t, "invalid_command") EXCEPT !.mail = "start", !.state = "start"] ELSE t
    IN  [u EXCEPT !.args = << >>, !.buf = << >>, !.pos = 1,
                  !.arg_start = IF u.state = "start" THEN @ ELSE 1]

ImapEnds(t) ==
    LET u == IF t.rc = "bad"
             THEN [Say(t, "invalid_command") EXCEPT !.mail = "start", !.state = "start"] ELSE t
        n == IF u.state = "start" THEN 0 ELSE Len(u.tag)
    IN  IF t.rc = "next" THEN Say(u, "next")
        ELSE [u EXCEPT !.args = << >>, !.buf = SubSeq(@, 1, n), !.pos = n + 1,
                       !.arg_start = IF u.state = "start" THEN @ ELSE n + 1,
                       !.tag = SubSeq(@, 1, n)]

(* What the IMAP handler does to arguments in which quotes were escaped.   *)
Unescape(text) ==
    LET One(acc, c) == IF acc.skip \/ c # "bs" THEN [out |-> Append(acc.out, c), skip |-> FALSE]
                       ELSE [acc EXCEPT !.skip = TRUE]
    IN  FoldLeft(One, [out |-> << >>, skip |-> FALSE], text).out

Unescaped(t) == IF ~t.backslash THEN t
                ELSE [t EXCEPT !.args = [k \in DOMAIN @ |-> Unescape(@[k])], !.backslash = FALSE]

(* What can be received before the end of the stream.                      *)
Arrived(q) == Len(SelectSeq(q, LAMBDA c : c # "EOF"))

(* ngx_mail_read_command                                                   *)
ReadCommand(t, n) ==
    LET buf == t.buf \o SubSeq(sock, 1, n)
        One(acc, p) == IF acc.rc # "again" THEN acc ELSE CommandChar(acc, buf[p], p)
        Rest(u) == IF u.rc # "again" THEN u
                   ELSE IF Len(buf) < conf.cap THEN [u EXCEPT !.pos = Len(buf) + 1]
                   ELSE [u EXCEPT !.quit = TRUE, !.rc = "bad"]
    IN  Rest(FoldLeft(One, [t EXCEPT !.buf = buf, !.rc = "again"],
                      [k \in 1..(Len(buf) + 1 - t.pos) |-> t.pos + k - 1]))

(* ngx_mail_pop3_auth_state, ngx_mail_imap_auth_state and                  *)
(* ngx_mail_smtp_auth_state, with what the client has sent.                *)
Handled(u, v) ==
    CASE u.rc # "ok" -> [u EXCEPT !.len = 2]
      [] conf.protocol = "pop3" -> Pop3State(v)
      [] conf.protocol = "imap" -> ImapState(v)
      [] OTHER -> SmtpState(v)

AuthState(t) ==
    LET n == Min({Arrived(sock), conf.cap - Len(t.buf)})
    IN  IF t.len > 0
        THEN s' = [t EXCEPT !.blocked = TRUE] /\ ev' = FALSE /\ UNCHANGED <<sock, replies, heard>>
        ELSE IF sock = << >>
        THEN s' = [t EXCEPT !.blocked = FALSE] /\ ev' = FALSE /\ UNCHANGED <<sock, replies, heard>>
        ELSE \E u \in {ReadCommand([t EXCEPT !.blocked = FALSE], n)} :
             \E v \in {Unescaped([u EXCEPT !.out = "ok", !.len = 2])} :
             \E w \in {Handled(u, v)} :
             /\ sock' = SubSeq(sock, n + 1, Len(sock))
             /\ heard' = IF u.rc # "ok" THEN heard
                         ELSE Append(heard, [command |-> IF t.mail \in Answers THEN "" ELSE v.command,
                                             args |-> v.args])
             /\ CASE n = 0 -> s' = Closed(t) /\ ev' = FALSE /\ UNCHANGED replies
                  [] n > 0 /\ u.rc = "again" -> s' = u /\ ev' = FALSE /\ UNCHANGED replies
                  [] n > 0 /\ w.rc = "done" -> s' = Auth(w) /\ ev' = FALSE /\ UNCHANGED replies
                  [] OTHER -> \E z \in {IF conf.protocol = "imap" THEN ImapEnds(w) ELSE Pop3Ends(w)} :
                              \E how \in conf.sends :
                                 /\ s' = Sent(z, how)
                                 /\ replies' = IF s'.len = 0 THEN replies + 1 ELSE replies
                                 /\ ev' = FALSE

----------------------------------------------------------------------------
(* The wire form of a command: its arguments are plain, quoted, or sent as *)
(* literals, the client waiting to be told to go on or not.                *)
Escaped(text) ==
    FlattenSeq([k \in DOMAIN text |-> IF text[k] \in {"q", "bs"} THEN <<"bs", text[k]>>
                                      ELSE <<text[k]>>])

AddArgument(acc, a) ==
    LET line  == Last(acc)
        count == IF Len(a.text) > 0 THEN <<Numerals[Len(a.text)]>> ELSE << >>
    IN  CASE a.style = "plain"  -> Append(Front(acc), line \o <<" ">> \o a.text)
          [] a.style = "quoted" ->
               Append(Front(acc), line \o <<" ", "q">> \o Escaped(a.text) \o <<"q">>)
          [] a.style = "nosync" ->
               Append(Front(acc), line \o <<" ", "{">> \o count \o <<"+", "}", "CR", "LF">> \o a.text)
          [] OTHER ->
               Front(acc) \o <<line \o <<" ", "{">> \o count \o <<"}", "CR", "LF">>, a.text>>

Segments(q, protocol) ==
    LET start == IF q.command = "" THEN q.args[1].text
                 ELSE IF protocol = "imap" THEN <<"t", " ", q.command>> ELSE <<q.command>>
        all   == FoldLeft(AddArgument, <<start>>, IF q.command = "" THEN << >> ELSE q.args)
    IN  Append(Front(all), Last(all) \o <<"CR", "LF">>)

(* All that the client of a session sends: commands, and then the data     *)
(* that are relayed.                                                       *)
Stream == FlattenSeq([k \in DOMAIN script.commands |-> Segments(script.commands[k], conf.protocol)])
          \o IF script.data = << >> THEN << >> ELSE <<script.data>>

(* The client sends a segment when the one before it was answered, or      *)
(* when it is relayed, and may hang up at the end.                         *)
Arrive ==
    /\ s.handler \notin {"new", "resolve_addr", "resolve_name", "closed"}
    /\ \/ /\ rest # << >>
          /\ \E n \in script.pieces :
                LET k == Min({n, Len(rest)})
                IN  sock' = sock \o SubSeq(rest, 1, k) /\ rest' = SubSeq(rest, k + 1, Len(rest))
          /\ UNCHANGED segs
       \/ /\ rest = << >> /\ segs # << >>
          /\ replies > Len(Stream) - Len(segs) \/ script.hurry \/ s.handler = "relay"
          /\ rest' = Head(segs) /\ segs' = Tail(segs) /\ UNCHANGED sock
       \/ /\ rest = << >> /\ segs = << >> /\ script.hangup /\ "EOF" \notin ToSet(sock)
          /\ sock' = Append(sock, "EOF") /\ UNCHANGED <<rest, segs>>
    /\ ev' = (sock' # sock \/ ev)
    /\ UNCHANGED <<script, s, replies, heard>>

(* The greeting of each protocol; that of SMTP waits for the resolver, and *)
(* then for a while in which the client must be silent.                    *)
InitSession ==
    /\ s.handler = "new"
    /\ LET t == Replying([s EXCEPT !.salt = conf.protocol = "pop3"
                                           /\ conf.methods \cap {"apop", "cram-md5"} # {}], "greeting")
       IN  IF conf.protocol = "smtp"
           THEN /\ s' = [s EXCEPT !.handler = IF conf.resolver THEN "resolve_addr" ELSE "greeting",
                                  !.host = IF conf.resolver THEN @ ELSE "[UNAVAILABLE]"]
                /\ UNCHANGED <<ev, replies>>
           ELSE Sends([t EXCEPT !.handler = "init_protocol"])
    /\ UNCHANGED <<script, segs, rest, sock, heard>>

Unresolved(t, why) ==
    [t EXCEPT !.handler = "greeting",
              !.host = IF why = "nxdomain" THEN "[UNAVAILABLE]" ELSE "[TEMPUNAVAIL]"]

SmtpResolveAddr ==
    /\ s.handler = "resolve_addr"
    /\ \/ \E why \in {"nxdomain", "servfail"} : s' = Unresolved(s, why)
       \/ s' = [s EXCEPT !.handler = "resolve_name", !.host = "name"]
    /\ UNCHANGED <<script, segs, rest, sock, ev, replies, heard>>

SmtpResolveName ==
    /\ s.handler = "resolve_name"
    /\ \/ \E why \in {"nxdomain", "servfail"} : s' = Unresolved(s, why)
       \/ \E same \in BOOLEAN :
             s' = [s EXCEPT !.handler = "greeting", !.host = IF same THEN @ ELSE "[UNAVAILABLE]"]
    /\ UNCHANGED <<script, segs, rest, sock, ev, replies, heard>>

SmtpGreeting ==
    /\ s.handler = "greeting"
    /\ IF conf.delay THEN s' = [s EXCEPT !.handler = "pipelining"] /\ UNCHANGED <<ev, replies>>
       ELSE Sends([Replying(s, "greeting") EXCEPT !.handler = "init_protocol"])
    /\ UNCHANGED <<script, segs, rest, sock, heard>>

ReadEvent ==
    /\ ev
    /\ CASE s.handler = "init_protocol" ->
              AuthState([s EXCEPT !.mail = "start", !.handler = "auth_state"])
         [] s.handler = "auth_state" -> AuthState(s)
         [] s.handler = "starttls" ->
              /\ s' \in {[s EXCEPT !.ssl = TRUE, !.mail = "start", !.handler = "auth_state"], Closed(s)}
              /\ ev' = FALSE
              /\ UNCHANGED <<sock, replies, heard>>
         [] s.handler = "pipelining" ->
              LET n == Min({Arrived(sock), conf.cap})
              IN  /\ sock' = SubSeq(sock, n + 1, Len(sock))
                  /\ IF sock = << >> THEN ev' = FALSE /\ UNCHANGED <<s, replies>>
                     ELSE IF n = 0 THEN s' = Closed(s) /\ ev' = FALSE /\ UNCHANGED replies
                     ELSE Sends(Replying(s, "invalid_pipelining"))
                  /\ UNCHANGED heard
         [] OTHER -> ev' = FALSE /\ UNCHANGED <<s, sock, replies, heard>>
    /\ UNCHANGED <<script, segs, rest>>

WriteEvent ==
    /\ s.len > 0 /\ s.handler # "closed"
    /\ s.handler = "sleep" => "again" \in conf.sends
    /\ Sends(s)
    /\ UNCHANGED <<script, segs, rest, sock, heard>>

(* The timer of the client's reads, and of its writes.                     *)
ClientTimeout ==
    /\ \/ s.handler \in {"init_protocol", "auth_state"} /\ s' = Closed(s) /\ UNCHANGED <<ev, replies>>
       \/ s.handler = "starttls" /\ s' \in {[s EXCEPT !.ssl = TRUE, !.mail = "start",
                                                       !.handler = "auth_state"], Closed(s)}
          /\ UNCHANGED <<ev, replies>>
       \/ s.len > 0 /\ s.handler # "sleep" /\ s' = Closed(s) /\ UNCHANGED <<ev, replies>>
       \/ s.handler = "pipelining"
          /\ Sends([Replying(s, "greeting") EXCEPT !.handler = "init_protocol"])
    /\ UNCHANGED <<script, segs, rest, sock, heard>>

SessionNext == \/ Arrive \/ InitSession \/ SmtpResolveAddr \/ SmtpResolveName \/ SmtpGreeting
               \/ ReadEvent \/ WriteEvent \/ ClientTimeout

----------------------------------------------------------------------------
(* Every command is heard as it was meant, however it is split over reads, *)
(* quoted, or sent in literals, and whatever commands came before it: a    *)
(* parser that keeps its state between calls must never let a line leave   *)
(* something behind for the next one.                                      *)
HeardAsMeant ==
    \A k \in DOMAIN heard :
       /\ k <= Len(script.commands)
       /\ heard[k].command = script.commands[k].command
       /\ heard[k].args = [j \in DOMAIN script.commands[k].args |-> script.commands[k].args[j].text]
=============================================================================
