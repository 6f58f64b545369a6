------------------------------ MODULE MCReading -------------------------------
(***************************************************************************)
(* Components that read what clients and servers send, explored side by    *)
(* side: focus names the one a behaviour is about, and the variables that  *)
(* it does not have stay "off".                                            *)
(***************************************************************************)
EXTENDS Integers, Sequences, TLC

VARIABLES focus, client, text, got, mem, hin, phase, r, h, hc, served, script, s, segs,
          rest, sock, ev, replies, heard, auth, peer, asked, lines, down, up, config,
          G, q, addr, now, failures, picks, evenly, probe, ctx, wire, clock, noise,
          crashed, setup, node, queue, size, cold, disk, req, del, loader, time, kills,
          policy, tree, file, lru, fds, path, user, changes, o, todo, given, cond,
          batch, posted, arrived, handled

vars == <<focus, client, text, got, mem, hin, phase, r, h, hc, served, script, s, segs,
          rest, sock, ev, replies, heard, auth, peer, asked, lines, down, up, config,
          G, q, addr, now, failures, picks, evenly, probe, ctx, wire, clock, noise,
          crashed, setup, node, queue, size, cold, disk, req, del, loader, time, kills,
          policy, tree, file, lru, fds, path, user, changes, o, todo, given, cond,
          batch, posted, arrived, handled>>

Requests == {"r1", "r2"}

\* Requests: paths of up to four tokens in whole, and requests that are read in pieces
\* into small buffers, pipelined, wrong or sent to one of several virtual servers.
Tok(c) == [raw |-> <<c>>, char |-> c]

Escape(a, b, c) == [raw |-> <<"%", a, b>>, char |-> c]

Tokens == {Tok("/"), Tok("."), Tok("a"), Tok("+"), Escape("2", "e", "."), Escape("2", "F", "/"),
           Escape("2", "5", "%"), Escape("3", "f", "?")}

Field(n, v) == [name |-> n, value |-> v]

Get == [method |-> <<"G", "E", "T">>, host |-> << >>, path |-> <<Tok("/"), Tok("a")>>,
        query |-> << >>, version |-> <<"1", ".", "1">>, headers |-> <<Field(<<"H">>, <<"a">>)>>]

HeaderConf == [small |-> 100, large |-> 100, num |-> 2, merge |-> TRUE, underscores |-> FALSE,
               ignoreInvalid |-> TRUE, servers |-> (<<"a">> :> "A") @@ (<<"b">> :> "B"),
               verify |-> {}, sni |-> [name |-> << >>, server |-> "default"]]

FieldLists ==
    {<< >>, <<Field(<<"L">>, <<"1">>), Field(<<"l">>, <<"1">>)>>,
     <<Field(<<"l">>, <<"x">>), Field(<<"h">>, <<"b">>)>>,
     <<Field(<<"h">>, <<"B">>), Field(<<"T">>, <<"c">>), Field(<<"l">>, <<"3">>)>>,
     <<Field(<<"h">>, <<"B">>), Field(<<"T">>, <<"z">>)>>,
     <<Field(<<"h">>, <<"b", ".", ".">>)>>,
     <<Field(<<"f", "f", "f">>, <<"b", "a", " ", "c">>), Field(<<"c">>, <<"c">>),
       Field(<<"h">>, <<"b", ":">>), Field(<<"x", "-", "x">>, << >>)>>}

Clients ==
    {[requests |-> <<[Get EXCEPT !.version = << >>, !.headers = << >>,
                                 !.path = <<Tok("/")>> \o p]>>,
      reads |-> {100}, conf |-> HeaderConf] : p \in UNION {[1..n -> Tokens] : n \in 0..4}}
    \cup
    {[requests |-> <<[Get EXCEPT !.path = <<Tok("/"), Tok("a"), Tok("."), Tok("b")>>,
                                 !.query = <<"x">>],
                     [Get EXCEPT !.host = <<"b", ".", ":", "8">>,
                                 !.headers = <<Field(<<"F", "f", "F">>, <<"x">>),
                                               Field(<<"h">>, <<"a">>),
                                               Field(<<"l">>, <<"1">>)>>]>>,
      reads |-> {1, 4, 9}, conf |-> [HeaderConf EXCEPT !.small = 12, !.large = 26]]}
    \cup
    {[requests |-> <<request>>, reads |-> {2, 7},
      conf |-> [HeaderConf EXCEPT !.small = 14, !.large = 26, !.num = 3]] :
        request \in {[Get EXCEPT !.headers = l] : l \in FieldLists}
              \cup {[Get EXCEPT !.method = <<"T", "R", "A", "C", "E">>],
                    [Get EXCEPT !.method = <<"P">>, !.version = << >>, !.headers = << >>],
                    [Get EXCEPT !.host = <<"[", ":", "]", ":", "8">>]}}
    \cup
    {[requests |-> <<[Get EXCEPT !.headers = <<Field(<<"h">>, v)>>],
                     [Get EXCEPT !.path = <<Tok("/"), Tok("a"), Tok(" "), Tok("b"), Tok(".")>>]>>,
      reads |-> {9},
      conf |-> [HeaderConf EXCEPT !.small = 20, !.large = 30, !.verify = {"B"},
                                  !.sni = [name |-> <<"a">>, server |-> "A"]]] :
        v \in {<<"a">>, <<"b">>, <<"c">>}}

\* Mail sessions: the commands a client means, in their wire form; the logins they make;
\* what the authentication server answers to each question; and what the mail server says.
Word(x) == [style |-> "plain", text |-> <<x>>]

Cmd(c, l) == [command |-> c, args |-> l]

Reply(x) == <<x, " ", "CR", "LF">>

Head1(n, v) == <<n, ":", " ">> \o v \o <<"CR", "LF">>

Line200 == <<"HTTP/", "200", "CR", "LF">>

HeadersEnd == <<"CR", "LF">>

AuthServer == Head1("Auth-Server", <<"10.0.0.1">>) \o Head1("Auth-Port", <<"25">>)

Refused == [lets |-> FALSE, lines |-> << >>,
            wire |-> Line200 \o Head1("Auth-Status", <<"no">>) \o Head1("Auth-Wait", <<"1">>) \o HeadersEnd]

Wait(n) == [lets |-> FALSE, lines |-> << >>,
            wire |-> Head1("Auth-Status", <<"WAIT">>) \o Head1("Auth-Wait", <<n>>) \o HeadersEnd]

Lets(extra, l) == [lets |-> TRUE, lines |-> l,
                   wire |-> Line200 \o Head1("Auth-Status", <<"OK">>) \o AuthServer \o extra \o HeadersEnd]

Login(u, p, how) == [login |-> u, passwd |-> p, method |-> how]

MailConf == [protocol |-> "pop3", methods |-> {"plain", "apop", "cram-md5", "none"}, starttls |-> "off",
             resolver |-> FALSE, delay |-> FALSE, xclient |-> FALSE, pass_error |-> TRUE,
             sends |-> {"all"}, cap |-> 16]

Script(c, commands, logins, answers, backend, data) ==
    [conf |-> c, commands |-> commands, logins |-> logins, answers |-> answers,
     backend |-> backend, data |-> data, pieces |-> {1, 9}, hangup |-> FALSE, hurry |-> FALSE, authcap |-> 40,
     peercap |-> 5]

Digested == [style |-> "plain", text |-> <<"d">>]

PopLines(u, p) == <<<<"USER", u>>, <<"PASS", p>>>>

Pop3Scripts ==
    {Script(MailConf, <<Cmd("NOOP", << >>),
                        Cmd("USER", <<[style |-> "plain", text |-> <<"v", " ", "w">>]>>),
                        Cmd("PASS", <<Word("p")>>), Cmd("APOP", <<Word("u"), Digested>>)>>,
            <<Login(<<"v", " ", "w">>, <<"p">>, "plain"), Login(<<"u">>, <<"d">>, "apop")>>,
            <<Refused, Lets(Head1("Auth-User", <<"n">>) \o Head1("Auth-Pass", <<"k">>),
                            PopLines(<<"n">>, <<"k">>))>>,
            <<Reply("+OK"), Reply("+OK"), Reply("+OK"), <<"x", "y", "z">>>>, <<"a", "b">>),
     [Script([MailConf EXCEPT !.sends = {"all", "part", "again"}],
             <<Cmd("CAPA", << >>), Cmd("AUTH", <<Word("CRAM-MD5")>>), Cmd("", <<Word("dSBk")>>)>>,
             <<Login(<<"u">>, <<"d">>, "cram-md5")>>,
             <<Wait("1"), [Lets(<< >>, << >>) EXCEPT !.lets = FALSE]>>, << >>, << >>) EXCEPT !.pieces = {9}],
     [Script([MailConf EXCEPT !.sends = {"all", "part", "again", "error"}, !.cap = 3],
             <<Cmd("NOOP", << >>), Cmd("NOOP", << >>), Cmd("NOOP", << >>)>>, << >>, << >>, << >>, << >>)
        EXCEPT !.hurry = TRUE, !.pieces = {2, 3}, !.hangup = TRUE],
     [Script([MailConf EXCEPT !.starttls = "only"],
             <<Cmd("STLS", << >>), Cmd("AUTH", << >>), Cmd("AUTH", <<Word("PLAIN"), Word("u")>>),
               Cmd("AUTH", <<Word("PLAIN"), Word("AHU=")>>), Cmd("AUTH", <<Word("PLAIN"), Word("AHUAcA==")>>)>>,
             <<Login(<<"u">>, <<"p">>, "plain")>>, <<Lets(<< >>, PopLines(<<"u">>, <<"p">>))>>,
             <<Reply("+OK"), Reply("-ERR")>>, << >>) EXCEPT !.pieces = {2}]}

ImapLines(u, p) == <<<<"LOGIN", Len(u)>>, <<u, Len(p)>>, <<p>>>>

ImapScripts ==
    {[Script([MailConf EXCEPT !.protocol = "imap", !.cap = 24],
             <<Cmd("CAPABILITY", << >>), Cmd("LOGIN", <<a, b>>)>>,
             <<Login(a.text, b.text, "plain")>>,
             <<Wait("1"), Lets(<< >>, ImapLines(a.text, b.text))>>,
             <<Reply("* OK"), Reply("+"), Reply("+"), <<"t", " ", "OK", "CR", "LF">>, <<"x">>>>,
             <<"a">>) EXCEPT !.hangup = TRUE, !.pieces = {1, 3}] :
       a \in {[style |-> "quoted", text |-> <<"u", "q", " ">>], [style |-> "nosync", text |-> <<"q", " ">>],
              [style |-> "plain", text |-> <<"u">>]},
       b \in {[style |-> "literal", text |-> <<"p", " ">>], [style |-> "quoted", text |-> <<"bs", "p">>]}}
    \cup
    {Script([MailConf EXCEPT !.protocol = "imap"],
            <<Cmd("AUTHENTICATE", <<Word("LOGIN")>>), Cmd("", <<Word("dQ==")>>), Cmd("", <<Word("cA==")>>),
              Cmd("LOGIN", <<Word("u"), Word("w")>>)>>,
            <<Login(<<"u">>, <<"p">>, "plain"), Login(<<"u">>, <<"w">>, "plain")>>,
            <<Refused, Wait("0"), Wait("1")>>, << >>, << >>)}

SmtpMails == <<Cmd("MAIL", <<Word("from")>>), Cmd("RCPT", <<Word("to")>>)>>

SmtpScripts ==
    {[Script([MailConf EXCEPT !.protocol = "smtp", !.resolver = TRUE, !.xclient = TRUE],
             <<Cmd("EHLO", <<Word("h")>>), Cmd("AUTH", <<Word("LOGIN"), Word("dQ==")>>), Cmd("", <<Word("cA==")>>)>>,
             <<Login(<<"u">>, <<"p">>, "plain")>>,
             <<Lets(<< >>, <<<<"EHLO", "server">>, <<"XCLIENT", <<"u">>>>, <<"EHLO", <<"h">>>>>>)>>,
             <<Reply("220"), Reply("250"), Reply("220"), Reply("250"), <<"x", "y">>>>, <<"a">>)
       EXCEPT !.hangup = TRUE, !.pieces = {9}],
     Script([MailConf EXCEPT !.protocol = "smtp"],
            <<Cmd("HELO", <<Word("h")>>)>> \o SmtpMails \o <<Cmd("RSET", << >>)>> \o SmtpMails,
            <<Login(<< >>, << >>, "none"), Login(<< >>, << >>, "none")>>,
            <<Refused, Lets(<< >>, <<<<"HELO", "server">>, <<"MAIL", " ", "from">>, <<"RCPT", " ", "to">>>>)>>,
            <<Reply("220"), Reply("250"), Reply("250"), Reply("550"), <<"x">>>>, <<"a">>),
     Script([MailConf EXCEPT !.protocol = "smtp", !.delay = TRUE, !.starttls = "on"],
            <<Cmd("STARTTLS", << >>), Cmd("AUTH", << >>), Cmd("QUIT", << >>)>>, << >>, << >>, << >>, << >>),
     [Script([MailConf EXCEPT !.protocol = "smtp", !.delay = TRUE],
             <<Cmd("QUIT", << >>), Cmd("QUIT", << >>)>>, << >>, << >>, << >>, << >>)
        EXCEPT !.hurry = TRUE]}

MailScripts == Pop3Scripts \cup ImapScripts \cup SmtpScripts

Server(w, f) == [weight |-> w, maxFails |-> f, failTimeout |-> 1, down |-> FALSE]

Down == [weight |-> 1, maxFails |-> 1, failTimeout |-> 1, down |-> TRUE]

BalancerConfigurations ==
    {[method |-> "round_robin", failures |-> 2,
      servers |-> <<Server(3, 1), Server(1, 1)>>, backup |-> << >>],
     [method |-> "round_robin", failures |-> 2,
      servers |-> <<Server(1, 2), Down, Server(1, 1)>>, backup |-> <<Server(1, 1)>>],
     [method |-> "round_robin", failures |-> 2,
      servers |-> <<Server(1, 1)>>, backup |-> << >>],
     [method |-> "least_conn", failures |-> 2,
      servers |-> <<Server(2, 1), Server(1, 1)>>, backup |-> <<Server(1, 0)>>],
     [method |-> "ip_hash", failures |-> 2,
      servers |-> <<Server(1, 1), Server(1, 1), Server(2, 1)>>, backup |-> << >>]}

\* What the name servers know: a host, an alias of it, and the name of an address.
Zone ==
    [host |-> [kind |-> "a", data |-> "10.0.0.1"], alias |-> [kind |-> "cname", data |-> "host"],
     rev |-> [kind |-> "ptr", data |-> "host"]]

\* Two contexts ask for anything, a third for the name the alias stands for.
Lookups == [c1 |-> DOMAIN Zone, c2 |-> DOMAIN Zone, c3 |-> {"host"}]

\* Settings of the response cache: a cold zone with a file of an earlier run; a response
\* that is kept from its second use on; and a lock whose holder may be killed.
CacheSetting(uses, lock, stale, isCold, files, n) ==
    [min_uses |-> uses, lock |-> lock, use_stale |-> stale, cold |-> isCold, disk |-> files,
     kills |-> n]

CacheSettings ==
    {CacheSetting(1, FALSE, TRUE, TRUE, {"k1"}, 0), CacheSetting(2, TRUE, TRUE, FALSE, {}, 0),
     CacheSetting(1, TRUE, FALSE, FALSE, {}, 1)}

OpenFilePolicies ==
    {[errors |-> TRUE, min_uses |-> 1, changes |-> 3],
     [errors |-> FALSE, min_uses |-> 2, changes |-> 2]}

(* A response with parts in memory, of files that lie side by side or      *)
(* apart, and its last buf; what each setting makes of it.                 *)
OutMem(from, n) ==
    [mem |-> TRUE, data |-> [k \in 1 .. n |-> <<0, from + k>>], in_file |-> FALSE, fpos |-> 0,
     flast |-> 0, fd |-> 0, directio |-> FALSE, tag |-> FALSE, size |-> 0, recycled |-> FALSE,
     flush |-> FALSE, last |-> FALSE, joined |-> FALSE]

OutFile(fd, from, to) ==
    [OutMem(0, 0) EXCEPT !.mem = FALSE, !.in_file = TRUE, !.fd = fd, !.fpos = from, !.flast = to]

OutFlush == [OutMem(0, 0) EXCEPT !.mem = FALSE, !.flush = TRUE]

OutChains ==
    <<<<OutMem(0, 1), OutMem(10, 2), OutFile(1, 0, 3), OutFile(1, 3, 5), OutMem(20, 1)>>,
      <<OutFlush, OutFile(1, 7, 8), [OutMem(30, 1) EXCEPT !.last = TRUE]>>>>

OutDirect ==
    <<<<[OutFile(1, 1, 6) EXCEPT !.directio = TRUE]>>, <<[OutFile(2, 0, 3) EXCEPT !.last = TRUE]>>>>

OutBase ==
    [system |-> "linux", sendfile |-> TRUE, iovs |-> 2, chunk |-> 0, rate |-> 0, after |-> 0,
     postpone |-> 2, upstream |-> FALSE, in_memory |-> FALSE, in_temp |-> FALSE, aio |-> FALSE,
     aio_sendfile |-> FALSE, offset |-> 0, num |-> 2, size |-> 2, noise |-> 2,
     chains |-> OutChains]

OutSetups ==
    {[OutBase EXCEPT !.system = y, !.aio_sendfile = y = "freebsd", !.sendfile = y # "writev",
                     !.chunk = n] :
        y \in {"linux", "freebsd", "darwin", "solaris", "writev"}, n \in {0, 3}}
    \cup {[OutBase EXCEPT !.rate = 3, !.chunk = 4],
          [OutBase EXCEPT !.rate = 3, !.after = 5], [OutBase EXCEPT !.upstream = TRUE],
          [OutBase EXCEPT !.in_memory = TRUE, !.num = 1], [OutBase EXCEPT !.offset = 4],
          [OutBase EXCEPT !.system = "writev", !.sendfile = FALSE, !.aio = TRUE],
          [OutBase EXCEPT !.chains = OutDirect], [OutBase EXCEPT !.chains = OutDirect, !.aio = TRUE],
          [OutBase EXCEPT !.in_temp = TRUE, !.size = 3]}

(* Each method, with change and report lists that fill up; for signals     *)
(* with enough of them that some arrive while an overflow is worked off.   *)
MethodSetups ==
    {[method |-> y, post |-> p, changes |-> 2, events |-> n, test |-> 1,
      arrivals |-> IF y = "rtsig" THEN 4 ELSE 2] :
        y \in {"kqueue", "devpoll", "eventport", "rtsig"}, p \in BOOLEAN, n \in {1, 2}}
    \cup {[method |-> y, post |-> TRUE, changes |-> 2, events |-> 2, test |-> 1, arrivals |-> 2] :
             y \in {"select", "poll"}}

RH == INSTANCE RequestHeader WITH
         Clients <- Clients

MP == INSTANCE MailProxy WITH
         Scripts <- MailScripts

B == INSTANCE Balance WITH
         Requests <- Requests, Configurations <- BalancerConfigurations,
         Addresses <- {<<1, 2, 3>>, <<7, 0, 9>>}, Start <- 2, MaxTime <- 5

R == INSTANCE Resolver WITH
         Ctxs <- {"c1", "c2", "c3"}, Wanted <- Lookups, Zone <- Zone, Idents <- {1}, NServers <- 1,
         ResendTimeout <- 1, Expire <- 1, CtxTimeout <- 2, TTL <- 1, MaxRecursion <- 2,
         MaxClock <- 3, MaxNoise <- 1

F == INSTANCE FileCache WITH
         Requests <- Requests, CacheKeys <- {"k1", "k2"}, Slots <- {1},
         Settings <- CacheSettings, Inactive <- 1, Valid <- 0, MaxSize <- 1, MaxTime <- 2

O == INSTANCE OpenFiles WITH
         Users <- Requests, Names <- {"f", "g"}, Entries <- 1 .. 4,
         Policies <- OpenFilePolicies, ValidFor <- 1, InactiveFor <- 1, MaxEntries <- 1

U == INSTANCE Output WITH
         Setups <- OutSetups

V == INSTANCE EventMethods WITH
         Fds <- 1 .. 2, Setups <- MethodSetups, MaxHandled <- 6

InRH == focus = "header" /\ UNCHANGED <<focus, script, s, segs, rest, sock, ev,
            replies, heard, auth, peer, asked, lines, down, up, config, G, q, addr,
            now, failures, picks, evenly, probe, ctx, wire, clock, noise, crashed,
            setup, node, queue, size, cold, disk, req, del, loader, time, kills,
            policy, tree, file, lru, fds, path, user, changes, o, todo, given, cond,
            batch, posted, arrived, handled>>

InMP == focus = "mail" /\ UNCHANGED <<focus, client, text, got, mem, hin, phase, r, h,
            hc, served, config, G, q, addr, now, failures, picks, evenly, probe, ctx,
            wire, clock, noise, crashed, setup, node, queue, size, cold, disk, req,
            del, loader, time, kills, policy, tree, file, lru, fds, path, user,
            changes, o, todo, given, cond, batch, posted, arrived, handled>>

InB == focus = "balance" /\ UNCHANGED <<focus, client, text, got, mem, hin, phase, r,
            h, hc, served, script, s, segs, rest, sock, ev, replies, heard, auth, peer,
            asked, lines, down, up, ctx, wire, clock, noise, crashed, setup, node,
            queue, size, cold, disk, req, del, loader, time, kills, policy, tree, file,
            lru, fds, path, user, changes, o, todo, given, cond, batch, posted,
            arrived, handled>>

InR == focus = "resolver" /\ UNCHANGED <<focus, client, text, got, mem, hin, phase, h,
            hc, served, script, s, segs, rest, sock, ev, replies, heard, auth, peer,
            asked, lines, down, up, config, G, q, addr, now, failures, picks, evenly,
            probe, setup, node, queue, size, cold, disk, req, del, loader, time, kills,
            policy, tree, file, lru, fds, path, user, changes, o, todo, given, cond,
            batch, posted, arrived, handled>>

InF == focus = "file_cache" /\ UNCHANGED <<focus, client, text, got, mem, hin, phase,
            r, h, hc, served, script, s, segs, rest, sock, ev, replies, heard, auth,
            peer, asked, lines, down, up, config, G, q, addr, now, failures, picks,
            evenly, probe, ctx, wire, clock, noise, crashed, policy, tree, file, lru,
            fds, path, user, changes, o, todo, given, cond, batch, posted, arrived,
            handled>>

InO == focus = "open_files" /\ UNCHANGED <<focus, client, text, got, mem, hin, phase,
            r, h, hc, served, script, s, segs, rest, sock, ev, replies, heard, auth,
            peer, asked, lines, down, up, config, G, q, addr, now, failures, picks,
            evenly, probe, ctx, wire, clock, noise, crashed, setup, node, queue, size,
            cold, disk, req, del, loader, time, kills, o, todo, given, cond, batch,
            posted, arrived, handled>>

InU == focus = "output" /\ UNCHANGED <<focus, client, text, got, mem, hin, phase, r, h,
            hc, served, script, s, segs, rest, sock, ev, replies, heard, auth, peer,
            asked, lines, down, up, config, G, q, addr, now, failures, picks, evenly,
            probe, ctx, wire, clock, noise, crashed, node, queue, size, cold, disk,
            req, del, loader, time, kills, policy, tree, file, lru, fds, path, user,
            changes, cond, batch, posted, arrived, handled>>

InV == focus = "methods" /\ UNCHANGED <<focus, client, text, got, mem, hin, phase, r,
            h, hc, served, script, segs, rest, sock, ev, replies, heard, auth, peer,
            asked, lines, down, up, config, G, q, addr, now, failures, picks, evenly,
            probe, ctx, wire, clock, noise, crashed, node, queue, size, cold, disk,
            req, del, loader, time, kills, policy, tree, file, lru, fds, path, user,
            changes, o, todo, given>>

Init ==
    \/ /\ focus = "header" /\ RH!Init
       /\ script = "off" /\ s = "off" /\ segs = "off" /\ rest = "off"
       /\ sock = "off" /\ ev = "off" /\ replies = "off" /\ heard = "off"
       /\ auth = "off" /\ peer = "off" /\ asked = "off" /\ lines = "off"
       /\ down = "off" /\ up = "off" /\ config = "off" /\ G = "off"
       /\ q = "off" /\ addr = "off" /\ now = "off" /\ failures = "off"
       /\ picks = "off" /\ evenly = "off" /\ probe = "off" /\ ctx = "off"
       /\ wire = "off" /\ clock = "off" /\ noise = "off" /\ crashed = "off"
       /\ setup = "off" /\ node = "off" /\ queue = "off" /\ size = "off"
       /\ cold = "off" /\ disk = "off" /\ req = "off" /\ del = "off"
       /\ loader = "off" /\ time = "off" /\ kills = "off" /\ policy = "off"
       /\ tree = "off" /\ file = "off" /\ lru = "off" /\ fds = "off"
       /\ path = "off" /\ user = "off" /\ changes = "off" /\ o = "off"
       /\ todo = "off" /\ given = "off" /\ cond = "off" /\ batch = "off"
       /\ posted = "off" /\ arrived = "off" /\ handled = "off"
    \/ /\ focus = "mail" /\ MP!Init
       /\ client = "off" /\ text = "off" /\ got = "off" /\ mem = "off"
       /\ hin = "off" /\ phase = "off" /\ r = "off" /\ h = "off"
       /\ hc = "off" /\ served = "off" /\ config = "off" /\ G = "off"
       /\ q = "off" /\ addr = "off" /\ now = "off" /\ failures = "off"
       /\ picks = "off" /\ evenly = "off" /\ probe = "off" /\ ctx = "off"
       /\ wire = "off" /\ clock = "off" /\ noise = "off" /\ crashed = "off"
       /\ setup = "off" /\ node = "off" /\ queue = "off" /\ size = "off"
       /\ cold = "off" /\ disk = "off" /\ req = "off" /\ del = "off"
       /\ loader = "off" /\ time = "off" /\ kills = "off" /\ policy = "off"
       /\ tree = "off" /\ file = "off" /\ lru = "off" /\ fds = "off"
       /\ path = "off" /\ user = "off" /\ changes = "off" /\ o = "off"
       /\ todo = "off" /\ given = "off" /\ cond = "off" /\ batch = "off"
       /\ posted = "off" /\ arrived = "off" /\ handled = "off"
    \/ /\ focus = "balance" /\ B!Init
       /\ client = "off" /\ text = "off" /\ got = "off" /\ mem = "off"
       /\ hin = "off" /\ phase = "off" /\ r = "off" /\ h = "off"
       /\ hc = "off" /\ served = "off" /\ script = "off" /\ s = "off"
       /\ segs = "off" /\ rest = "off" /\ sock = "off" /\ ev = "off"
       /\ replies = "off" /\ heard = "off" /\ auth = "off" /\ peer = "off"
       /\ asked = "off" /\ lines = "off" /\ down = "off" /\ up = "off"
       /\ ctx = "off" /\ wire = "off" /\ clock = "off" /\ noise = "off"
       /\ crashed = "off" /\ setup = "off" /\ node = "off" /\ queue = "off"
       /\ size = "off" /\ cold = "off" /\ disk = "off" /\ req = "off"
       /\ del = "off" /\ loader = "off" /\ time = "off" /\ kills = "off"
       /\ policy = "off" /\ tree = "off" /\ file = "off" /\ lru = "off"
       /\ fds = "off" /\ path = "off" /\ user = "off" /\ changes = "off"
       /\ o = "off" /\ todo = "off" /\ given = "off" /\ cond = "off"
       /\ batch = "off" /\ posted = "off" /\ arrived = "off" /\ handled = "off"
    \/ /\ focus = "resolver" /\ R!Init
       /\ client = "off" /\ text = "off" /\ got = "off" /\ mem = "off"
       /\ hin = "off" /\ phase = "off" /\ h = "off" /\ hc = "off"
       /\ served = "off" /\ script = "off" /\ s = "off" /\ segs = "off"
       /\ rest = "off" /\ sock = "off" /\ ev = "off" /\ replies = "off"
       /\ heard = "off" /\ auth = "off" /\ peer = "off" /\ asked = "off"
       /\ lines = "off" /\ down = "off" /\ up = "off" /\ config = "off"
       /\ G = "off" /\ q = "off" /\ addr = "off" /\ now = "off"
       /\ failures = "off" /\ picks = "off" /\ evenly = "off" /\ probe = "off"
       /\ setup = "off" /\ node = "off" /\ queue = "off" /\ size = "off"
       /\ cold = "off" /\ disk = "off" /\ req = "off" /\ del = "off"
       /\ loader = "off" /\ time = "off" /\ kills = "off" /\ policy = "off"
       /\ tree = "off" /\ file = "off" /\ lru = "off" /\ fds = "off"
       /\ path = "off" /\ user = "off" /\ changes = "off" /\ o = "off"
       /\ todo = "off" /\ given = "off" /\ cond = "off" /\ batch = "off"
       /\ posted = "off" /\ arrived = "off" /\ handled = "off"
    \/ /\ focus = "file_cache" /\ F!Init
       /\ client = "off" /\ text = "off" /\ got = "off" /\ mem = "off"
       /\ hin = "off" /\ phase = "off" /\ r = "off" /\ h = "off"
       /\ hc = "off" /\ served = "off" /\ script = "off" /\ s = "off"
       /\ segs = "off" /\ rest = "off" /\ sock = "off" /\ ev = "off"
       /\ replies = "off" /\ heard = "off" /\ auth = "off" /\ peer = "off"
       /\ asked = "off" /\ lines = "off" /\ down = "off" /\ up = "off"
       /\ config = "off" /\ G = "off" /\ q = "off" /\ addr = "off"
       /\ now = "off" /\ failures = "off" /\ picks = "off" /\ evenly = "off"
       /\ probe = "off" /\ ctx = "off" /\ wire = "off" /\ clock = "off"
       /\ noise = "off" /\ crashed = "off" /\ policy = "off" /\ tree = "off"
       /\ file = "off" /\ lru = "off" /\ fds = "off" /\ path = "off"
       /\ user = "off" /\ changes = "off" /\ o = "off" /\ todo = "off"
       /\ given = "off" /\ cond = "off" /\ batch = "off" /\ posted = "off"
       /\ arrived = "off" /\ handled = "off"
    \/ /\ focus = "open_files" /\ O!Init
       /\ client = "off" /\ text = "off" /\ got = "off" /\ mem = "off"
       /\ hin = "off" /\ phase = "off" /\ r = "off" /\ h = "off"
       /\ hc = "off" /\ served = "off" /\ script = "off" /\ s = "off"
       /\ segs = "off" /\ rest = "off" /\ sock = "off" /\ ev = "off"
       /\ replies = "off" /\ heard = "off" /\ auth = "off" /\ peer = "off"
       /\ asked = "off" /\ lines = "off" /\ down = "off" /\ up = "off"
       /\ config = "off" /\ G = "off" /\ q = "off" /\ addr = "off"
       /\ now = "off" /\ failures = "off" /\ picks = "off" /\ evenly = "off"
       /\ probe = "off" /\ ctx = "off" /\ wire = "off" /\ clock = "off"
       /\ noise = "off" /\ crashed = "off" /\ setup = "off" /\ node = "off"
       /\ queue = "off" /\ size = "off" /\ cold = "off" /\ disk = "off"
       /\ req = "off" /\ del = "off" /\ loader = "off" /\ time = "off"
       /\ kills = "off" /\ o = "off" /\ todo = "off" /\ given = "off"
       /\ cond = "off" /\ batch = "off" /\ posted = "off" /\ arrived = "off"
       /\ handled = "off"
    \/ /\ focus = "output" /\ U!Init
       /\ client = "off" /\ text = "off" /\ got = "off" /\ mem = "off"
       /\ hin = "off" /\ phase = "off" /\ r = "off" /\ h = "off"
       /\ hc = "off" /\ served = "off" /\ script = "off" /\ s = "off"
       /\ segs = "off" /\ rest = "off" /\ sock = "off" /\ ev = "off"
       /\ replies = "off" /\ heard = "off" /\ auth = "off" /\ peer = "off"
       /\ asked = "off" /\ lines = "off" /\ down = "off" /\ up = "off"
       /\ config = "off" /\ G = "off" /\ q = "off" /\ addr = "off"
       /\ now = "off" /\ failures = "off" /\ picks = "off" /\ evenly = "off"
       /\ probe = "off" /\ ctx = "off" /\ wire = "off" /\ clock = "off"
       /\ noise = "off" /\ crashed = "off" /\ node = "off" /\ queue = "off"
       /\ size = "off" /\ cold = "off" /\ disk = "off" /\ req = "off"
       /\ del = "off" /\ loader = "off" /\ time = "off" /\ kills = "off"
       /\ policy = "off" /\ tree = "off" /\ file = "off" /\ lru = "off"
       /\ fds = "off" /\ path = "off" /\ user = "off" /\ changes = "off"
       /\ cond = "off" /\ batch = "off" /\ posted = "off" /\ arrived = "off"
       /\ handled = "off"
    \/ /\ focus = "methods" /\ V!Init
       /\ client = "off" /\ text = "off" /\ got = "off" /\ mem = "off"
       /\ hin = "off" /\ phase = "off" /\ r = "off" /\ h = "off"
       /\ hc = "off" /\ served = "off" /\ script = "off" /\ segs = "off"
       /\ rest = "off" /\ sock = "off" /\ ev = "off" /\ replies = "off"
       /\ heard = "off" /\ auth = "off" /\ peer = "off" /\ asked = "off"
       /\ lines = "off" /\ down = "off" /\ up = "off" /\ config = "off"
       /\ G = "off" /\ q = "off" /\ addr = "off" /\ now = "off"
       /\ failures = "off" /\ picks = "off" /\ evenly = "off" /\ probe = "off"
       /\ ctx = "off" /\ wire = "off" /\ clock = "off" /\ noise = "off"
       /\ crashed = "off" /\ node = "off" /\ queue = "off" /\ size = "off"
       /\ cold = "off" /\ disk = "off" /\ req = "off" /\ del = "off"
       /\ loader = "off" /\ time = "off" /\ kills = "off" /\ policy = "off"
       /\ tree = "off" /\ file = "off" /\ lru = "off" /\ fds = "off"
       /\ path = "off" /\ user = "off" /\ changes = "off" /\ o = "off"
       /\ todo = "off" /\ given = "off"

Next ==
    \/ InRH /\ RH!Next
    \/ InMP /\ MP!Next
    \/ InB /\ B!Next
    \/ InR /\ R!Next
    \/ InF /\ F!Next
    \/ InO /\ O!Next
    \/ InU /\ U!Next
    \/ InV /\ V!Next

Spec == Init /\ [][Next]_vars

-----------------------------------------------------------------------------
\* A request means to the server what the client meant, however its bytes are split over
\* reads and its lines over buffers, whatever came before it on the connection: the path
\* is the normal form of the one sent, and extension, arguments, virtual server, headers
\* and length are the request's own.
Understood == focus = "header" => RH!Understood

\* A mail client's commands are heard as they were meant, in whatever pieces, quotes and
\* literals they come, and the authentication server is asked at each attempt for exactly
\* the user and password of that attempt.  It is relayed only when it was let in, as the
\* user of the last answer; what each side sends reaches the other once and in order, all
\* of it when the server closes.
MailRelayed == focus = "mail" => MP!AsksAsTold /\ MP!RelaysFaithfully

\* While no attempt fails, round robin gives each peer exactly its weight's share of
\* every round, however the requests overlap.
SharesFollowWeights == focus = "balance" => B!SharesFollowWeights

\* A context that waits is in the list of one node, whose query has its turn in the resend
\* queue, however answers, errors, timeouts and cancellations interleave; except where a
\* name turns out to be an alias, where ngx_resolver_process_a loses or misplaces contexts
\* (the "lost" and the "moved" of Resolver).
NothingStranded == focus = "resolver" => R!NothingStranded

\* A node of the response cache lives as long as a request or a deletion has it, counts
\* exactly those, and is marked updating only while one of them updates it.
NodesHeld == focus = "file_cache" => F!NodesHeld

\* A request keeps the very file it opened while others replace it and the cache drops
\* its entry, and every open descriptor belongs to one entry that will close it.
DescriptorsOwned == focus = "open_files" => O!DescriptorsOwned

(* The client gets the response, every byte once and in order, and output  *)
(* never waits for nothing (ngx_output_chain, ngx_http_write_filter and    *)
(* the send_chain of each system).                                         *)
OutputFlows == focus = "output" => U!OutputFlows

(* Whatever method is used, an event that a connection waits for is        *)
(* reported once it happens, and nothing else is watched.                  *)
EventsNotLost == focus = "methods" => V!EventsNotLost
=============================================================================
