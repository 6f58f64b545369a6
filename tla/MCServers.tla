------------------------------ MODULE MCServers -------------------------------
(***************************************************************************)
(* The structures a server builds from its configuration, and the requests *)
(* that are answered with them.                                            *)
(***************************************************************************)
EXTENDS Integers, Sequences, TLC

VARIABLES focus, phase, cf, given, codes, e, rq, ans, site, decl, ports, sockets, link,
          geo, disk, rules, ex, rsp, todo, head, wire

vars == <<focus, phase, cf, given, codes, e, rq, ans, site, decl, ports, sockets, link,
          geo, disk, rules, ex, rsp, todo, head, wire>>

Lit(t) == [k |-> "lit", t |-> t, x |-> ""]
It(kind, x) == [k |-> kind, t |-> <<>>, x |-> x]
AnyRe == [pre |-> <<"/">>, caps |-> 1, named |-> TRUE, nested |-> FALSE]
PairRe == [pre |-> <<"/">>, caps |-> 2, named |-> FALSE, nested |-> FALSE]
NestRe == [PairRe EXCEPT !.nested = TRUE]
NoRe == [pre |-> <<"-">>, caps |-> 0, named |-> FALSE, nested |-> FALSE]
Cond(kind, x, re, tm, fl) == [c |-> kind, x |-> x, re |-> re, tmpl |-> tm, flags |-> fl]
NoCond == Cond("none", "", NoRe, <<>>, {})
Dir(kind, x, re, tm, fl, st, cond, body) ==
    [d |-> kind, x |-> x, re |-> re, tmpl |-> tm, flag |-> fl, status |-> st, cond |-> cond,
     body |-> body]
Set(x, tm) == Dir("set", x, NoRe, tm, "none", 0, NoCond, <<>>)
Rewrite(re, tm, fl) == Dir("rewrite", "", re, tm, fl, 0, NoCond, <<>>)
If(cond, body) == Dir("if", "", NoRe, <<>>, "none", 0, cond, body)
ReturnDir(st, tm) == Dir("return", "", NoRe, tm, "none", st, NoCond, <<>>)
Break == Dir("break", "", NoRe, <<>>, "none", 0, NoCond, <<>>)

Replacements ==
    {<<Lit(<<"/", "a">>), It("cap", "1")>>,
     <<Lit(<<"/">>), It("cap", "2"), It("args", ""), It("cap", "1"), Lit(<<"-">>), It("brace", "v")>>,
     <<Lit(<<"H">>), It("cap", "1"), It("args", ""), Lit(<<"-">>)>>,
     <<Lit(<<"/">>), It("cap", "1"), It("cap", "1"), It("args", "")>>,
     <<It("var", "v"), It("args", "")>>}
Simple ==
    {Set("v", <<It("cap", "1"), Lit(<<"-">>)>>), Set("g", <<It("var", "g"), Lit(<<"&">>)>>),
     Set("w", <<It("brace", "u"), Lit(<<"a">>), It("var", "h")>>), Set("v", <<Lit(<<"0">>)>>),
     Set("u", <<Lit(<<"a">>)>>), Set("v", <<It("open", "v")>>), Set("v", <<It("var", "x")>>),
     ReturnDir(302, <<It("var", "g"), Lit(<<"/">>)>>), ReturnDir(200, <<Lit(<<"a">>)>>),
     ReturnDir(404, <<>>), Break}
    \cup {Rewrite(AnyRe, t, f) : t \in Replacements, f \in {"none", "last"}}
    \cup {Rewrite(PairRe, t, f) : t \in Replacements, f \in {"break", "redirect"}}
    \cup {Rewrite(NestRe, <<Lit(<<"/">>), It("cap", "1"), It("cap", "2")>>, f) :
             f \in {"none", "redirect"}}
    \cup {Rewrite(NestRe, <<It("cap", "2"), It("args", ""), It("cap", "1")>>, "last"),
          Rewrite(NoRe, <<Lit(<<"/">>)>>, "permanent")}
Tests ==
    {Cond("var", "v", NoRe, <<>>, {}), Cond("equal", "u", NoRe, <<Lit(<<"/">>), It("cap", "1")>>, {}),
     Cond("not_equal", "g", NoRe, <<Lit(<<"a">>)>>, {}), Cond("match", "u", PairRe, <<>>, {}),
     Cond("no_match", "g", AnyRe, <<>>, {}), Cond("file", "", NoRe, <<It("var", "u")>>, {"f"}),
     Cond("file", "", NoRe, <<Lit(<<"/">>)>>, {"d", "not"}),
     Cond("file", "", NoRe, <<It("var", "u")>>, {"e"}), Cond("file", "", NoRe, <<It("var", "h")>>, {"x"})}
Finals ==
    {[kind |-> y, tmpl |-> t, zero |-> z, prefix |-> p] :
        y \in {"value"}, z \in BOOLEAN, p \in BOOLEAN,
        t \in {<<It("var", "v"), It("brace", "g"), Lit(<<"-">>)>>, <<Lit(<<"a">>)>>,
               <<It("var", "u")>>, <<It("open", "u")>>}}
    \cup {[kind |-> y, tmpl |-> t, zero |-> FALSE, prefix |-> FALSE] :
             y \in {"run", "predicates"}, t \in {<<It("var", "v")>>, <<It("var", "g"), It("cap", "1")>>}}
NoFinal == [kind |-> "none", tmpl |-> <<>>, zero |-> FALSE, prefix |-> FALSE]
Some == {Set("v", <<It("cap", "1"), Lit(<<"-">>)>>), Break,
         Rewrite(AnyRe, <<Lit(<<"/", "a">>), It("cap", "1")>>, "none"),
         Rewrite(NoRe, <<Lit(<<"/">>)>>, "permanent")}
ScriptConfigs ==
    {[dirs |-> <<a, b>>, named |-> TRUE, final |-> NoFinal] : a \in Simple, b \in Simple}
    \cup {[dirs |-> <<a, If(c, <<b>>), Set("g", <<It("var", "v")>>)>>, named |-> n, final |-> NoFinal] :
             a \in Some \ {Break}, b \in Some, c \in Tests, n \in BOOLEAN}
    \cup {[dirs |-> <<If(c, <<If(x, <<a>>), b>>), b>>, named |-> FALSE, final |-> NoFinal] :
             a \in {Break, Rewrite(AnyRe, <<Lit(<<"/", "a">>), It("cap", "1")>>, "none")}, b \in {Set("v", <<It("cap", "1"), Lit(<<"-">>)>>)},
             c \in Tests, x \in Tests}
    \cup {[dirs |-> <<a, Set("g", <<It("var", "g"), Lit(<<"&">>)>>)>>, named |-> FALSE, final |-> x] :
             a \in Some, x \in Finals}
ScriptRequests ==
    {[uri |-> <<"/", "a", "&">>, args |-> <<"a">>, host |-> <<>>, err |-> 404],
     [uri |-> <<"/">>, args |-> <<>>, host |-> <<"/", "a">>, err |-> 0]}
Paths == (<<"/">> :> {"dir"}) @@ (<<"/", "a">> :> {"file", "exec"})

(* Locations: all lists of up to three of the pool's blocks, in every order, and some larger
   ones; then sites whose requests are taken through the phases. *)
Block(id, kind, name) == [id |-> id, kind |-> kind, name |-> name, auto |-> FALSE, nested |-> <<>>]
NestedBlocks == <<Block(21, "exact", <<47, 97, 98>>), Block(22, "regex", <<98>>),
                  [Block(23, "prefix", <<47, 97, 47>>) EXCEPT !.auto = TRUE]>>
Pool == {Block(2, "prefix", <<47>>), Block(3, "prefix", <<47, 97>>), Block(4, "exact", <<47, 97>>),
         [Block(5, "noregex", <<47, 97>>) EXCEPT !.nested = NestedBlocks],
         [Block(6, "prefix", <<47, 97, 47>>) EXCEPT !.auto = TRUE],
         Block(7, "exact", <<47, 97, 98>>), [Block(8, "regex", <<98>>) EXCEPT !.nested = <<
             Block(24, "regex", <<97, 98>>)>>], Block(9, "regex", <<97>>),
         Block(10, "prefix", <<47, 98>>)}
Larger == {<<Block(2, "prefix", <<47>>), Block(7, "exact", <<47, 97, 98>>),
             [Block(6, "prefix", <<47, 97, 47>>) EXCEPT !.auto = TRUE],
             Block(10, "prefix", <<47, 98>>), Block(11, "prefix", <<47, 97, 98, 97>>),
             Block(4, "exact", <<47, 97>>), Block(12, "prefix", <<47, 97, 98>>)>>,
           <<[Block(3, "prefix", <<47, 97>>) EXCEPT !.nested = NestedBlocks],
             Block(9, "regex", <<97>>), Block(8, "regex", <<98>>)>>}
PlainSet(blk) == [name |-> blk.name, noregex |-> blk.kind = "noregex", regex |-> blk.kind = "regex",
               internal |-> FALSE, satisfy |-> "all", handler |-> FALSE, maxbody |-> FALSE,
               limit |-> 0, generic |-> {1}, answers |-> {1}, content |-> {0}, alias |-> FALSE,
               root |-> <<82>>, try |-> <<>>, pages |-> <<>>, recursive |-> FALSE,
               rewrite |-> [op |-> "none", uri |-> <<>>, code |-> 0]]
SettingsOf(blks) == [num \in {1} \cup {blk.id : blk \in blks} |->
                        IF num = 1 THEN PlainSet(Block(1, "server", <<>>))
                        ELSE PlainSet(CHOOSE blk \in blks : blk.id = num)]
WithNested(blks) == UNION {{blk} \cup {blk.nested[k] : k \in DOMAIN blk.nested} : blk \in blks}
AllUris == {<<47>>, <<47, 97>>, <<47, 97, 47>>, <<47, 97, 98>>, <<47, 97, 98, 97>>, <<47, 98>>,
            <<47, 97, 97>>, <<47, 97, 47, 98>>, <<46>>, <<47, 98, 47>>}
Lists == {<<x1>> : x1 \in Pool} \cup {<<x1, x2>> : x1, x2 \in Pool}
            \cup {<<x1, x2, x3>> : x1, x2, x3 \in Pool}
NoHandlers == [post_read |-> <<>>, server_rewrite |-> <<>>, rewrite |-> <<>>, preaccess |-> <<>>,
               access |-> <<>>, try_files |-> <<>>, content |-> <<"static">>, find_config |-> <<>>,
               post_rewrite |-> <<>>, post_access |-> <<>>]
AllHandlers == [post_read |-> <<"realip">>, server_rewrite |-> <<"rewrite">>,
                rewrite |-> <<"rewrite">>, preaccess |-> <<"limit_conn", "limit_req">>,
                access |-> <<"auth_basic", "access">>, try_files |-> <<"try">>,
                content |-> <<"static", "index">>, find_config |-> <<>>,
                post_rewrite |-> <<>>, post_access |-> <<>>]
SiteOf(lst) == [locs |-> lst, set |-> SettingsOf(WithNested({lst[k] : k \in DOMAIN lst})),
                handlers |-> NoHandlers, files |-> {}, uris |-> AllUris, requests |-> {}]

Walk(blks, hnd, changes) ==
    [locs |-> blks, set |-> changes @@ SettingsOf({blks[k] : k \in DOMAIN blks}),
     handlers |-> hnd,
     files |-> {[path |-> <<82, 47, 97>>, dir |-> FALSE], [path |-> <<65, 47, 98>>, dir |-> FALSE],
                [path |-> <<65, 98>>, dir |-> TRUE], [path |-> <<65, 97>>, dir |-> FALSE],
                [path |-> <<82, 47, 97, 47, 98>>, dir |-> TRUE]},
     uris |-> {},
     requests |-> {[uri |-> ru, sub |-> sb, limited |-> lm, large |-> lm] : ru \in
                      {<<47, 97>>, <<47, 97, 98>>, <<47, 97, 97>>}, sb, lm \in BOOLEAN}]
P(num, kind, name) == PlainSet(Block(num, kind, name))
Param(isvar, name, isdir) == [var |-> isvar, name |-> name, dir |-> isdir, code |-> 0, named |-> FALSE]
Pg(status, kind, name) == [status |-> status, kind |-> kind, name |-> name]
WalkBlocks == <<Block(2, "prefix", <<47>>), Block(3, "prefix", <<47, 97>>),
                Block(4, "named", <<64, 110>>), Block(5, "noname", <<>>),
                Block(6, "regex", <<98>>), [Block(7, "prefix", <<47, 97, 98, 47>>) EXCEPT !.auto = TRUE]>>
Answers == {0, 1, 401, 403, 500}
\* rewriting in circles, error pages that fail again
Circle(page) == [P(3, "prefix", <<47, 97>>) EXCEPT
             !.rewrite = [op |-> "last", uri |-> <<47, 97>>, code |-> 0],
             !.pages = <<Pg(500, "uri", <<47, 97>>), page>>, !.recursive = TRUE,
             !.maxbody = TRUE]
Guarded(sat) == [P(3, "prefix", <<47, 97>>) EXCEPT !.satisfy = sat, !.answers = Answers,
             !.generic = {0, 1, 503}, !.limit = 5,
             !.pages = <<Pg(403, "named", <<64, 110>>), Pg(401, "uri", <<47, 97, 98>>),
                         Pg(503, "named", <<64>>)>>]
Tried(opt) == [P(3, "prefix", <<47, 97>>) EXCEPT !.content = {0, 1, 302, 404}, !.alias = opt,
             !.root = IF opt THEN <<65>> ELSE <<82>>,
             !.try = <<Param(FALSE, <<47, 120>>, FALSE), Param(TRUE, <<>>, FALSE),
                       Param(TRUE, <<>>, TRUE), Param(TRUE, <<98>>, FALSE)>>,
             !.pages = <<Pg(404, "uri", <<47, 98>>)>>]
RegexTried == [P(6, "regex", <<98>>) EXCEPT !.alias = TRUE, !.root = <<65>>, !.internal = TRUE,
             !.try = <<Param(FALSE, <<47, 98>>, FALSE), Param(FALSE, <<98>>, TRUE),
                       [Param(FALSE, <<64, 110>>, FALSE) EXCEPT !.named = TRUE]>>]
InNamed == [P(4, "named", <<64, 110>>) EXCEPT !.satisfy = "any", !.answers = {0, 1, 403},
             !.handler = TRUE, !.content = {0, 1, 302}, !.rewrite =
                [op |-> "break", uri |-> <<47, 97>>, code |-> 0]]
Walks == {Walk(WalkBlocks, AllHandlers, 3 :> Circle(Pg(413, "addr", <<120>>))),
          Walk(WalkBlocks, AllHandlers, 3 :> Circle(Pg(413, "uri", <<47, 97>>))),
          Walk(WalkBlocks, AllHandlers, 3 :> Guarded("all") @@ 4 :> InNamed),
          Walk(WalkBlocks, AllHandlers, 3 :> Guarded("any") @@ 4 :> InNamed
               @@ 5 :> [P(5, "noname", <<>>) EXCEPT !.answers = {403}]),
          Walk(WalkBlocks, AllHandlers, 3 :> Tried(FALSE) @@ 6 :> RegexTried @@ 4 :> InNamed),
          Walk(WalkBlocks, AllHandlers, 3 :> Tried(TRUE) @@ 4 :> InNamed
               @@ 6 :> [P(6, "regex", <<98>>) EXCEPT !.internal = TRUE, !.try =
                    <<Param(TRUE, <<120>>, FALSE), [Param(FALSE, <<>>, FALSE) EXCEPT !.code = 404]>>]),
          Walk(WalkBlocks, AllHandlers, 3 :> [Tried(TRUE) EXCEPT !.rewrite =
                    [op |-> "break", uri |-> <<47, 97, 98>>, code |-> 0]]
               @@ 6 :> RegexTried),
          Walk(WalkBlocks, NoHandlers, 3 :> [Tried(FALSE) EXCEPT !.content = {1, 404}]
               @@ 6 :> [P(6, "regex", <<98>>) EXCEPT !.rewrite =
                    [op |-> "return", uri |-> <<>>, code |-> 404]])}
LocationSites == {SiteOf(lst) : lst \in Lists \cup Larger} \cup Walks

(* Server names: three servers behind the default one, each with a name of the pool; servers
   that share ports and addresses in every way; names negotiated before. *)
On(addr, port, dflt, bnd) == [addr |-> addr, port |-> port, default |-> dflt, bind |-> bnd, set |-> bnd]
Srv(lsts, nms, vrf) == [listens |-> lsts, names |-> nms, verify |-> vrf]
Nm(txt) == [name |-> txt, regex |-> FALSE]
NamePool == {Nm(<<97>>), Nm(<<98, 46, 97>>), Nm(<<46, 97>>), Nm(<<42, 46, 97>>),
             Nm(<<42, 46, 98, 46, 97>>), Nm(<<46, 98, 97>>), Nm(<<98, 46, 42>>),
             Nm(<<98, 46, 97, 46, 42>>), Nm(<<98, 97, 46, 42>>),
             [name |-> <<97>>, regex |-> TRUE]}
NameHosts == {<<97>>, <<98, 46, 97>>, <<99, 46, 98, 46, 97>>, <<98, 97>>, <<99, 46, 98, 97>>, <<98>>,
              <<98, 46, 97, 46, 99>>, <<98, 46, 99, 46, 100>>, <<46, 97>>, <<98, 97, 46, 97>>}
NamedServers ==
    {[servers |-> <<Srv(<<>>, <<>>, FALSE), Srv(<<>>, <<n1, n2>>, FALSE), Srv(<<>>, <<n3>>, FALSE)>>,
      clients |-> {[addr |-> 1, port |-> 80]}, hellos |-> {}, hosts |-> NameHosts] :
          n1, n2, n3 \in NamePool}
Listens == {<<On(0, 80, FALSE, FALSE)>>, <<On(1, 80, FALSE, FALSE)>>, <<On(1, 80, TRUE, TRUE)>>,
            <<On(0, 80, TRUE, FALSE)>>, <<On(2, 80, FALSE, TRUE), On(0, 81, FALSE, FALSE)>>,
            <<On(1, 80, FALSE, FALSE), On(2, 80, FALSE, FALSE)>>}
ListeningServers ==
    {[servers |-> <<Srv(l1, <<Nm(<<97>>)>>, FALSE), Srv(l2, <<Nm(<<98>>)>>, FALSE),
                    Srv(l3, <<Nm(<<98>>)>>, FALSE)>>,
      clients |-> {[addr |-> ad, port |-> 80] : ad \in 1 .. 3} \cup {[addr |-> 1, port |-> 81]},
      hellos |-> {}, hosts |-> {<<98>>, <<99>>}] : l1, l2, l3 \in Listens}
\* no host, an empty label, a port, a dot at the end, capitals, literals in brackets; bad
\* names; too long a name
OddHosts == {<<91, 58, 93, 58, 56>>, <<91, 97>>, <<97, 46, 58, 46, 56>>, <<0>>, <<>>, <<97, 46, 46, 98>>, <<65, 46, 58, 56>>, <<98, 46>>, <<46>>, <<47>>, <<97>>, <<98>>, <<120>>}
OddServers ==
    {[servers |-> <<Srv(<<>>, <<Nm(<<97>>)>>, vrf), Srv(<<>>, <<nm>>, TRUE),
                    Srv(<<>>, <<Nm(<<98>>), Nm(<<>>)>>, FALSE)>>,
      clients |-> {[addr |-> 1, port |-> 80], [addr |-> 1, port |-> 81]},
      hellos |-> {<<97>>, <<98>>, <<99, 46, 97>>, <<46, 46>>}, hosts |-> OddHosts] :
          vrf \in BOOLEAN,
          nm \in {Nm(<<46, 97>>), Nm(<<91, 58, 93>>), Nm(<<97, 46, 46, 97>>), Nm(<<99, 42>>), Nm([dg \in 1 .. 31 |-> 97])}}
AllDeclarations == NamedServers \cup ListeningServers \cup OddServers

(* Networks: geo blocks of three lines, ranges with an included file, clients behind proxies,
   addresses of every form. *)
NtDigits(num) == IF num < 10 THEN 1 ELSE IF num < 100 THEN 2 ELSE IF num < 1000 THEN 3
                 ELSE IF num < 10000 THEN 4 ELSE 5
NtNum(num) == [dg \in 1 .. NtDigits(num) |-> 48 + ((num \div 10 ^ (NtDigits(num) - dg)) % 10)]
NtDotted(wds) == NtNum(wds[1] \div 256) \o <<46>> \o NtNum(wds[1] % 256) \o <<46>>
                   \o NtNum(wds[2] \div 256) \o <<46>> \o NtNum(wds[2] % 256)
NtNoNet == [addr |-> <<0, 0>>, len |-> 0]
NtLine(kind, txt, val, nt, fr, tt) ==
    [op |-> kind, text |-> txt, value |-> val, net |-> nt, from |-> fr, to |-> tt]
NtPlainLine(kind, val) == NtLine(kind, <<>>, val, NtNoNet, <<0, 0>>, <<0, 0>>)
NtNet(kind, wds, bts, val) ==
    NtLine(kind, NtDotted(wds) \o <<47>> \o NtNum(bts), val, [addr |-> wds, len |-> bts], <<0, 0>>, <<0, 0>>)
NtRange(kind, fr, tt, val) ==
    NtLine(kind, NtDotted(fr) \o <<45>> \o NtDotted(tt), val, NtNoNet, fr, tt)
NtTrust(wds, bts) == [unix |-> FALSE, text |-> NtDotted(wds) \o <<47>> \o NtNum(bts),
                      net |-> [addr |-> wds, len |-> bts]]
NtUnixTrust == [unix |-> TRUE, text |-> <<>>, net |-> NtNoNet]
NtRule(dny, wds, bts) == [deny |-> dny, all |-> FALSE, text |-> NtDotted(wds) \o <<47>> \o NtNum(bts),
                          net |-> [addr |-> wds, len |-> bts]]
NtAll(dny) == [deny |-> dny, all |-> TRUE, text |-> <<>>, net |-> NtNoNet]
NtRequest(from, hps) == [peer |-> from, xfwd |-> <<>>, real |-> <<>>, hops |-> hps, realhops |-> <<>>]
NtNothing == [geo |-> <<>>, file |-> <<>>, edits |-> <<>>, reloads |-> 0, plain |-> TRUE,
              own |-> <<>>, outer |-> <<>>, from |-> <<>>, header |-> "xfwd", recursive |-> FALSE,
              requests |-> {}, moves |-> 0, more |-> 0, index |-> <<>>, subject |-> <<>>, urls |-> {}]

\* 2001:db8::1, ::ffff:10.1.0.1 and ::1
NtSix == <<8193, 3512, 0, 0, 0, 0, 0, 1>>
NtMapped == <<0, 0, 0, 0, 0, 65535, 2561, 1>>
NtOne == <<0, 0, 0, 0, 0, 0, 0, 1>>
NtClients == {NtRequest(wds, <<>>) : wds \in {<<2560, 1>>, <<2816, 1>>, NtMapped, NtSix}}
NtNets == {NtNet(kind, <<2560, 0>>, bts, val) : kind \in {"net", "delete"}, bts \in {7, 16}, val \in {"A"}}
            \cup {NtNet("net", <<2560, 0>>, 8, "B"), NtNet("delete", <<2560, 0>>, 8, "B"),
                  NtNet("net", <<2560, 0>>, 7, "C"), NtNet("delete", <<0, 0>>, 1, "C"),
                  NtPlainLine("default", "D"),
                  NtLine("net", <<50, 48, 48, 49, 58, 100, 98, 56, 58, 58, 47, 51, 50>>, "E", [addr |-> <<8193, 3512, 0, 0, 0, 0, 0, 0>>, len |-> 32], <<0, 0>>, <<0, 0>>),
                  NtLine("delete", <<50, 48, 48, 49, 58, 100, 98, 56, 58, 58, 47, 51, 50>>, "E", [addr |-> <<8193, 3512, 0, 0, 0, 0, 0, 0>>, len |-> 32], <<0, 0>>, <<0, 0>>)}
NtGeoNets ==
    {[NtNothing EXCEPT !.geo = <<l1, l2, l3>>, !.requests = NtClients] : l1, l2, l3 \in NtNets}
NtRanges == {NtRange("net", <<2560, 10>>, <<2560, 20>>, "A"), NtRange("net", <<2560, 12>>, <<2560, 15>>, "B"),
             NtRange("net", <<2560, 10>>, <<2560, 13>>, "C"), NtRange("net", <<2560, 16>>, <<2560, 20>>, "D"),
             NtRange("net", <<2560, 0>>, <<2562, 5>>, "E"), NtRange("delete", <<2560, 12>>, <<2560, 15>>, "B"),
             NtRange("delete", <<2560, 10>>, <<2560, 20>>, "A"), NtPlainLine("default", "F"),
             NtRange("net", <<65535, 0>>, <<65535, 9>>, "G"), NtRange("net", <<2560, 30>>, <<2560, 40>>, "H")}
NtProbes == {NtRequest(<<2560, lo>>, <<>>) : lo \in {10, 13, 16, 21}}
              \cup {NtRequest(<<2562, 5>>, <<>>), NtRequest(NtSix, <<>>)}
NtGeoRanges ==
    {[NtNothing EXCEPT !.geo = <<NtPlainLine("ranges", "none"), l1, l2, l3>>, !.requests = NtProbes] :
        l1, l2, l3 \in NtRanges}
NtFiles == {<<NtRange("net", <<2560, 10>>, <<2560, 20>>, "A"), NtRange("net", <<2560, 12>>, <<2560, 15>>, "B")>>,
            <<NtRange("net", <<2560, 10>>, <<2560, 13>>, "C"), NtRange("net", <<2560, 16>>, <<2560, 20>>, "D")>>}
NtIncluded ==
    {[NtNothing EXCEPT !.geo = <<NtPlainLine("ranges", "none")>> \o ls, !.file = f1, !.edits = <<f2>>,
                       !.reloads = 1, !.requests = NtProbes] :
        f1, f2 \in NtFiles,
        ls \in {<<NtPlainLine("default", "F"), NtPlainLine("include", "none")>>,
                <<NtRange("net", <<2560, 30>>, <<2560, 40>>, "H"), NtPlainLine("include", "none")>>}}
\* lines that are refused, or that a binary base loses: what they give is not judged
NtOdd ==
    {[NtNothing EXCEPT !.geo = ls, !.file = fl, !.reloads = 1, !.requests = NtProbes, !.plain = FALSE] :
        ls \in {<<NtPlainLine("ranges", "none"), NtPlainLine("include", "none")>>,
                <<NtPlainLine("default", "D"), NtPlainLine("ranges", "none")>>,
                <<NtLine("net", <<49>>, "A", NtNoNet, <<0, 0>>, <<0, 0>>)>>,
                <<NtLine("proxy", <<49>>, "A", NtNoNet, <<0, 0>>, <<0, 0>>)>>,
                <<NtPlainLine("default", "D"), NtNet("delete", <<0, 0>>, 1, "D"),
                  NtNet("delete", <<32768, 0>>, 1, "D"), NtNet("delete", <<0, 0>>, 0, "D")>>,
                <<NtPlainLine("default", "D"), NtNet("delete", <<0, 0>>, 1, "D"),
                  NtNet("delete", <<32768, 0>>, 1, "D"), NtPlainLine("default", "E")>>,
                <<NtPlainLine("ranges", "none"), NtRange("net", <<2560, 20>>, <<2560, 10>>, "A")>>,
                <<NtPlainLine("ranges", "none"), NtRange("delete", <<65535, 1>>, <<65535, 2>>, "A")>>,
                <<NtPlainLine("ranges", "none"), NtPlainLine("include", "none"),
                  NtRange("net", <<2560, 30>>, <<2560, 40>>, "H")>>},
        fl \in {<<NtPlainLine("default", "F"), NtRange("net", <<2560, 12>>, <<2560, 15>>, "B"),
                  NtRange("net", <<2560, 10>>, <<2560, 10>>, "A")>>,
                <<NtRange("net", <<2560, 10>>, <<2560, 20>>, "A"), NtRange("net", <<2560, 12>>, <<2560, 15>>, "B"),
                  NtRange("net", <<2560, 14>>, <<2560, 30>>, "C")>>}}
\* the proxies 10.0.0.1 and 10.1.0.1, the clients 11.0.0.1 and ::1; text that is no address
NtHop(wds) == CASE wds = <<>> -> <<120>> [] wds = NtOne -> <<58, 58, 49>> [] OTHER -> NtDotted(wds)
NtHopTexts(lst) == IF Len(lst) = 1 THEN NtHop(lst[1]) ELSE NtHop(lst[1]) \o <<44, 32>> \o NtHop(lst[2])
NtHopSet == {<<2561, 1>>, <<2816, 1>>, NtOne, <<>>}
NtForwards == {<<>>} \cup {<<<<h1>>>> : h1 \in NtHopSet} \cup {<<<<h1, h2>>>> : h1, h2 \in NtHopSet}
                \cup {<<<<h1>>, <<h2>>>> : h1, h2 \in NtHopSet}
NtPeers == {<<2560, 1>>, <<2816, 1>>, NtMapped, NtSix, <<0>>}
NtHeaders(from, hps) ==
    [peer |-> from, xfwd |-> [ln \in 1 .. Len(hps) |-> NtHopTexts(hps[ln])],
     real |-> IF hps = <<>> THEN <<>> ELSE <<NtHop(hps[1][1])>>, hops |-> hps,
     realhops |-> IF hps = <<>> THEN <<>> ELSE <<hps[1][1]>>]
NtBehind ==
    {[NtNothing EXCEPT !.own = own, !.outer = <<NtRule(FALSE, <<2561, 1>>, 32), NtAll(TRUE)>>,
                       !.from = <<NtTrust(<<2560, 0>>, 15), NtUnixTrust>>, !.recursive = rc[1],
                       !.header = rc[2], !.moves = 1,
                       !.more = IF rc = <<FALSE, "xfwd">> /\ own = <<>> THEN 1 ELSE 0,
                       !.requests = {NtHeaders(from, hps) : from \in NtPeers, hps \in NtForwards}] :
        rc \in {<<TRUE, "xfwd">>, <<FALSE, "xfwd">>, <<FALSE, "real">>},
        own \in {<<>>, <<NtRule(TRUE, <<2560, 0>>, 8),
                         [deny |-> TRUE, all |-> FALSE, text |-> <<58, 58, 49>>,
                          net |-> [addr |-> NtOne, len |-> 128]]>>}}
NtProxied ==
    {[NtNothing EXCEPT !.geo = <<NtNet("proxy", <<2560, 0>>, 15, "none"), NtNet("net", <<2816, 0>>, 8, "B")>>
                                 \o (IF rc THEN <<NtPlainLine("recursive", "none")>> ELSE <<>>),
                       !.requests = {NtHeaders(<<2560, 1>>, hps) : hps \in NtForwards}] : rc \in BOOLEAN}
      \cup {[NtNothing EXCEPT !.geo = <<NtNet("net", <<2816, 0>>, 8, "B"),
                                        NtLine("net", NtDotted(<<65535, 65535>>), "C",
                                               [addr |-> <<65535, 65535>>, len |-> 32], <<0, 0>>, <<0, 0>>)>>,
                              !.index = <<NtHop(ix)>>, !.subject = ix,
                              !.requests = {NtRequest(<<2560, 1>>, <<>>)}] :
               ix \in {<<2816, 7>>, <<>>}}
NtParts(hst, prt, ur, wld, ads) == [rc |-> "ok", host |-> hst, port |-> prt, uri |-> ur, wild |-> wld,
                                    addrs |-> ads]
NtRefused == [NtParts(<<>>, 0, <<>>, FALSE, <<>>) EXCEPT !.rc = "error"]
NtUrl(txt, lsn, urp, nrs, rsv, pts) ==
    [url |-> txt, listen |-> lsn, uri_part |-> urp, no_resolve |-> nrs, default_port |-> 80,
     resolves |-> rsv, parts |-> pts]
NtUri == <<47, 97, 58, 49>>
NtAddresses == {<<0, 0>>, <<2560, 511>>, <<65535, 65534>>}
NtSixTexts == {<<<<58, 58>>, <<0, 0, 0, 0, 0, 0, 0, 0>>, <<58, 58>>>>,
               <<<<58, 58, 49>>, <<0, 0, 0, 0, 0, 0, 0, 1>>, <<58, 58, 49>>>>,
               <<<<49, 58, 58>>, <<1, 0, 0, 0, 0, 0, 0, 0>>, <<49, 58, 58>>>>,
               <<<<49, 58, 50, 58, 51, 58, 52, 58, 53, 58, 54, 58, 55, 58, 56>>, <<1, 2, 3, 4, 5, 6, 7, 8>>, <<49, 58, 50, 58, 51, 58, 52, 58, 53, 58, 54, 58, 55, 58, 56>>>>,
               <<<<49, 58, 58, 56>>, <<1, 0, 0, 0, 0, 0, 0, 8>>, <<49, 58, 58, 56>>>>,
               <<<<49, 58, 48, 58, 48, 58, 52, 58, 58, 56>>, <<1, 0, 0, 4, 0, 0, 0, 8>>, <<49, 58, 48, 58, 48, 58, 52, 58, 58, 56>>>>,
               <<<<58, 58, 102, 102, 102, 102, 58, 49, 48, 46, 49, 46, 48, 46, 49>>, <<0, 0, 0, 0, 0, 65535, 2561, 1>>, <<58, 58, 102, 102, 102, 102, 58, 49, 48, 46, 49, 46, 48, 46, 49>>>>,
               <<<<58, 58, 49, 48, 46, 48, 46, 49, 46, 50, 53, 53>>, <<0, 0, 0, 0, 0, 0, 2560, 511>>, <<58, 58, 49, 48, 46, 48, 46, 49, 46, 50, 53, 53>>>>,
               <<<<58, 58, 48, 46, 49, 46, 50, 46, 49>>, <<0, 0, 0, 0, 0, 0, 1, 513>>, <<58, 58, 48, 46, 49, 46, 50, 46, 49>>>>,
               <<<<58, 58, 53>>, <<0, 0, 0, 0, 0, 0, 0, 5>>, <<58, 58, 53>>>>,
               <<<<49, 58, 50, 58, 51, 58, 52, 58, 53, 58, 54, 58, 49, 46, 50, 46, 51, 46, 52>>, <<1, 2, 3, 4, 5, 6, 258, 772>>, <<49, 58, 50, 58, 51, 58, 52, 58, 53, 58, 54, 58, 49, 48, 50, 58, 51, 48, 52>>>>,
               <<<<102, 101, 56, 48, 58, 48, 58, 48, 58, 49, 58, 58>>, <<65152, 0, 0, 1, 0, 0, 0, 0>>, <<102, 101, 56, 48, 58, 48, 58, 48, 58, 49, 58, 58>>>>,
               <<<<58, 58, 50, 58, 48, 58, 48, 58, 49>>, <<0, 0, 0, 0, 2, 0, 0, 1>>, <<58, 58, 50, 58, 48, 58, 48, 58, 49>>>>,
               <<<<49, 58, 50, 58, 48, 58, 52, 58, 53, 58, 54, 58, 55, 58, 56>>, <<1, 2, 0, 4, 5, 6, 7, 8>>, <<49, 58, 50, 58, 48, 58, 52, 58, 53, 58, 54, 58, 55, 58, 56>>>>,
               <<<<49, 58, 50, 58, 51, 58, 52, 58, 53, 58, 54, 58, 55, 58, 56, 58, 57>>, <<>>, <<>>>>,
               <<<<49, 58, 58, 50, 58, 58, 51>>, <<>>, <<>>>>,
               <<<<49, 50, 51, 52, 53, 58, 58>>, <<>>, <<>>>>,
               <<<<49, 58, 50, 58, 51, 58, 52, 58, 53, 58, 54, 58, 55, 58, 49, 46, 50, 46, 51, 46, 52>>, <<>>, <<>>>>,
               <<<<103, 58, 58>>, <<>>, <<>>>>,
               <<<<49, 46, 50, 46, 51, 46, 52>>, <<>>, <<>>>>,
               <<<<58, 58, 49, 46, 50, 46, 51>>, <<>>, <<>>>>,
               <<<<49, 58, 50, 58, 51, 58, 52, 58, 53, 58, 54, 58, 55, 58, 58>>, <<>>, <<>>>>,
               <<<<49, 58>>, <<>>, <<>>>>}
NtUrls ==
    {NtUrl(NtDotted(wds) \o <<58>> \o NtNum(prt) \o ur, lsn, ~lsn, FALSE, <<>>,
           NtParts(NtDotted(wds), prt, ur, wds = <<0, 0>>, <<NtDotted(wds) \o <<58>> \o NtNum(prt)>>)) :
        wds \in NtAddresses, prt \in {1, 8080, 65535}, lsn \in {FALSE}, ur \in {<<>>, NtUri}}
      \cup {NtUrl(<<91>> \o txt[1] \o <<93>> \o ur, FALSE, TRUE, FALSE, <<>>,
                  IF txt[2] = <<>> THEN NtRefused
                  ELSE NtParts(<<91>> \o txt[1] \o <<93>>, 80, ur, txt[2] = [wd \in 1 .. 8 |-> 0],
                               <<<<91>> \o txt[1] \o <<93, 58, 56, 48>>>>)) :
               txt \in NtSixTexts, ur \in {<<>>, NtUri}}
      \cup {NtUrl(<<104, 58, 57, 57>>, FALSE, FALSE, FALSE, <<txt[2], <<2560, 511>>>>,
                  NtParts(<<104>>, 99, <<>>, FALSE,
                          <<NtDotted(<<2560, 511>>) \o <<58, 57, 57>>, <<91>> \o txt[3] \o <<93, 58, 57, 57>>>>)) :
               txt \in {sx \in NtSixTexts : sx[2] /= <<>>}}
      \cup {NtUrl(<<104>> \o ur, FALSE, TRUE, nrs, <<>>,
                  IF nrs THEN NtParts(<<104>>, 80, ur, FALSE, <<>>) ELSE NtRefused) :
               ur \in {<<>>, NtUri, <<63, 58, 47>>}, nrs \in BOOLEAN}
      \cup {NtUrl(NtNum(prt), TRUE, FALSE, FALSE, <<>>,
                  IF prt = 0 THEN NtRefused ELSE NtParts(<<>>, prt, <<>>, TRUE, <<>>)) : prt \in {0, 81}}
      \cup {NtUrl(<<42>> \o tl, TRUE, FALSE, FALSE, <<>>,
                  CASE tl = <<>> -> NtParts(<<42>>, 80, <<>>, TRUE, <<>>)
                    [] tl = <<58, 56, 49>> -> NtParts(<<42>>, 81, <<>>, TRUE, <<>>)
                    [] OTHER -> NtRefused) : tl \in {<<>>, <<58, 56, 49>>, <<58, 48>>, <<58>>, NtUri}}
      \cup {NtUrl(<<117, 110, 105, 120, 58>> \o pth \o <<58, 47>>, FALSE, urp, FALSE, <<>>,
                  CASE pth = <<>> /\ urp -> NtRefused
                    [] pth /= <<>> /\ urp -> NtParts(pth, 0, <<47>>, FALSE, <<>>)
                    [] OTHER -> NtParts(pth \o <<58, 47>>, 0, <<>>, FALSE, <<>>)) :
               pth \in {<<>>, <<47, 115>>}, urp \in BOOLEAN}
      \cup {NtUrl(<<58, 56>>, FALSE, TRUE, FALSE, <<>>, NtRefused),
            NtUrl(<<91, 58, 58, 49>>, FALSE, TRUE, FALSE, <<>>, NtRefused),
            NtUrl(<<91, 58, 58, 49, 93, 58, 48>>, FALSE, TRUE, FALSE, <<>>, NtRefused),
            NtUrl(<<91, 58, 58, 49, 93, 47>>, TRUE, TRUE, FALSE, <<>>, NtRefused)}
AllWritings == NtGeoNets \cup NtGeoRanges \cup NtIncluded \cup NtOdd \cup NtBehind \cup NtProxied
                 \cup {[NtNothing EXCEPT !.urls = NtUrls]}

\* Requests, responses and configurations of the response filters, one field set at a time.
NoDate == [fmt |-> "none", year |-> 1970, mon |-> 0, day |-> 1, hour |-> 0, min |-> 0, sec |-> 0]
Day(fm, yr, mo, dy, hr) == [fmt |-> fm, year |-> yr, mon |-> mo, day |-> dy, hour |-> hr, min |-> 30, sec |-> 7]
Stamp == Day("rfc822", 2014, 1, 28, 12)
Get == [method |-> "get", version |-> 11, keepalive |-> TRUE, range |-> <<>>, asked |-> <<>>, fresh |-> TRUE,
        ifRange |-> [kind |-> "none", etag |-> "", date |-> NoDate], ims |-> NoDate, iums |-> NoDate,
        im |-> <<>>, inm |-> <<>>, ae |-> <<>>, gzip |-> FALSE, via |-> FALSE, auth |-> FALSE, host |-> "host"]
Data(fr, to) == [ky \in 1 .. to - fr + 1 |-> <<"byte", fr + ky - 1, 0, 0>>]
Piece(fr, to, fl, la) == [data |-> Data(fr, to), mem |-> ~fl, file |-> fl /\ to >= fr, last |-> la,
                          flush |-> FALSE, sync |-> FALSE]
Signal(la, fl) == [data |-> <<>>, mem |-> FALSE, file |-> FALSE, last |-> la, flush |-> fl, sync |-> FALSE]
NoPlace == [local |-> FALSE, host |-> "", port |-> 0, path |-> ""]
File(nn) == [status |-> 200, statusLine |-> FALSE, clen |-> nn, clenHeader |-> FALSE, ctype |-> "text/plain",
             lm |-> Stamp, etag |-> "A", encoding |-> "", cc |-> <<>>, location |-> NoPlace,
             allowRanges |-> TRUE, chains |-> <<<<Piece(1, nn, TRUE, TRUE)>>>>]
Site == [gzip |-> FALSE, gunzip |-> FALSE, types |-> {"text/plain"}, minLength |-> 0, chunked |-> TRUE,
         maxRanges |-> 5, expires |-> [mode |-> "off", time |-> 0], adds |-> <<>>, ims |-> "exact",
         nameInRedirect |-> FALSE, portInRedirect |-> TRUE, ssl |-> FALSE, port |-> 80, gzipVary |-> TRUE,
         proxied |-> {"off"}, gzipVersion |-> 11, now |-> 1400000000]
\* ranges by their text: 44 is a comma, 45 a dash, 32 a blank; an off_t of 8 bits holds 127
Between(fr, to) == [kind |-> "between", from |-> fr, to |-> to, text |-> <<fr, 45, to>>]
AllFrom(fr) == [kind |-> "from", from |-> fr, to |-> 0, text |-> <<fr, 45>>]
Ending(to) == [kind |-> "last", from |-> 0, to |-> to, text |-> <<45, to>>]
RangePool == {Between(0, 0), Between(1, 2), Between(2, 1), Between(3, 9), Between(4, 4), AllFrom(0), AllFrom(2),
              AllFrom(5), Ending(0), Ending(1), Ending(3), Ending(9)}
Written(ls) == IF Len(ls) = 1 THEN ls[1].text
               ELSE ls[1].text \o <<44, 32>> \o (IF Len(ls) = 2 THEN ls[2].text
                                                 ELSE ls[2].text \o <<32, 44>> \o ls[3].text)
Ample == {[Between(1, 2) EXCEPT !.to = 127, !.text = <<1, 45, 1, 2, 7>>],
          [Between(1, 2) EXCEPT !.to = 128, !.text = <<1, 45, 1, 2, 8>>],
          [AllFrom(2) EXCEPT !.from = 127, !.text = <<1, 2, 7, 45>>]}
RangeLists == {<<ra>> : ra \in RangePool \cup Ample} \cup {<<ra, rb>> : ra, rb \in RangePool}
              \cup {<<ra, Between(1, 1), rb>> : ra, rb \in {Between(0, 0), Ending(1), AllFrom(7)}}
BadRanges == {<<45>>, <<1, 2>>, <<1, 45, 120>>, <<120>>, <<1, 45, 2, 44>>, <<45, 45, 1>>, <<32, 1, 0, 32, 45, 32>>}
Asking(ls) == [Get EXCEPT !.range = Written(ls), !.asked = ls]
Shapes == {<<<<Piece(1, 4, TRUE, TRUE)>>>>,
           <<<<Piece(1, 2, FALSE, FALSE), Piece(3, 4, TRUE, TRUE)>>>>,
           <<<<Piece(1, 1, FALSE, FALSE)>>, <<Signal(FALSE, TRUE)>>, <<Piece(2, 3, FALSE, FALSE), Piece(4, 4, TRUE, FALSE)>>,
             <<Signal(TRUE, FALSE)>>>>}
RangeExchanges ==
    {[rq |-> Asking(ls), cf |-> [Site EXCEPT !.maxRanges = mx], en |-> [File(4) EXCEPT !.chains = sh]] :
        ls \in RangeLists, mx \in {1, 5}, sh \in Shapes}
    \cup {[rq |-> [Get EXCEPT !.range = bd], cf |-> Site, en |-> File(4)] : bd \in BadRanges}
    \cup {[rq |-> Asking(<<ra>>), cf |-> Site, en |-> File(0)] : ra \in RangePool}
    \cup {[rq |-> [Asking(<<Between(1, 2)>>) EXCEPT !.method = me, !.version = ve, !.fresh = fs[1], !.ifRange = fs[2],
                                                    !.ae = <<1000>>, !.gzip = ve >= 11],
           cf |-> [Site EXCEPT !.maxRanges = mx, !.gzip = gz], en |-> [File(4) EXCEPT !.allowRanges = al]] :
        me \in {"get", "head"}, ve \in {10, 11}, mx \in {0, 5}, gz \in BOOLEAN, al \in BOOLEAN,
        fs \in {<<TRUE, Get.ifRange>>} \cup
               {<<eg = "A", [kind |-> "etag", etag |-> eg, date |-> NoDate]>> : eg \in {"A", "B"}} \cup
               {<<dt = Stamp, [kind |-> "date", etag |-> "", date |-> dt]>> :
                   dt \in {Stamp, [Stamp EXCEPT !.sec = 8], [Stamp EXCEPT !.fmt = "bad"]}}}
\* days at the ends of months, leap years and centuries
Days == {Day("rfc822", yr, mo, dy, 23) : yr \in {1970, 1972, 1999, 2000, 2001, 2014, 2016, 2037}, mo \in {0, 1, 2, 11},
            dy \in {1, 28, 29, 31}}
Proper(dt) == dt.mon /= 1 \/ dt.day = 1 \/ dt.day = 28 \/ (dt.day = 29 /\ dt.year \in {1972, 2000, 2016})
Tags == {<<>>, <<"A">>, <<"B">>, <<"B", ",", " ", "A">>, <<"A", " ", ",", "B">>, <<"*">>}
Conditional(ims, iums, im, inm) == [Get EXCEPT !.ims = ims, !.iums = iums, !.im = im, !.inm = inm]
DateExchanges ==
    {[rq |-> Conditional([dt EXCEPT !.fmt = fm], NoDate, <<>>, <<>>), cf |-> Site, en |-> [File(1) EXCEPT !.lm = dt]] :
        dt \in {dd \in Days : Proper(dd)}, fm \in {"rfc822", "rfc850", "isoc"}}
    \cup {[rq |-> Conditional(d1, d2, <<>>, <<>>), cf |-> [Site EXCEPT !.ims = mo], en |-> File(2)] :
        d1, d2 \in {NoDate, Stamp, [Stamp EXCEPT !.hour = 11], [Stamp EXCEPT !.day = 29], [Stamp EXCEPT !.mon = 2],
                    [Stamp EXCEPT !.fmt = "bad"], [Stamp EXCEPT !.hour = 24, !.year = 2015], [Stamp EXCEPT !.year = 2013]},
        mo \in {"off", "exact", "before"}}
    \cup {[rq |-> Conditional(d1, NoDate, l1, l2), cf |-> Site, en |-> [File(2) EXCEPT !.etag = eg, !.lm = d2]] :
        d1 \in {NoDate, Stamp}, l1, l2 \in Tags, eg \in {"", "A"}, d2 \in {NoDate, Stamp}}
\* what is accepted, by its text: 1000 is "gzip", 59 ';', 61 '=', 113 'q', 46 '.', 120 another letter
Accepts == {<<<<1000>>, TRUE>>, <<<<1000, 44, 120>>, TRUE>>, <<<<120, 44, 32, 1000>>, TRUE>>, <<<<120, 1000>>, FALSE>>,
            <<<<120>>, FALSE>>, <<<<1000, 120>>, FALSE>>, <<<<1000, 32, 59, 32, 113, 61, 0>>, FALSE>>,
            <<<<1000, 59, 113, 61, 0, 46, 0, 1, 44, 120>>, TRUE>>, <<<<1000, 59, 113, 61, 1, 46, 0>>, TRUE>>,
            <<<<1000, 59, 113, 61, 0, 46, 0, 0, 32, 44, 120>>, FALSE>>, <<<<1000, 59, 113, 61, 1, 46, 5>>, FALSE>>,
            <<<<120, 59, 113, 61, 1, 44, 1000, 59, 113, 61, 0, 46, 5>>, TRUE>>, <<<<>>, FALSE>>}
Coded == [File(4) EXCEPT !.encoding = "gzip",
              !.chains = <<<<[Piece(1, 2, TRUE, FALSE) EXCEPT !.data = <<<<"gz", 0, 0, 0>>>> \o @]>>,
                           <<[Piece(3, 4, TRUE, TRUE) EXCEPT !.data = @ \o <<<<"end", 0, 0, 0>>>>]>>>>, !.clen = 6]
Streams == {File(4), Coded, [Coded EXCEPT !.clen = -1], [File(4) EXCEPT !.ctype = "image"], [File(4) EXCEPT !.ctype = ""],
            [File(4) EXCEPT !.clen = -1, !.chains = <<<<Piece(1, 2, FALSE, FALSE)>>, <<Signal(FALSE, TRUE)>>,
                                                      <<Piece(3, 4, FALSE, FALSE), Signal(TRUE, FALSE)>>>>],
            [File(3) EXCEPT !.clen = -1, !.status = 404, !.chains = <<<<Piece(1, 3, FALSE, FALSE)>>, <<Signal(TRUE, FALSE)>>>>],
            [File(0) EXCEPT !.clen = -1, !.chains = <<<<Signal(TRUE, FALSE)>>>>]}
CodingExchanges ==
    {[rq |-> [Get EXCEPT !.ae = ac[1], !.gzip = ac[2], !.version = ve],
      cf |-> [Site EXCEPT !.gzip = TRUE, !.gunzip = TRUE, !.gzipVersion = 10], en |-> st] :
        ac \in Accepts, ve \in {10, 11}, st \in Streams}
    \cup
    {[rq |-> [Get EXCEPT !.ae = <<1000>>, !.gzip = ve >= gv, !.version = ve, !.keepalive = ve >= 10, !.method = me],
      cf |-> [Site EXCEPT !.gzip = gz, !.gunzip = gz, !.chunked = ck, !.gzipVersion = gv], en |-> st] :
        ve \in {9, 10, 11}, gv \in {10, 11}, me \in {"get", "head"}, ck \in BOOLEAN, gz \in BOOLEAN, st \in Streams}
Control(vl) == [value |-> <<vl, 0>>, live |-> TRUE]
ViaExchanges ==
    {[rq |-> [Get EXCEPT !.ae = <<1000>>, !.gzip = TRUE, !.via = TRUE, !.auth = au],
      cf |-> [Site EXCEPT !.gzip = TRUE, !.minLength = 4, !.proxied = px, !.expires = xp],
      en |-> [File(4) EXCEPT !.cc = cx, !.statusLine = ul, !.clenHeader = ul, !.lm = Stamp]] :
        au, ul \in BOOLEAN, cx \in {<<>>, <<Control("private"), Control("no-cache")>>},
        px \in {{"off"}, {"any"}, {"auth", "no-cache"}, {"expired", "private"}, {"no_last_modified"}, {"no_etag"}},
        xp \in {[mode |-> md, time |-> tm] : md \in {"off", "epoch", "max", "access", "modified", "daily"},
                                             tm \in {-3600, 0, 86399}}
               \ {[mode |-> "daily", time |-> -3600]}}
Heading(ky, vl, dt) == [key |-> ky, value |-> vl, date |-> dt]
OtherExchanges ==
    {[rq |-> [Get EXCEPT !.host = ho], cf |-> [Site EXCEPT !.nameInRedirect = ni, !.ssl = sl, !.port = po,
                          !.adds = <<Heading("x", "1", NoDate), Heading("x", "", NoDate), Heading("cache-control", "private", NoDate)>>],
      en |-> [File(0) EXCEPT !.status = 301, !.clen = -1, !.lm = NoDate, !.etag = "", !.ctype = "",
                 !.location = [NoPlace EXCEPT !.local = lo, !.path = "/p"],
                 !.chains = <<<<Signal(TRUE, FALSE)>>>>]] :
        ho \in {"", "host"}, ni, sl, lo \in BOOLEAN, po \in {80, 8080}}
    \cup
    {[rq |-> [Get EXCEPT !.version = ve, !.keepalive = ve >= 10], cf |-> [Site EXCEPT !.chunked = ck],
      en |-> [File(0) EXCEPT !.status = st, !.statusLine = ul, !.clen = -1, !.lm = NoDate, !.etag = "", !.ctype = "",
                 !.chains = <<<<Signal(TRUE, FALSE)>>>>]] :
        ve \in {9, 10, 11}, ck, ul \in BOOLEAN, st \in {204, 301, 304}}
    \cup {[rq |-> Get, cf |-> [Site EXCEPT !.adds = <<Heading("etag", eg, NoDate), Heading("last-modified", "", dt)>>],
           en |-> File(1)] : eg \in {"", "B"}, dt \in {NoDate, Day("isoc", 2012, 1, 29, 1)}}
AllExchanges == RangeExchanges \cup DateExchanges \cup CodingExchanges \cup ViaExchanges \cup OtherExchanges

Z == INSTANCE Script WITH
         Configs <- ScriptConfigs, Requests <- ScriptRequests, Kinds <- Paths

L == INSTANCE Locations WITH
         Sites <- LocationSites, MaxUriChanges <- 3, ChangesWidth <- 4

N == INSTANCE ServerNames WITH
         Declarations <- AllDeclarations, BucketSize <- 48, HashMaxSize <- 8

W == INSTANCE Networks WITH
         Writings <- AllWritings, Preallocated <- 1, BaseEntries <- 1, MaxTime <- 1

H == INSTANCE Filters WITH
         Exchanges <- AllExchanges, OffWidth <- 8

InZ == focus = "script" /\ UNCHANGED <<focus, site, decl, ports, sockets, link, geo,
            disk, rules, ex, rsp, todo, head, wire>>

InL == focus = "locations" /\ UNCHANGED <<focus, phase, given, codes, e, ans, decl,
            ports, sockets, link, geo, disk, rules, ex, rsp, todo, head, wire>>

InN == focus = "names" /\ UNCHANGED <<focus, phase, cf, given, codes, e, rq, ans, site,
            geo, disk, rules, ex, rsp, todo, head, wire>>

InW == focus = "networks" /\ UNCHANGED <<focus, phase, cf, given, codes, e, rq, ans,
            site, ports, sockets, ex, rsp, todo, head, wire>>

InH == focus = "filters" /\ UNCHANGED <<focus, phase, cf, given, codes, e, rq, ans,
            site, decl, ports, sockets, link, geo, disk, rules>>

Init ==
    \/ /\ focus = "script" /\ Z!Init
       /\ site = "off" /\ decl = "off" /\ ports = "off" /\ sockets = "off"
       /\ link = "off" /\ geo = "off" /\ disk = "off" /\ rules = "off"
       /\ ex = "off" /\ rsp = "off" /\ todo = "off" /\ head = "off"
       /\ wire = "off"
    \/ /\ focus = "locations" /\ L!Init
       /\ phase = "off" /\ given = "off" /\ codes = "off" /\ e = "off"
       /\ ans = "off" /\ decl = "off" /\ ports = "off" /\ sockets = "off"
       /\ link = "off" /\ geo = "off" /\ disk = "off" /\ rules = "off"
       /\ ex = "off" /\ rsp = "off" /\ todo = "off" /\ head = "off"
       /\ wire = "off"
    \/ /\ focus = "names" /\ N!Init
       /\ phase = "off" /\ cf = "off" /\ given = "off" /\ codes = "off"
       /\ e = "off" /\ rq = "off" /\ ans = "off" /\ site = "off"
       /\ geo = "off" /\ disk = "off" /\ rules = "off" /\ ex = "off"
       /\ rsp = "off" /\ todo = "off" /\ head = "off" /\ wire = "off"
    \/ /\ focus = "networks" /\ W!Init
       /\ phase = "off" /\ cf = "off" /\ given = "off" /\ codes = "off"
       /\ e = "off" /\ rq = "off" /\ ans = "off" /\ site = "off"
       /\ ports = "off" /\ sockets = "off" /\ ex = "off" /\ rsp = "off"
       /\ todo = "off" /\ head = "off" /\ wire = "off"
    \/ /\ focus = "filters" /\ H!Init
       /\ phase = "off" /\ cf = "off" /\ given = "off" /\ codes = "off"
       /\ e = "off" /\ rq = "off" /\ ans = "off" /\ site = "off"
       /\ decl = "off" /\ ports = "off" /\ sockets = "off" /\ link = "off"
       /\ geo = "off" /\ disk = "off" /\ rules = "off"

Next ==
    \/ InZ /\ Z!Next
    \/ InL /\ L!Next
    \/ InN /\ N!Next
    \/ InW /\ W!Next
    \/ InH /\ H!Next

Spec == Init /\ [][Next]_vars

-----------------------------------------------------------------------------
(* The codes compiled from the rewrite directives do what the directives   *)
(* say, whatever branches and flags are taken.                             *)
CodesMeanDirectives == focus = "script" => Z!CodesMeanDirectives

(* The value codes never write more than the length codes computed, except *)
(* with an is_args that an earlier rewrite left behind, and with nested    *)
(* captures, all escaped, where the room is the length of the text.        *)
RoomSuffices == focus = "script" => Z!RoomSuffices

\* Locations: sorting, joining and folding the location blocks into trees chooses for every
\* URI the location the rule over the written blocks chooses (ngx_http_core_find_location()).
LocationByRule == focus = "locations" => L!LocationByRule

\* Locations: content handlers run only after the access handlers permitted the location the
\* request is in, however it got there (ngx_http_core_access_phase()).
AccessBeforeContent == focus = "locations" => L!AccessBeforeContent

\* Server names: a request is handled by the server that the written listen directives and
\* server names choose (ngx_http_init_listening(), ngx_hash_wildcard_init()).
ServerByRule == focus = "names" => N!ServerByRule

\* Networks: a geo block gives an address the value of the longest network, or of the last
\* range, written for it (ngx_http_geo_add_range(), ngx_radix32tree_delete()); where ranges are
\* in order, no edit raced the binary base, no line is refused and the client has an address.
GeoByRule == focus = "networks" => W!GeoByRule

\* Networks: the access rules judge the address the trusted proxies vouch for, and a kept
\* connection starts from the client's own (ngx_http_realip_handler()).
ClientJudged == focus = "networks" => W!ClientJudged

\* Networks: the parts of a URL are found where they were written (ngx_parse_url()).
UrlAsWritten == focus = "networks" => W!UrlAsWritten

\* Filters: the client finds the end of every response and has then the entity, exactly the
\* ranges it asked for, or nothing of it (ngx_http_range_header_filter(),
\* ngx_http_not_modified_header_filter(), ngx_http_chunked_body_filter()), where the numbers
\* of the ranges and their sum can be counted in an off_t.
ClientReadsEntity == focus = "filters" => H!ClientReadsEntity
=============================================================================
