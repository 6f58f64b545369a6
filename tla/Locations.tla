------------------------------ MODULE Locations ------------------------------
(***************************************************************************)
(* How nginx chooses the location of a request and takes the request       *)
(* through its phases.  The configuration's location blocks are sorted,    *)
(* joined and folded into a prefix tree (http/ngx_http.c), the tree is     *)
(* searched for every URI (http/ngx_http_core_module.c), and an array of   *)
(* phase handlers is walked by their checkers, with jumps back for         *)
(* rewrites, error pages, try_files fallbacks and named locations.         *)
(*                                                                         *)
(* URIs and names are sequences of character codes.  A location is a       *)
(* record with its id, kind, name and nested locations; what a location    *)
(* sets is kept per id in cf.set.  Regular expressions are external: a     *)
(* regex location matches the URIs that end with its name.                 *)
(***************************************************************************)
EXTENDS Integers, Sequences, FiniteSets, SequencesExt, TLC

CONSTANTS Sites,           \* the configurations
          MaxUriChanges,   \* NGX_HTTP_MAX_URI_CHANGES, 10 in the code
          ChangesWidth     \* uri_changes is a bit field of 4 bits

VARIABLES cf,      \* the configuration in use
          site,    \* what http_block() made of it
          rq       \* the request

vars == <<cf, site, rq>>

None == 0          \* no location
Server == 1        \* the id of the server's own loc_conf
Slash == 47
Declined == 1      \* NGX_DECLINED; NGX_OK is 0, other answers are statuses

Phases == <<"post_read", "server_rewrite", "find_config", "rewrite", "post_rewrite",
            "preaccess", "access", "post_access", "try_files", "content">>

-----------------------------------------------------------------------------
(* Building the location trees *)

\* strcmp(): the order of NUL-terminated names
Less(a, b) == LET n == CHOOSE k \in 1 .. Len(a) + 1 :
                           /\ k = Len(a) + 1 \/ k > Len(b) \/ a[k] /= b[k]
                           /\ \A j \in 1 .. k - 1 : j <= Len(b) /\ a[j] = b[j]
              IN n <= Len(b) /\ (n > Len(a) \/ a[n] < b[n])

\* ngx_http_add_location(): exact, regex, named and nameless ones are "exact"
AddLocation(l) ==
    LET inclusive == l.kind \in {"prefix", "noregex"} IN
    [name |-> l.name, kind |-> l.kind, auto |-> l.auto, list |-> <<>>,
     exact |-> IF inclusive THEN None ELSE l.id, incl |-> IF inclusive THEN l.id ELSE None]

Rank(q) == CASE q.kind = "noname" -> 3 [] q.kind = "named" -> 2 [] q.kind = "regex" -> 1
             [] OTHER -> 0

\* cmp_locations(a, b) > 0
After(a, b) ==
    \/ Rank(a) > Rank(b)
    \/ Rank(a) = Rank(b) /\ Rank(a) \in {0, 2} /\ Less(b.name, a.name)
    \/ /\ Rank(a) = 0 /\ Rank(b) = 0 /\ a.name = b.name
       /\ a.kind /= "exact" /\ b.kind = "exact"

\* ngx_queue_sort(): insertion, searching back from the end
QueueSort(qs) ==
    LET Insert(sorted, q) ==
            LET k == CHOOSE k \in 0 .. Len(sorted) :
                         /\ k = 0 \/ ~After(sorted[k], q)
                         /\ \A j \in k + 1 .. Len(sorted) : After(sorted[j], q)
            IN InsertAt(sorted, k + 1, q)
    IN FoldLeft(Insert, <<>>, qs)

JoinDropping(qs) ==
    LET Join(done, x) == IF done = <<>> \/ Last(done).name /= x.name THEN Append(done, x)
                         ELSE done
    IN FoldLeft(Join, <<>>, qs)

\* join_exact_locations(): an exact and an inclusive one of the same name become one entry
JoinExact(qs) ==
    LET Join(done, x) ==
            IF done = <<>> \/ Last(done).name /= x.name THEN Append(done, x)
            ELSE [done EXCEPT ![Len(done)].incl = x.incl,
                              ![Len(done)].auto = @ \/ x.auto]
    IN FoldLeft(Join, <<>>, qs)

Duplicates(qs) ==
    \E i \in 1 .. Len(qs) - 1 :
        /\ qs[i].name = qs[i + 1].name
        /\ (qs[i].exact /= None) = (qs[i + 1].exact /= None)

\* create_locations_list(): what follows an inclusive location and starts with its name
\* moves into its list
RECURSIVE CreateList(_)
CreateList(qs) ==
    IF Len(qs) <= 1 THEN qs
    ELSE LET q == Head(qs)
             inside == IF q.incl = None THEN 0
                       ELSE CHOOSE k \in 0 .. Len(qs) - 1 :
                                /\ \A j \in 2 .. k + 1 : IsPrefix(q.name, qs[j].name)
                                /\ k + 1 = Len(qs) \/ ~IsPrefix(q.name, qs[k + 2].name)
         IN <<[q EXCEPT !.list = CreateList(SubSeq(qs, 2, inside + 1))]>>
              \o CreateList(SubSeq(qs, inside + 2, Len(qs)))

\* create_locations_tree(): balanced around the middle of the queue; names lose the
\* prefix that the trees above have matched.  A tree is <<>> or <<node>>.
RECURSIVE CreateTree(_, _)
CreateTree(qs, prefix) ==
    IF qs = <<>> THEN <<>>
    ELSE LET mid == IF Len(qs) = 1 THEN 1 ELSE (Len(qs) \div 2) + 1
             q == qs[mid]
         IN <<[name |-> SubSeq(q.name, prefix + 1, Len(q.name)),
               exact |-> q.exact, incl |-> q.incl, auto |-> q.auto,
               left |-> CreateTree(SubSeq(qs, 1, mid - 1), prefix),
               right |-> CreateTree(SubSeq(qs, mid + 1, Len(qs)), prefix),
               tree |-> CreateTree(q.list, Len(q.name))]>>

OfKind(qs, kinds) == SelectSeq(qs, LAMBDA q : q.kind \in kinds)
Ids(qs) == [i \in 1 .. Len(qs) |-> qs[i].exact]

\* The level of a location: its regex and named locations, split off the sorted queue
\* (init_locations), and the tree of the others (init_static_location_trees, which no
\* longer sees the regex locations and so builds no tree inside them).
LevelOf(locs, withTree) ==
    LET sorted == QueueSort([i \in 1 .. Len(locs) |-> AddLocation(locs[i])])
        static == OfKind(sorted, {"exact", "prefix", "noregex"})
    IN [regex |-> Ids(OfKind(sorted, {"regex"})), named |-> Ids(OfKind(sorted, {"named"})),
        bad |-> withTree /\ Duplicates(static),
        tree |-> IF withTree THEN CreateTree(CreateList(JoinExact(static)), 0) ELSE <<>>]

\* Every location with its nested ones, flat: <<location, a tree is built for it>>
RECURSIVE Flat(_, _)
Flat(locs, withTree) ==
    UNION {LET l == locs[i]
               t == withTree /\ l.kind /= "regex"
           IN {<<l, t>>} \cup Flat(l.nested, t) : i \in 1 .. Len(locs)}

\* init_locations() and init_static_location_trees() for the server and every location
Levels(locs) ==
    LET all == Flat(locs, TRUE) \cup {<<[id |-> Server, nested |-> locs], TRUE>>}
    IN [id \in {p[1].id : p \in all} |->
            LET p == CHOOSE p \in all : p[1].id = id IN LevelOf(p[1].nested, p[2])]

\* ngx_http_core_location(): where a location block may stand
RECURSIVE Placed(_)
Placed(l) ==
    \A i \in 1 .. Len(l.nested) :
        /\ l.kind \notin {"exact", "named"}
        /\ l.nested[i].kind /= "named"
        /\ l.nested[i].kind = "regex" \/ IsPrefix(l.name, l.nested[i].name)
        /\ Placed(l.nested[i])

-----------------------------------------------------------------------------
(* Finding a location *)

\* find_static_location(): the walk down the tree
RECURSIVE FindStatic(_, _, _, _)
FindStatic(tree, uri, rv, loc) ==
    IF tree = <<>> THEN [rv |-> rv, loc |-> loc]
    ELSE LET node == tree[1]
             n == IF Len(uri) <= Len(node.name) THEN Len(uri) ELSE Len(node.name)
             u == SubSeq(uri, 1, n)
             v == SubSeq(node.name, 1, n)
         IN CASE u /= v ->
                   FindStatic(IF Less(u, v) THEN node.left ELSE node.right, uri, rv, loc)
              [] u = v /\ Len(uri) > Len(node.name) ->
                   IF node.incl /= None
                   THEN FindStatic(node.tree, SubSeq(uri, n + 1, Len(uri)), "again", node.incl)
                   ELSE FindStatic(node.right, uri, rv, loc)
              [] u = v /\ Len(uri) = Len(node.name) ->
                   IF node.exact /= None THEN [rv |-> "ok", loc |-> node.exact]
                   ELSE [rv |-> "again", loc |-> node.incl]
              [] OTHER ->
                   IF Len(uri) + 1 = Len(node.name) /\ node.auto
                   THEN FindStatic(node.left, uri, "done",
                                   IF node.exact /= None THEN node.exact ELSE node.incl)
                   ELSE FindStatic(node.left, uri, rv, loc)

\* ngx_http_regex_exec() on the name of a regex location
Matches(name, uri) == IsSuffix(name, uri)

\* ngx_http_core_find_location(): the tree of this level, the levels inside what it
\* found, and then this level's regular expressions in the order of the configuration
RECURSIVE FindLocation(_, _, _, _)
FindLocation(levels, set, uri, loc) ==
    LET level == levels[loc]
        static == FindStatic(level.tree, uri, "declined", loc)
        found == IF static.rv = "again" THEN FindLocation(levels, set, uri, static.loc)
                 ELSE static
        noregex == static.rv = "again" /\ set[static.loc].noregex
        matching == SelectSeq(level.regex, LAMBDA id : Matches(set[id].name, uri))
    IN IF found.rv \in {"ok", "done"} \/ noregex \/ matching = <<>> THEN found
       ELSE [FindLocation(levels, set, uri, Head(matching)) EXCEPT !.rv = "ok"]

-----------------------------------------------------------------------------
(* The array of phase handlers *)

Entry(checker, handler, next) == [checker |-> checker, handler |-> handler, next |-> next]

\* init_phase_handlers(): ph is the array so far, n the count the jumps are computed from
PhaseEntries(E, handlers, phase) ==
    LET hs == handlers[phase]
        n == E.n + (IF phase = "access" THEN 1 ELSE 0) + Len(hs)
        checker == CASE phase \in {"server_rewrite", "rewrite"} -> "rewrite"
                     [] phase \in {"access", "content"} -> phase
                     [] OTHER -> "generic"
        all == [j \in 1 .. Len(hs) |-> Entry(checker, hs[Len(hs) + 1 - j], n)]
    IN [E EXCEPT !.n = n, !.ph = @ \o all]

AddPhase(E, handlers, phase) ==
    CASE phase = "find_config" ->
           [E EXCEPT !.find = E.n, !.n = @ + 1, !.ph = Append(@, Entry(phase, "none", 0))]
      [] phase = "post_rewrite" ->
           IF handlers["rewrite"] = <<>> THEN E
           ELSE [E EXCEPT !.n = @ + 1, !.ph = Append(@, Entry(phase, "none", E.find))]
      [] phase = "post_access" ->
           IF handlers["access"] = <<>> THEN E
           ELSE [E EXCEPT !.ph = Append(@, Entry(phase, "none", E.n))]
      [] phase = "try_files" ->
           IF handlers["try_files"] = <<>> THEN E
           ELSE [E EXCEPT !.n = @ + 1, !.ph = Append(@, Entry(phase, "none", 0))]
      [] phase = "server_rewrite" -> PhaseEntries([E EXCEPT !.srv = E.n], handlers, phase)
      [] phase = "rewrite" -> PhaseEntries([E EXCEPT !.rew = E.n], handlers, phase)
      [] OTHER -> PhaseEntries(E, handlers, phase)

InitPhaseHandlers(handlers) ==
    FoldLeft(LAMBDA E, phase : AddPhase(E, handlers, phase),
             [ph |-> <<>>, n |-> 0, srv |-> 0, rew |-> 0, find |-> 0], Phases)

Unbuilt == [ok |-> FALSE, levels |-> <<>>, engine |-> <<>>]

NoRequest == [uri |-> <<>>, loc |-> Server, ph |-> 0, changes |-> MaxUriChanges + 1,
              changed |-> FALSE, internal |-> FALSE, error_page |-> FALSE, access |-> 0,
              handler |-> FALSE, valid |-> TRUE, add |-> FALSE, state |-> "none",
              status |-> 0, sub |-> FALSE, limited |-> FALSE, large |-> FALSE,
              discard |-> FALSE, verdicts |-> <<>>, tested |-> <<>>, hops |-> 0]

Init == cf \in Sites /\ site = Unbuilt /\ rq = NoRequest

\* The part of ngx_http_block() after the configuration was read
Configure ==
    /\ rq.state = "none" /\ site = Unbuilt
    /\ \E levels \in {Levels(cf.locs)} :
         /\ \A i \in 1 .. Len(cf.locs) : Placed(cf.locs[i])
         /\ \A id \in DOMAIN levels : ~levels[id].bad
         /\ site' = [ok |-> TRUE, levels |-> levels,
                     engine |-> InitPhaseHandlers(cf.handlers)]
    /\ UNCHANGED <<cf, rq>>

-----------------------------------------------------------------------------
(* The request *)

Engine == site.engine.ph
At == Engine[rq.ph + 1]
Set(R) == cf.set[R.loc]
Running(checker) == rq.state = "run" /\ At.checker = checker

Forward(R) == [R EXCEPT !.ph = @ + 1]
JumpTo(R, index) == [R EXCEPT !.ph = index]

\* ngx_http_finalize_request(r, rc) with a code that has no response of its own yet
Finalize(R, code) == [R EXCEPT !.state = "final", !.status = code]
Served(R) == [R EXCEPT !.state = "done", !.status = 200]

\* update_location_config(): limit_except's own loc_conf, and the content handler
UpdateConfig(R) ==
    LET L == IF R.limited /\ Set(R).limit /= None THEN [R EXCEPT !.loc = Set(R).limit] ELSE R
    IN IF Set(L).handler THEN [L EXCEPT !.handler = TRUE] ELSE L

\* ngx_http_handler()
Handler(R) ==
    [R EXCEPT !.ph = IF R.internal THEN site.engine.srv ELSE 0, !.valid = TRUE,
              !.state = "run"]

\* a bit field of ChangesWidth bits
Decrement(n) == (n + 2 ^ ChangesWidth - 1) % 2 ^ ChangesWidth

\* ngx_http_internal_redirect()
InternalRedirect(R, uri) ==
    LET D == [R EXCEPT !.changes = Decrement(@), !.hops = @ + 1] IN
    IF D.changes = 0 THEN Finalize(D, 500)
    ELSE Handler([UpdateConfig([D EXCEPT !.uri = uri, !.loc = Server])
                  EXCEPT !.internal = TRUE, !.add = FALSE])

\* ngx_http_named_location()
NamedLocation(R, name) ==
    LET D == [R EXCEPT !.changes = Decrement(@), !.hops = @ + 1]
        ids == SelectSeq(site.levels[Server].named, LAMBDA id : cf.set[id].name = name)
    IN IF D.changes = 0 \/ ids = <<>> THEN Finalize(D, 500)
       ELSE [UpdateConfig([D EXCEPT !.internal = TRUE, !.handler = FALSE, !.changed = FALSE,
                                    !.loc = Head(ids), !.verdicts = <<>>, !.tested = <<>>])
             EXCEPT !.ph = site.engine.rew, !.state = "run"]

\* A request arrives, or a subrequest of one
Arrive ==
    /\ site.ok /\ rq.state = "none"
    /\ \E r \in cf.requests :
         rq' = Handler([NoRequest EXCEPT !.uri = r.uri, !.sub = r.sub,
                                         !.internal = r.sub, !.limited = r.limited,
                                         !.large = r.large])
    /\ UNCHANGED <<cf, site>>

Step(R) == rq' = R /\ UNCHANGED <<cf, site>>

\* ngx_http_core_generic_phase(): realip, limit_req, limit_conn
GenericPhase ==
    /\ Running("generic")
    /\ \E rc \in Set(rq).generic :
         Step(CASE rc = 0 -> JumpTo(rq, At.next)
                [] rc = Declined -> Forward(rq)
                [] OTHER -> Finalize(rq, rc))

\* ngx_http_core_rewrite_phase() with the rewrite module's handler: a directive
\* changes the URI (and marks it changed unless flagged break), or returns a code
RewritePhase ==
    /\ Running("rewrite")
    /\ LET w == Set(rq).rewrite IN
       Step(CASE w.op = "none" -> Forward(rq)
              [] w.op = "last" -> Forward([rq EXCEPT !.uri = w.uri, !.changed = TRUE,
                                                     !.valid = FALSE])
              [] w.op = "break" -> Forward([rq EXCEPT !.uri = w.uri, !.changed = FALSE,
                                                      !.valid = FALSE])
              [] OTHER -> Finalize(rq, w.code))

\* ngx_http_core_find_config_phase(): a body that is too large is discarded, by the main
\* request only, and is not tested again
FindConfigPhase ==
    /\ Running("find_config")
    /\ \E found \in {FindLocation(site.levels, cf.set, rq.uri, rq.loc)} :
       LET R == [rq EXCEPT !.handler = FALSE, !.changed = FALSE, !.loc = found.loc,
                           !.verdicts = <<>>, !.tested = <<>>]
           U == UpdateConfig(R)
           large == rq.large /\ ~rq.discard /\ Set(R).maxbody
       IN Step(CASE ~R.internal /\ Set(R).internal -> Finalize(R, 404)
                 [] R.internal \/ ~Set(R).internal ->
                    (CASE large -> Finalize([U EXCEPT !.discard = ~rq.sub], 413)
                       [] ~large /\ found.rv = "done" -> Finalize(U, 301)
                       [] OTHER -> Forward(U)))

\* ngx_http_core_post_rewrite_phase()
PostRewritePhase ==
    /\ Running("post_rewrite")
    /\ LET D == [rq EXCEPT !.changes = Decrement(@), !.hops = @ + 1] IN
       Step(CASE ~rq.changed -> Forward(rq)
              [] rq.changed /\ D.changes = 0 -> Finalize(D, 500)
              [] OTHER -> [JumpTo(D, At.next) EXCEPT !.loc = Server])

\* satisfy any: a refusal is remembered and the next handler is asked
DeniedUnrecorded(V, code) == Forward(V)
Denied(V, code) == Forward([V EXCEPT !.access = code])

\* ngx_http_core_access_phase() with the answer of one access handler
AccessAnswer(R, next, rc) ==
    LET V == [R EXCEPT !.verdicts = Append(@, rc)]
        any == Set(R).satisfy = "any"
    IN CASE rc = 0 /\ any -> JumpTo([V EXCEPT !.access = 0], next)
         [] rc = 0 /\ ~any -> Forward(V)
         [] rc = Declined -> Forward(V)
         [] rc \in {401, 403} /\ any -> Denied(V, rc)
         [] OTHER -> Finalize(V, rc)

AccessPhase ==
    /\ Running("access")
    /\ \/ rq.sub /\ Step(JumpTo(rq, At.next))
       \/ ~rq.sub /\ \E rc \in Set(rq).answers : Step(AccessAnswer(rq, At.next, rc))

\* ngx_http_core_post_access_phase()
PostAccessPhase ==
    /\ Running("post_access")
    /\ Step(IF rq.access /= 0 THEN Finalize([rq EXCEPT !.access = 0], rq.access)
            ELSE Forward(rq))

-----------------------------------------------------------------------------
(* Files *)

Drop(q, n) == SubSeq(q, n + 1, Len(q))

\* The length of the part of the URI that alias replaces
Alias(R) == IF Set(R).alias THEN Len(Set(R).name) ELSE 0

\* ngx_http_map_uri_to_path(): root and the URI; with alias the URI without the
\* location's name; in a regex location alias alone, or alias and the URI
MapUri(R) ==
    CASE Set(R).alias /\ Set(R).regex -> Set(R).root \o (IF R.add THEN R.uri ELSE <<>>)
      [] Set(R).alias /\ ~Set(R).regex -> Set(R).root \o Drop(R.uri, Alias(R))
      [] OTHER -> Set(R).root \o R.uri

\* "alias" cannot be used where the URI was rewritten
Unmappable(R) == Set(R).alias /\ ~R.valid

\* The name a parameter of try_files stands for, with its variable $uri evaluated; the
\* location's name is cut off an evaluated one under alias
FileName(R, tf) ==
    LET value == R.uri \o tf.name IN
    CASE ~tf.var -> tf.name
      [] tf.var /\ Set(R).alias /\ IsPrefix(Set(R).name, value) -> Drop(value, Alias(R))
      [] OTHER -> value

Found(R, tf) ==
    LET name == FileName(R, tf) IN
    CASE ~Set(R).alias -> [R EXCEPT !.uri = name]
      [] Set(R).alias /\ Set(R).regex /\ tf.dir -> R
      [] Set(R).alias /\ Set(R).regex /\ ~tf.dir -> [R EXCEPT !.uri = name, !.add = TRUE]
      [] OTHER -> [R EXCEPT !.uri = Set(R).name \o name]

\* The first parameter naming a file, or a directory where the parameter ends with "/"
Usable(R, tf) ==
    \E f \in cf.files : f.path = Set(R).root \o FileName(R, tf) /\ (f.dir => tf.dir)

\* the last parameter: a code, a named location or a URI.  A trailing "/" was cut off it
\* when the configuration was read, like off every other parameter.
Fallback(R, tf) ==
    CASE tf.code /= 0 -> Finalize(R, tf.code)
      [] tf.code = 0 /\ tf.named -> NamedLocation(R, tf.name)
      [] OTHER -> InternalRedirect(R, FileName(R, tf))

\* ngx_http_core_try_files_phase()
TryFilesPhase ==
    /\ Running("try_files")
    /\ LET try == Set(rq).try
           usable == {i \in 1 .. Len(try) - 1 : Usable(rq, try[i])}
           first == CHOOSE i \in usable : \A j \in usable : i <= j
       IN Step(CASE try = <<>> -> Forward(rq)
                 [] try /= <<>> /\ Unmappable(rq) -> Finalize(rq, 500)
                 [] try /= <<>> /\ ~Unmappable(rq) /\ usable /= {} ->
                      Forward([Found(rq, try[first]) EXCEPT
                                 !.tested = Set(rq).root \o FileName(rq, try[first])])
                 [] OTHER -> Fallback(rq, try[Len(try)]))

\* ngx_http_core_content_phase(): the location's own handler, or the handlers of the
\* phase in turn; a handler may also redirect internally, as the index module does
ContentPhase ==
    /\ Running("content")
    /\ \E rc \in Set(rq).content :
         Step(CASE rc = 0 -> Served(rq)
                [] rc = Declined /\ ~rq.handler ->
                     (IF rq.ph + 1 < Len(Engine) THEN Forward(rq)
                      ELSE Finalize(rq, IF Last(rq.uri) = Slash THEN 403 ELSE 404))
                [] rc = Declined /\ rq.handler -> Finalize(rq, 404)
                [] rc = 302 -> InternalRedirect(rq, Append(rq.uri, Slash))
                [] OTHER -> Finalize(rq, rc))

-----------------------------------------------------------------------------
(* Error pages *)

MayHavePage(R) == ~R.error_page /\ Set(R).pages /= <<>> /\ R.changes /= 0

\* send_error_page(): a URI, a named location, or an address for the client
SendErrorPage(R, page) ==
    CASE page.kind = "uri" -> InternalRedirect(R, page.name)
      [] page.kind = "named" -> NamedLocation(R, page.name)
      [] OTHER -> [R EXCEPT !.state = "done", !.status = 302]

\* ngx_http_special_response_handler()
SpecialResponse ==
    /\ rq.state = "final"
    /\ LET R == IF MayHavePage(rq) /\ ~Set(rq).recursive
                THEN [rq EXCEPT !.error_page = TRUE] ELSE rq
           pages == IF MayHavePage(rq)
                    THEN SelectSeq(Set(rq).pages, LAMBDA p : p.status = rq.status) ELSE <<>>
       IN Step(IF pages = <<>> THEN [R EXCEPT !.state = "done"]
               ELSE SendErrorPage(R, Head(pages)))

Next == \/ Configure \/ Arrive \/ GenericPhase \/ RewritePhase \/ FindConfigPhase
        \/ PostRewritePhase \/ AccessPhase \/ PostAccessPhase \/ TryFilesPhase
        \/ ContentPhase \/ SpecialResponse

Spec == Init /\ [][Next]_vars

-----------------------------------------------------------------------------
(* Properties *)

StaticKinds == {"exact", "prefix", "noregex"}
RegexOf(locs) == SelectSeq(locs, LAMBDA l : l.kind = "regex")

\* The rule for choosing a location, said over the location blocks as they were written:
\* the exact one; else a redirect to the name with a slash, unless the URI itself is a
\* location; else the longest prefix and what is nested in it, unless the first matching
\* regular expression overrides it.
RECURSIVE Rule(_, _, _)
Rule(locs, uri, here) ==
    LET Named(kinds, name) == {l \in Range(locs) : l.kind \in kinds /\ l.name = name}
        exact == Named({"exact"}, uri)
        slash == Named(StaticKinds, Append(uri, Slash))
        redirect == \E l \in slash : l.auto
        target == IF \E l \in slash : l.kind = "exact"
                  THEN CHOOSE l \in slash : l.kind = "exact" ELSE CHOOSE l \in slash : TRUE
        prefixes == {l \in Range(locs) : /\ l.kind \in {"prefix", "noregex"}
                                         /\ IsPrefix(l.name, uri)}
        best == CHOOSE l \in prefixes : \A k \in prefixes : Len(k.name) <= Len(l.name)
        inner == IF prefixes = {} THEN [rv |-> "declined", loc |-> here]
                 ELSE Rule(best.nested, uri, best.id)
        regex == SelectSeq(RegexOf(locs), LAMBDA l : Matches(l.name, uri))
    IN CASE exact /= {} -> [rv |-> "ok", loc |-> (CHOOSE l \in exact : TRUE).id]
         [] exact = {} /\ redirect /\ Named({"prefix", "noregex"}, uri) = {} ->
              [rv |-> "done", loc |-> target.id]
         [] exact = {} /\ ~(redirect /\ Named({"prefix", "noregex"}, uri) = {}) ->
              IF \/ regex = <<>> \/ inner.rv \in {"ok", "done"}
                 \/ prefixes /= {} /\ best.kind = "noregex"
              THEN inner
              ELSE [Rule(RegexOf(Head(regex).nested), uri, Head(regex).id) EXCEPT !.rv = "ok"]

\* Whatever blocks a configuration has and in whatever order they are written, sorting,
\* joining, folding into trees and walking them choose for every URI the location that
\* the rule over the written blocks chooses (ngx_http_core_find_location()).
LocationByRule ==
    site.ok /\ rq.state = "none" =>
        \A uri \in cf.uris :
            FindLocation(site.levels, cf.set, uri, Server) = Rule(cf.locs, uri, Server)

\* The access handlers' answers permit the location: with satisfy all none refused and
\* all were asked; with satisfy any one said yes, or all were asked and none refused.
Permitted(R) ==
    LET refused == \E i \in 1 .. Len(R.verdicts) : R.verdicts[i] \notin {0, Declined}
        asked == Len(R.verdicts) = Len(cf.handlers["access"])
    IN \/ asked /\ ~refused
       \/ Set(R).satisfy = "any" /\ \E i \in 1 .. Len(R.verdicts) : R.verdicts[i] = 0

\* However a request got to its location (rewrites, error pages, fallbacks and named
\* locations jump between the phases), its files are looked up and its content handlers
\* run only after the access handlers permitted this location; only subrequests are exempt
\* (ngx_http_core_access_phase(), ngx_http_core_post_access_phase()).
AccessBeforeContent ==
    (Running("try_files") \/ Running("content")) => rq.sub \/ Permitted(rq)

=============================================================================
