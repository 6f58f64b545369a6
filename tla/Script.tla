------------------------------- MODULE Script -------------------------------
(***************************************************************************)
(* The script engine of nginx and the rewrite module                       *)
(* (http/ngx_http_script.c, http/modules/ngx_http_rewrite_module.c) with   *)
(* the indexed variables (http/ngx_http_variables.c) they read and set.    *)
(*                                                                         *)
(* The directives rewrite, set, if, return and break are compiled into one *)
(* array of codes; a request runs the array.  A value with variables and   *)
(* captures is compiled twice, into codes that compute its length and      *)
(* codes that write it into a buffer of that length.  A text is a sequence *)
(* of characters; "H" stands for "http://" and "NUL" for the end of a C    *)
(* string.  A position in the code array is an index, so that the array    *)
(* may be moved while it grows.  Regular expressions are external: a       *)
(* prefix, then up to two captures of the rest, side by side or the second *)
(* inside the first (nested).                                              *)
(***************************************************************************)
EXTENDS Integers, Sequences, SequencesExt, FiniteSets, TLC

CONSTANTS Configs,      \* records [dirs, named, final] of a location or a server
          Requests,     \* records [uri, args, host, err] that arrive
          Kinds         \* function from paths to sets of "file", "dir", "exec"

VARIABLES phase,        \* "conf", "run", "done", "final", "emerg"
          cf,           \* the configuration
          given,        \* the request as it arrived
          codes,        \* lcf->codes
          e,            \* the engine
          rq,           \* the request
          ans           \* the last complex value: its text and its reference

vars == <<phase, cf, given, codes, e, rq, ans>>

Digits == {"1", "2"}
Names == {"v", "w", "u", "g", "h"}          \* the variables with a get handler
Prefix == <<"/", "p">>                      \* ngx_cycle->prefix
DECLINED == -5
No == [ok |-> FALSE]                        \* NGX_CONF_ERROR

-----------------------------------------------------------------------------
(* URI escaping *)

(* The characters that NGX_ESCAPE_ARGS escapes, among those used here.     *)
Hex(ch) == CASE ch = " " -> <<"%", "2", "0">> [] ch = "&" -> <<"%", "2", "6">>
             [] OTHER -> <<ch>>

escape_count(t) == Len(SelectSeq(t, LAMBDA ch : Len(Hex(ch)) = 3))
escape_uri(t) == FlattenSeq([i \in DOMAIN t |-> Hex(t[i])])

(* ngx_unescape_uri with NGX_UNESCAPE_REDIRECT, and the rest moved after   *)
(* it: up to the first "?" a quoted character above "%" is decoded.        *)
unescape_redirect(t) ==
    LET Take(a, ch) ==
            CASE a.state = "done" -> [a EXCEPT !.out = Append(@, ch)]
              [] a.state = "usual" /\ ch = "?" ->
                   [a EXCEPT !.out = Append(@, ch), !.state = "done"]
              [] a.state = "usual" /\ ch = "%" -> [a EXCEPT !.state = "quoted"]
              [] a.state = "quoted" /\ ch = "2" -> [a EXCEPT !.state = "second"]
              [] a.state = "second" /\ ch \in {"0", "6"} ->
                   [a EXCEPT !.state = "usual",
                             !.out = @ \o IF ch = "6" THEN <<"&">> ELSE <<"%", "2", ch>>]
              [] a.state = "second" -> [a EXCEPT !.state = "usual"]
              [] OTHER -> [a EXCEPT !.state = "usual", !.out = Append(@, ch)]
    IN FoldLeft(Take, [state |-> "usual", out |-> <<>>], t).out

-----------------------------------------------------------------------------
(* Variables *)

Null == [valid |-> TRUE, not_found |-> FALSE, no_cacheable |-> FALSE, data |-> <<>>]
Unset == [Null EXCEPT !.valid = FALSE]
Found(t) == IF t = <<>> THEN [Unset EXCEPT !.not_found = TRUE] ELSE [Null EXCEPT !.data = t]

(* The get handlers: of $v, which a set directive creates; of $w, a named  *)
(* capture; of $uri, $args and $host, here $u, $g and $h.                  *)
get_handler(R, x) ==
    CASE x = "v" -> Null
      [] x = "w" -> [Unset EXCEPT !.not_found = TRUE]
      [] x = "u" -> [Found(R.uri) EXCEPT !.no_cacheable = TRUE]
      [] x = "g" -> [Found(R.args) EXCEPT !.no_cacheable = TRUE]
      [] x = "h" -> Found(R.host)

(* ngx_http_get_indexed_variable: the request with the variable evaluated. *)
get_indexed(R, x) ==
    IF R.variables[x].not_found \/ R.variables[x].valid THEN R
    ELSE [R EXCEPT !.variables[x] = get_handler(R, x)]

Flushed(v) == IF v.no_cacheable THEN [v EXCEPT !.valid = FALSE, !.not_found = FALSE] ELSE v

get_flushed(R, x) == get_indexed([R EXCEPT !.variables[x] = Flushed(@)], x)

Evaluated(R, x, flushed) == IF flushed THEN get_indexed(R, x) ELSE get_flushed(R, x)

DataOf(R, x) == IF R.variables[x].not_found THEN <<>> ELSE R.variables[x].data

(* ngx_http_regex_exec: <<matched, the request with captures and named     *)
(* variables>>.                                                            *)
regex_exec(R, re, line) ==
    LET rest == SubSeq(line, Len(re.pre) + 1, Len(line))
        matched == IsPrefix(re.pre, line) /\ (re.caps = 2 => rest # <<>>)
        caps == CASE re.caps = 0 -> <<>> [] re.caps = 1 -> <<rest>>
                  [] re.caps = 2 -> <<IF re.nested THEN rest ELSE <<Head(rest)>>, Tail(rest)>>
    IN IF ~matched THEN <<FALSE, R>>
       ELSE <<TRUE, [R EXCEPT !.captures = caps, !.nested = re.caps = 2 /\ re.nested,
                              !.variables["w"] = IF re.named THEN [Null EXCEPT !.data = caps[1]]
                                                 ELSE @]>>

-----------------------------------------------------------------------------
(* Compiling a value *)

Code == [op |-> "nop", text |-> <<>>, n |-> 0, x |-> "", next |-> 0, lengths |-> <<>>,
         known |-> FALSE, flags |-> {}, re |-> <<>>, status |-> 0, size |-> 0]

StartSc(compile_args, zero, prefix) ==
    [ok |-> TRUE, lengths |-> <<>>, values |-> <<>>, flushes |-> {}, variables |-> 0,
     captures |-> {}, dup |-> FALSE, size |-> 0, args |-> FALSE,
     compile_args |-> compile_args, zero |-> zero, prefix |-> prefix]

Both(sc, code) == [sc EXCEPT !.lengths = Append(@, code), !.values = Append(@, code)]

add_copy_code(sc, t, last) ==
    LET zero == sc.zero /\ last
    IN Both([sc EXCEPT !.zero = @ /\ ~zero],
            [Code EXCEPT !.op = "copy", !.text = IF zero THEN Append(t, "NUL") ELSE t])

add_var_code(sc, x) ==
    Both([sc EXCEPT !.variables = @ + 1, !.flushes = @ \cup {x}],
         [Code EXCEPT !.op = "copy_var", !.x = x])

add_capture_code(sc, n) ==
    Both([sc EXCEPT !.dup = @ \/ n \in sc.captures, !.captures = @ \cup {n}],
         [Code EXCEPT !.op = "capture", !.n = n])

add_args_code(sc) ==
    Both([sc EXCEPT !.args = TRUE, !.compile_args = FALSE], [Code EXCEPT !.op = "args"])

(* The end of the run of characters of src that starts at i and satisfies  *)
(* Stop nowhere.                                                           *)
RunEnd(src, i, stop) ==
    LET ends == {j \in i .. Len(src) : src[j] \in stop}
    IN IF ends = {} THEN Len(src) + 1 ELSE CHOOSE j \in ends : \A k \in ends : j <= k

Others == {"$", "{", "}", "?", "/", "-", "0", "H", "NUL", " ", "&"}

(* ngx_http_script_compile, from position i of the source.  A name that no *)
(* variable has is refused by ngx_http_variables_init_vars.                *)
RECURSIVE compile(_, _, _)
compile(sc, src, i) ==
    IF i > Len(src) THEN sc
    ELSE IF src[i] = "$" THEN
        IF i = Len(src) THEN No
        ELSE IF src[i + 1] \in Digits
        THEN compile(add_capture_code(sc, IF src[i + 1] = "1" THEN 1 ELSE 2), src, i + 2)
        ELSE LET bracket == src[i + 1] = "{"
                 from == IF bracket THEN i + 2 ELSE i + 1
                 upto == RunEnd(src, from, Others)
                 name == SubSeq(src, from, upto - 1)
             IN IF \/ bracket /\ (upto > Len(src) \/ src[upto] # "}")
                   \/ Len(name) # 1 \/ name[1] \notin Names
                THEN No
                ELSE compile(add_var_code(sc, name[1]), src, IF bracket THEN upto + 1 ELSE upto)
    ELSE IF src[i] = "?" /\ sc.compile_args
    THEN compile(add_args_code(sc), src, i + 1)
    ELSE LET upto == RunEnd(src, i, IF sc.compile_args THEN {"$", "?"} ELSE {"$"})
             t == SubSeq(src, i, upto - 1)
             hasArgs == "?" \in Range(t) \/ (upto <= Len(src) /\ src[upto] = "?")
         IN compile(add_copy_code([sc EXCEPT !.size = @ + Len(t), !.args = @ \/ hasArgs],
                                  t, upto > Len(src)), src, upto)

(* ngx_http_script_done: the final zero and the prefix of a file name.     *)
script_done(sc) ==
    LET z == IF sc.zero THEN add_copy_code(sc, <<"NUL">>, FALSE) ELSE sc
    IN IF z.prefix THEN Both(z, [Code EXCEPT !.op = "full_name"]) ELSE z

Compiled(src, compile_args, zero, prefix) ==
    LET sc == compile(StartSc(compile_args, zero, prefix), src, 1)
    IN IF sc.ok THEN script_done(sc) ELSE No

-----------------------------------------------------------------------------
(* Running length and value codes *)

Escapes(E, R) == (E.is_args \/ E.quote) /\ R.quoted

CaptureOf(R, n) == IF n \in DOMAIN R.captures THEN R.captures[n] ELSE <<>>

(* The length codes, on the state a = [len, is_args, quote, flushed, r].   *)
copy_len_code(a, code) == [a EXCEPT !.len = @ + Len(code.text)]

copy_var_len_code(a, code) ==
    LET R == Evaluated(a.r, code.x, a.flushed)
    IN [a EXCEPT !.r = R, !.len = @ + Len(DataOf(R, code.x))]

mark_args_code(a) == [a EXCEPT !.is_args = TRUE, !.len = @ + 1]

copy_capture_len_code(a, code) ==
    LET t == CaptureOf(a.r, code.n)
    IN [a EXCEPT !.len = @ + Len(t) + IF Escapes(a, a.r) THEN 2 * escape_count(t) ELSE 0]

full_name_len_code(a) == [a EXCEPT !.len = @ + Len(Prefix)]

LenCode(a, code) ==
    CASE code.op = "copy" -> copy_len_code(a, code)
      [] code.op = "copy_var" -> copy_var_len_code(a, code)
      [] code.op = "args" -> mark_args_code(a)
      [] code.op = "capture" -> copy_capture_len_code(a, code)
      [] code.op = "full_name" -> full_name_len_code(a)

Lengths(R, lengths, quote, flushed) ==
    FoldLeft(LenCode, [len |-> 0, is_args |-> FALSE, quote |-> quote, flushed |-> flushed,
                       r |-> R], lengths)

full_name(t) == IF t # <<>> /\ t[1] = "/" THEN t ELSE Prefix \o t

(* The value codes, on engine a.e and request a.r: they write at e->pos.   *)
copy_code(a, code) == [a EXCEPT !.e.out = @ \o code.text]

copy_var_code(a, code) ==
    LET R == Evaluated(a.r, code.x, a.e.flushed)
    IN [a EXCEPT !.r = R, !.e.out = @ \o DataOf(R, code.x)]

start_args_code(a) == [a EXCEPT !.e.is_args = TRUE, !.e.args = Len(a.e.out)]

copy_capture_code(a, code) ==
    LET t == CaptureOf(a.r, code.n)
    IN [a EXCEPT !.e.out = @ \o IF Escapes(a.e, a.r) THEN escape_uri(t) ELSE t,
                 !.e.stale = @ \/ (a.e.is_args /\ a.e.args < 0 /\ t # <<>>)]

full_name_code(a) == [a EXCEPT !.e.out = full_name(@)]

ValueCode(a, code) ==
    CASE code.op = "copy" -> copy_code(a, code)
      [] code.op = "copy_var" -> copy_var_code(a, code)
      [] code.op = "args" -> start_args_code(a)
      [] code.op = "capture" -> copy_capture_code(a, code)
      [] code.op = "full_name" -> full_name_code(a)

(* History: guess, whether the room was estimated; stale, whether a        *)
(* capture met an is_args that an earlier rewrite has left; spilt, whether *)
(* more was written than there was room for.                               *)
Engine == [ip |-> 1, sp |-> <<>>, out |-> <<>>, room |-> 0, args |-> -1, is_args |-> FALSE,
           quote |-> FALSE, flushed |-> FALSE, status |-> DECLINED,
           guess |-> FALSE, stale |-> FALSE, spilt |-> FALSE]

(* ngx_http_complex_value: <<request, text, room>>.                        *)
complex_value(R, cv) ==
    IF cv.lengths = <<>> THEN <<R, cv.value, Len(cv.value)>>
    ELSE LET Text(v, room) == <<v.r, v.e.out, room>>
             Values(le) == Text(FoldLeft(ValueCode, [e |-> [Engine EXCEPT !.flushed = TRUE],
                                                     r |-> le.r], cv.values), le.len)
         IN Values(Lengths([R EXCEPT !.variables =
                       [x \in Names |-> IF x \in cv.flushes THEN Flushed(@[x]) ELSE @[x]]],
                           cv.lengths, FALSE, TRUE))

(* ngx_http_script_run: every variable is flushed.                         *)
script_run(R, cv) ==
    complex_value([R EXCEPT !.variables = [x \in Names |-> Flushed(@[x])]],
                  [cv EXCEPT !.flushes = {}])

ComplexValue(v, sc) ==
    IF sc.ok THEN [ok |-> TRUE, value |-> v, lengths |-> sc.lengths, values |-> sc.values,
                   flushes |-> sc.flushes]
    ELSE No

(* ngx_http_compile_complex_value *)
compile_complex_value(src, zero, prefix) ==
    LET plain == src = <<>> \/ src[1] # "$"
        v == IF plain /\ prefix THEN full_name(src) ELSE src
    IN IF "$" \notin Range(v)
       THEN [ok |-> TRUE, value |-> v, lengths |-> <<>>, values |-> <<>>, flushes |-> {}]
       ELSE ComplexValue(v, Compiled(v, FALSE, zero, prefix /\ ~plain))

(* ngx_http_test_predicates *)
test_predicates(R, cvs) ==
    FoldLeft(LAMBDA a, cv :
                 IF a[2] # "ok" THEN a
                 ELSE LET c == complex_value(a[1], cv)
                      IN <<c[1], IF c[2] # <<>> /\ c[2] # <<"0">> THEN "declined" ELSE "ok">>,
             <<R, "ok">>, cvs)

-----------------------------------------------------------------------------
(* Compiling the directives.  C is the code array so far.                  *)

Item(it) == CASE it.k = "lit" -> it.t [] it.k = "var" -> <<"$", it.x>>
              [] it.k = "brace" -> <<"$", "{", it.x, "}">>
              [] it.k = "cap" -> <<"$", it.x>> [] it.k = "args" -> <<"?">>
              [] it.k = "open" -> <<"$", "{", it.x>>

(* A value as it is written in the configuration.                          *)
Source(tmpl) == FlattenSeq([i \in DOMAIN tmpl |-> Item(tmpl[i])])

Codes(C) == [ok |-> TRUE, codes |-> C]

rewrite_value(C, src) ==
    IF "$" \notin Range(src)
    THEN Codes(Append(C, [Code EXCEPT !.op = "value", !.text = src]))
    ELSE LET Complex(sc) ==
                 IF ~sc.ok THEN No
                 ELSE Codes(C \o <<[Code EXCEPT !.op = "complex", !.lengths = sc.lengths]>>
                              \o sc.values)
         IN Complex(Compiled(src, FALSE, FALSE, FALSE))

(* A last code after the codes of R.                                       *)
Ended(R, code) == IF R.ok THEN Codes(Append(R.codes, code)) ELSE No

(* $args has a set handler; $uri and $host are not changeable.             *)
rewrite_set(C, d) ==
    IF d.x \notin {"v", "w", "g"} THEN No
    ELSE Ended(rewrite_value(C, Source(d.tmpl)),
               [Code EXCEPT !.op = IF d.x = "g" THEN "var_handler" ELSE "set_var", !.x = d.x])

(* ngx_http_rewrite.  The end of the rewrite is where a request that does  *)
(* not match goes on.                                                      *)
RewriteNextBeforeExit(values, last) == Len(values) + 2
RewriteNext(values, last) == Len(values) + 2 + IF last THEN 1 ELSE 0

RewriteCodes(C, d, redirect, drop, last, sc) ==
    LET flags == {f \in {"redirect", "add_args", "break_cycle", "args"} :
                    CASE f = "redirect" -> redirect [] f = "add_args" -> ~drop
                      [] f = "break_cycle" -> d.flag = "break" [] f = "args" -> sc.args}
                 \cup {"uri"}
        start == [Code EXCEPT !.op = "regex_start", !.re = d.re, !.flags = flags,
                              !.status = IF ~redirect THEN 0
                                         ELSE IF d.flag = "permanent" THEN 301 ELSE 302,
                              !.size = sc.size, !.known = sc.variables # 0 \/ sc.dup,
                              !.lengths = sc.lengths,
                              !.next = RewriteNext(sc.values, last)]
    IN IF ~sc.ok THEN No
       ELSE Codes(C \o <<start>> \o sc.values
                    \o <<[Code EXCEPT !.op = "regex_end", !.flags = flags]>>
                    \o IF last THEN <<[Code EXCEPT !.op = "exit"]>> ELSE <<>>)

rewrite(C, d, text) ==
    LET drop == text # <<>> /\ text[Len(text)] = "?"
        redirect == (text # <<>> /\ text[1] = "H") \/ d.flag \in {"redirect", "permanent"}
    IN RewriteCodes(C, d, redirect, drop, redirect \/ d.flag # "none",
                    Compiled(IF drop THEN SubSeq(text, 1, Len(text) - 1) ELSE text,
                             ~redirect, FALSE, FALSE))

rewrite_return(C, d) ==
    LET Returns(cv) ==
            IF cv.ok
            THEN Codes(Append(C, [Code EXCEPT !.op = "return", !.status = d.status, !.re = cv]))
            ELSE No
    IN Returns(compile_complex_value(Source(d.tmpl), FALSE, FALSE))

(* ngx_http_rewrite_if_condition *)
if_condition(C, c, src) ==
    LET V == Append(C, [Code EXCEPT !.op = "var", !.x = c.x])
    IN CASE c.c = "var" -> Codes(V)
         [] c.c \in {"equal", "not_equal", "file"} ->
              Ended(IF c.c = "file" THEN rewrite_value(C, Append(src, "NUL"))
                    ELSE rewrite_value(V, src),
                    [Code EXCEPT !.op = c.c, !.flags = c.flags])
         [] c.c \in {"match", "no_match"} ->
              Codes(Append(V, [Code EXCEPT !.op = "regex_start", !.re = c.re, !.next = 1,
                                 !.flags = {"test"} \cup IF c.c = "match" THEN {}
                                                         ELSE {"negative_test"}]))

(* The directives of a block, in order; the inner directives of an if go   *)
(* into the same array (ngx_http_rewrite_if).                              *)
RECURSIVE compile_block(_, _, _)
compile_block(R, dirs, named) ==
    IF ~R.ok \/ dirs = <<>> THEN R
    ELSE LET d == Head(dirs)
             C == R.codes
             Jump(at, B) ==
                 IF B.ok THEN Codes([B.codes EXCEPT ![at].next = Len(B.codes) - at + 1]) ELSE No
             Inside(I) ==
                 IF I.ok THEN Jump(Len(I.codes), compile_block(I, d.body, named)) ELSE No
         IN compile_block(
              CASE d.d = "set" -> rewrite_set(C, d)
                [] d.d = "rewrite" -> rewrite(C, d, Source(d.tmpl))
                [] d.d = "return" -> rewrite_return(C, d)
                [] d.d = "break" -> Codes(Append(C, [Code EXCEPT !.op = "break"]))
                [] d.d = "if" ->
                     Inside(Ended(if_condition(C, d.cond, Source(d.cond.tmpl)),
                                  [Code EXCEPT !.op = "if", !.n = IF named THEN 1 ELSE 0])),
              Tail(dirs), named)

-----------------------------------------------------------------------------
(* Running the code array: each operator is one code, on engine E and      *)
(* request R, and returns <<engine, request>>.                             *)

Plain(t) == [text |-> t, len |-> -1]

(* A stack entry made by a complex value is the buffer that the value      *)
(* codes after it fill, up to the length computed for it.                  *)
TextOf(E, s) ==
    IF s.len < 0 THEN s.text
    ELSE [i \in 1 .. s.len |-> IF i <= Len(E.out) THEN E.out[i] ELSE "unwritten"]

Top(E) == TextOf(E, Last(E.sp))
Popped(E) == [E EXCEPT !.sp = Front(@)]
Replaced(E, t) == [E EXCEPT !.sp = Append(Front(@), Plain(t))]
Ahead(E) == [E EXCEPT !.ip = @ + 1]
Exit(E, status) == [E EXCEPT !.ip = 0, !.status = status]
Truth(b) == IF b THEN <<"1">> ELSE <<>>

(* The length of a replacement whose codes are all literals and distinct   *)
(* captures: every capture, and room to escape every character of the URI. *)
EstimateUnescaped(R, code) == code.size + FoldLeft(LAMBDA n, t : n + Len(t), 0, R.captures)
Estimate(R, code) ==
    code.size
    + (IF "uri" \in code.flags /\ R.captures # <<>> /\ R.quoted
       THEN 2 * escape_count(R.uri) ELSE 0)
    + FoldLeft(LAMBDA n, t : n + Len(t), 0, R.captures)

(* A rewrite that matched, with request R and its lengths le.              *)
RewriteStart(E, R, code, le) ==
    <<Ahead([E EXCEPT !.status = IF code.status # 0 THEN code.status ELSE @,
                      !.quote = "redirect" \in code.flags, !.out = <<>>, !.guess = ~code.known,
                      !.room = (IF code.known THEN le.len ELSE Estimate(R, code))
                               + IF "add_args" \in code.flags /\ R.args # <<>>
                                 THEN Len(R.args) + 1 ELSE 0]),
      IF code.known THEN le.r ELSE R>>

Changed(R, code) ==
    IF "break_cycle" \in code.flags
    THEN [R EXCEPT !.internal = TRUE, !.valid_location = FALSE, !.uri_changed = FALSE]
    ELSE [R EXCEPT !.internal = TRUE, !.uri_changed = TRUE]

(* x is the result of ngx_http_regex_exec.                                 *)
RegexStarted(E, R, code, x) ==
    LET test == "test" \in code.flags
        Tested(b) == Ahead([Popped(E) EXCEPT !.sp =
                         Append(@, Plain(Truth(b # ("negative_test" \in code.flags))))])
        Started(R1) == RewriteStart(E, R1, code,
                                    Lengths(R1, code.lengths, "redirect" \in code.flags, FALSE))
    IN CASE ~x[1] /\ test -> <<Tested(FALSE), [R EXCEPT !.captures = <<>>]>>
         [] ~x[1] /\ ~test -> <<[E EXCEPT !.ip = @ + code.next], [R EXCEPT !.captures = <<>>]>>
         [] x[1] /\ test -> <<Tested(TRUE), x[2]>>
         [] x[1] /\ ~test -> Started(Changed(x[2], code))

regex_start_code(E, R, code) ==
    RegexStarted(E, R, code,
                 regex_exec(R, code.re, IF "uri" \in code.flags THEN R.uri ELSE Top(E)))

regex_end_code(E, R, code) ==
    LET add == "add_args" \in code.flags /\ R.args # <<>>
        target == unescape_redirect(E.out)
                  \o IF add THEN <<IF "args" \in code.flags THEN "&" ELSE "?">> \o R.args ELSE <<>>
        out == E.out \o IF add THEN <<"&">> \o R.args ELSE <<>>
        uri == IF E.args >= 0 THEN SubSeq(E.out, 1, E.args) ELSE E.out
        R1 == [R EXCEPT !.uri = uri,
                        !.args = IF E.args >= 0 THEN SubSeq(out, E.args + 1, Len(out))
                                 ELSE IF "add_args" \in code.flags THEN @ ELSE <<>>]
        E1 == [E EXCEPT !.quote = FALSE, !.args = -1,
                        !.out = IF E.args >= 0 THEN out ELSE @]
    IN IF "redirect" \in code.flags
       THEN <<Ahead([E EXCEPT !.quote = FALSE, !.out = target]),
              [R EXCEPT !.location = target]>>
       ELSE <<IF uri = <<>> THEN Exit(E1, 500) ELSE Ahead(E1), R1>>

(* ngx_http_send_response, its text evaluated: <<status, request>>.        *)
send_response(status, c) ==
    IF status \in {301, 302, 303, 307}
    THEN <<status, [c[1] EXCEPT !.location = c[2]]>>
    ELSE <<0, [c[1] EXCEPT !.body = c[2]]>>

return_code(E, R, code) ==
    IF code.status < 400 \/ code.re.value # <<>>
    THEN LET Sent(s) == <<Exit(E, s[1]), s[2]>>
         IN Sent(send_response(code.status, complex_value(R, code.re)))
    ELSE <<Exit(E, code.status), R>>

break_code(E, R) == <<[E EXCEPT !.ip = 0], [R EXCEPT !.uri_changed = FALSE]>>

if_code(E, R, code) ==
    IF Top(E) # <<>> /\ Top(E) # <<"0">>
    THEN <<Ahead(Popped(E)), [R EXCEPT !.in_if = @ \/ code.n = 1]>>
    ELSE <<[Popped(E) EXCEPT !.ip = @ + code.next], R>>

Equals(E) == Top(E) = TextOf(E, E.sp[Len(E.sp) - 1])

file_code(E, code) ==
    LET path == Front(Top(E))
        kinds == IF path \in DOMAIN Kinds THEN Kinds[path] ELSE {}
        is == CASE "f" \in code.flags -> "file" \in kinds [] "d" \in code.flags -> "dir" \in kinds
                [] "e" \in code.flags -> kinds # {} [] "x" \in code.flags -> "exec" \in kinds
    IN Replaced(E, Truth(is # ("not" \in code.flags)))

complex_value_code(E, R, code) ==
    LET le == Lengths(R, code.lengths, E.quote, FALSE)
    IN <<[E EXCEPT !.out = <<>>, !.room = le.len, !.guess = FALSE,
                   !.sp = Append(@, [text |-> <<>>, len |-> le.len])], le.r>>

set_var_code(E, R, code) ==
    <<Popped(E), [R EXCEPT !.variables[code.x] = [Null EXCEPT !.data = Top(E)]]>>

var_set_handler_code(E, R) == <<Ahead(Popped(E)), [R EXCEPT !.args = Top(E)]>>

var_code(E, R, code) ==
    LET S == get_flushed(R, code.x)
    IN <<[E EXCEPT !.sp = Append(@, Plain(DataOf(S, code.x)))], S>>

Written(E, R, code) ==
    LET a == ValueCode([e |-> E, r |-> R], code)
    IN <<[a.e EXCEPT !.spilt = @ \/ Len(a.e.out) > a.e.room], a.r>>

On(x) == <<Ahead(x[1]), x[2]>>

Step(E, R, code) ==
    CASE code.op = "exit" -> <<[E EXCEPT !.ip = 0], R>>
      [] code.op = "regex_start" -> regex_start_code(E, R, code)
      [] code.op = "regex_end" -> regex_end_code(E, R, code)
      [] code.op = "return" -> return_code(E, R, code)
      [] code.op = "break" -> break_code(E, R)
      [] code.op = "if" -> if_code(E, R, code)
      [] code.op \in {"equal", "not_equal"} ->
           <<Ahead(Replaced(Popped(E), Truth(Equals(E) = (code.op = "equal")))), R>>
      [] code.op = "file" -> <<Ahead(file_code(E, code)), R>>
      [] code.op = "complex" -> On(complex_value_code(E, R, code))
      [] code.op = "value" -> <<Ahead([E EXCEPT !.sp = Append(@, Plain(code.text))]), R>>
      [] code.op = "set_var" -> On(set_var_code(E, R, code))
      [] code.op = "var_handler" -> var_set_handler_code(E, R)
      [] code.op = "var" -> On(var_code(E, R, code))
      [] OTHER -> On(Written(E, R, code))

-----------------------------------------------------------------------------
Arrived(q) ==
    [uri |-> q.uri, args |-> q.args, host |-> q.host, captures |-> <<>>,
     nested |-> FALSE, quoted |-> \E i \in DOMAIN q.uri : Len(Hex(q.uri[i])) = 3, err_status |-> q.err,
     variables |-> [x \in Names |-> Unset], internal |-> FALSE, valid_location |-> TRUE,
     uri_changed |-> FALSE, in_if |-> FALSE, location |-> <<>>, body |-> <<>>]

NoAnswer == [text |-> <<>>, room |-> 0, verdict |-> "ok", kind |-> "none"]

Init ==
    /\ phase = "conf" /\ cf \in Configs /\ given \in Requests
    /\ codes = <<>> /\ e = Engine /\ rq = Arrived(given) /\ ans = NoAnswer

(* The block is compiled and its array is ended                            *)
(* (ngx_http_rewrite_merge_loc_conf).                                      *)
Parse ==
    /\ phase = "conf"
    /\ \E R \in {compile_block(Codes(<<>>), cf.dirs, cf.named)} :
         /\ phase' = IF R.ok THEN "run" ELSE "emerg"
         /\ codes' = IF R.ok THEN Append(R.codes, [Code EXCEPT !.op = "exit"]) ELSE <<>>
         /\ e' = [Engine EXCEPT !.quote = TRUE]
    /\ UNCHANGED <<cf, given, rq, ans>>

Run ==
    /\ phase = "run" /\ e.ip # 0
    /\ \E x \in {Step(e, rq, codes[e.ip])} : e' = x[1] /\ rq' = x[2]
    /\ UNCHANGED <<phase, cf, given, codes, ans>>

(* The result of ngx_http_rewrite_handler.                                 *)
Return ==
    /\ phase = "run" /\ e.ip = 0
    /\ phase' = "done"
    /\ e' = [e EXCEPT !.status = IF @ < 400 \/ rq.err_status = 0 THEN @ ELSE rq.err_status]
    /\ UNCHANGED <<cf, given, codes, rq, ans>>

(* Later a module evaluates a value of the configuration.                  *)
Evaluate ==
    /\ phase = "done" /\ cf.final.kind # "none"
    /\ phase' = "final"
    /\ \E cv \in {compile_complex_value(Source(cf.final.tmpl), cf.final.zero, cf.final.prefix)} :
         IF ~cv.ok THEN ans' = [NoAnswer EXCEPT !.kind = "emerg"] /\ UNCHANGED rq
         ELSE IF cf.final.kind = "predicates"
         THEN \E p \in {test_predicates(rq, <<cv, cv>>)} :
                 ans' = [NoAnswer EXCEPT !.kind = "predicates", !.verdict = p[2]] /\ rq' = p[1]
         ELSE \E c \in {IF cf.final.kind = "run" /\ cv.lengths # <<>> THEN script_run(rq, cv)
                        ELSE complex_value(rq, cv)} :
                 /\ ans' = [NoAnswer EXCEPT !.kind = "value", !.text = c[2], !.room = c[3]]
                 /\ rq' = c[1]
    /\ UNCHANGED <<cf, given, codes, e>>

Next == Parse \/ Run \/ Return \/ Evaluate

Spec == Init /\ [][Next]_vars

-----------------------------------------------------------------------------
(* What the directives mean, without codes, buffers, lengths or a stack.   *)

(* The text of a value for meaning M; captures are escaped when esc.       *)
Meant(M, tmpl, esc) ==
    FlattenSeq([i \in DOMAIN tmpl |->
        LET it == tmpl[i]
        IN CASE it.k = "lit" -> it.t
             [] it.k \in {"var", "brace"} ->
                  (CASE it.x = "v" -> M.v [] it.x = "w" -> M.w [] it.x = "u" -> M.uri
                     [] it.x = "g" -> M.args [] it.x = "h" -> given.host)
             [] it.k = "cap" ->
                  LET n == IF it.x = "1" THEN 1 ELSE 2
                      t == IF n \in DOMAIN M.caps THEN M.caps[n] ELSE <<>>
                  IN IF esc /\ M.quoted THEN escape_uri(t) ELSE t
             [] it.k = "args" -> <<"?">>])

Valid(tmpl) ==
    \A i \in DOMAIN tmpl : /\ tmpl[i].k # "open"
                           /\ tmpl[i].k \in {"var", "brace"} => tmpl[i].x \in Names

RECURSIVE ValidBlock(_)
ValidBlock(dirs) ==
    \A i \in DOMAIN dirs :
       /\ Valid(dirs[i].tmpl)
       /\ dirs[i].d = "set" => dirs[i].x \in {"v", "w", "g"}
       /\ dirs[i].d = "if" => Valid(dirs[i].cond.tmpl) /\ ValidBlock(dirs[i].body)

Captures(re, t) ==
    LET rest == SubSeq(t, Len(re.pre) + 1, Len(t))
    IN CASE re.caps = 0 -> <<>> [] re.caps = 1 -> <<rest>>
         [] re.caps = 2 -> <<IF re.nested THEN rest ELSE <<Head(rest)>>, Tail(rest)>>

Matches(re, t) == IsPrefix(re.pre, t) /\ (re.caps = 2 => Len(t) > Len(re.pre))

MatchedBy(M, re, t) ==
    IF ~Matches(re, t) THEN [M EXCEPT !.caps = <<>>]
    ELSE [M EXCEPT !.caps = Captures(re, t), !.w = IF re.named THEN Captures(re, t)[1] ELSE @]

VarText(M, x) == Meant(M, <<[k |-> "var", x |-> x]>>, FALSE)

RewriteMeant(M, d) ==
    LET drop == d.tmpl # <<>> /\ Last(d.tmpl).k = "args"
        tmpl == IF drop THEN Front(d.tmpl) ELSE d.tmpl
        redirect == \/ d.flag \in {"redirect", "permanent"}
                    \/ tmpl # <<>> /\ tmpl[1].k = "lit" /\ tmpl[1].t[1] = "H"
        marks == {i \in DOMAIN tmpl : tmpl[i].k = "args"}
        mark == IF marks = {} THEN Len(tmpl) + 1 ELSE CHOOSE i \in marks : \A j \in marks : i <= j
        uri == Meant(M, SubSeq(tmpl, 1, mark - 1), FALSE)
        own == Meant(M, SubSeq(tmpl, mark + 1, Len(tmpl)), TRUE)
        old == IF drop \/ M.args = <<>> THEN <<>> ELSE M.args
        Joined(s, c, t) == IF t = <<>> THEN s ELSE s \o <<c>> \o t
    IN IF redirect
       THEN [M EXCEPT !.location = Joined(unescape_redirect(Meant(M, tmpl, TRUE)),
                                          IF marks # {} THEN "&" ELSE "?", old),
                      !.status = IF d.flag = "permanent" THEN 301 ELSE 302,
                      !.over = TRUE, !.changed = d.flag # "break", !.quote = FALSE]
       ELSE [M EXCEPT !.uri = uri,
                      !.args = IF marks # {} THEN Joined(own, "&", old) ELSE old,
                      !.status = IF uri = <<>> THEN 500 ELSE @,
                      !.over = uri = <<>> \/ d.flag # "none",
                      !.changed = d.flag # "break", !.quote = FALSE]

CondMeant(M, c) ==
    LET t == Meant(M, c.tmpl, M.quote)
        kinds == IF t \in DOMAIN Kinds THEN Kinds[t] ELSE {}
    IN CASE c.c = "var" -> VarText(M, c.x) \notin {<<>>, <<"0">>}
         [] c.c = "equal" -> VarText(M, c.x) = t
         [] c.c = "not_equal" -> VarText(M, c.x) # t
         [] c.c = "match" -> Matches(c.re, VarText(M, c.x))
         [] c.c = "no_match" -> ~Matches(c.re, VarText(M, c.x))
         [] c.c = "file" ->
              ("not" \in c.flags) # (CASE "f" \in c.flags -> "file" \in kinds
                                      [] "d" \in c.flags -> "dir" \in kinds
                                      [] "e" \in c.flags -> kinds # {}
                                      [] "x" \in c.flags -> "exec" \in kinds)

RECURSIVE Meaning(_, _)
Meaning(M, dirs) ==
    IF M.over \/ dirs = <<>> THEN M
    ELSE LET d == Head(dirs)
             Then(N) == Meaning(N, Tail(dirs))
         IN CASE d.d = "set" ->
                   LET t == Meant(M, d.tmpl, M.quote)
                   IN Then(CASE d.x = "v" -> [M EXCEPT !.v = t] [] d.x = "w" -> [M EXCEPT !.w = t]
                             [] d.x = "g" -> [M EXCEPT !.args = t])
              [] d.d = "rewrite" ->
                   Then(IF Matches(d.re, M.uri)
                        THEN RewriteMeant(MatchedBy(M, d.re, M.uri), d)
                        ELSE MatchedBy(M, d.re, M.uri))
              [] d.d = "return" ->
                   LET t == Meant(M, d.tmpl, FALSE)
                   IN [M EXCEPT !.over = TRUE,
                                !.status = IF d.status \in {200} \/ (d.status = 404 /\ d.tmpl # <<>>)
                                           THEN 0 ELSE d.status,
                                !.location = IF d.status = 302 THEN t ELSE @,
                                !.body = IF d.status # 302 THEN t ELSE @]
              [] d.d = "break" -> [M EXCEPT !.over = TRUE, !.changed = FALSE]
              [] d.d = "if" ->
                   LET N == IF d.cond.c \in {"match", "no_match"}
                            THEN MatchedBy(M, d.cond.re, VarText(M, d.cond.x)) ELSE M
                   IN Then(IF CondMeant(M, d.cond)
                           THEN Meaning([N EXCEPT !.in_if = @ \/ cf.named], d.body) ELSE N)

Start == [uri |-> given.uri, args |-> given.args, v |-> <<>>, w |-> <<>>, caps |-> <<>>,
          quoted |-> Arrived(given).quoted, quote |-> TRUE, status |-> DECLINED, over |-> FALSE,
          changed |-> FALSE, in_if |-> FALSE, location |-> <<>>, body |-> <<>>]

RunAsMeant(M) ==
    /\ e.sp = <<>>
    /\ <<rq.uri, rq.args, rq.captures, rq.location, rq.body>>
         = <<M.uri, M.args, M.caps, M.location, M.body>>
    /\ <<rq.uri_changed, rq.in_if>> = <<M.changed, M.in_if>>
    /\ <<DataOf(rq, "v"), DataOf(rq, "w")>> = <<M.v, M.w>>
    /\ e.status = IF M.status >= 400 /\ given.err # 0 THEN given.err ELSE M.status

AnswerAsMeant(t) ==
    LET has == \E i \in DOMAIN cf.final.tmpl : cf.final.tmpl[i].k # "lit"
        z == IF has /\ cf.final.zero THEN Append(t, "NUL") ELSE t
    IN IF ans.kind = "predicates"
       THEN ans.verdict = IF t \in {<<>>, <<"0">>} THEN "ok" ELSE "declined"
       ELSE ans.text = IF cf.final.prefix THEN full_name(z) ELSE z

(* Running the compiled codes does what the directives say: the same       *)
(* branches are taken and left, the same values are set, and the request   *)
(* goes on with the same URI, arguments, location and status; a value      *)
(* evaluated afterwards sees what they set.  The flag is_args outlives the *)
(* rewrite that set it; a request in which a later capture meets it        *)
(* (e.stale), or that has written over the end of a buffer, is left out.   *)
CodesMeanDirectives ==
    /\ phase = "emerg" => ~ValidBlock(cf.dirs)
    /\ phase \in {"done", "final"} /\ ~e.stale /\ ~e.spilt =>
         \E M \in {Meaning(Start, cf.dirs)} :
            IF phase = "done" THEN RunAsMeant(M)
            ELSE IF ~Valid(cf.final.tmpl) THEN ans.kind = "emerg"
            ELSE AnswerAsMeant(Meant(M, cf.final.tmpl, FALSE))

(* The length computed for a buffer is enough for what the value codes     *)
(* write into it, and a value that is set or tested fills it exactly; in   *)
(* all cases but two, in which the code computes too little.  is_args,     *)
(* left set by an earlier rewrite, makes the value codes escape a capture  *)
(* that the length codes, on an engine of their own, did not (e.stale).    *)
(* And the estimate that stands for the length codes when a replacement    *)
(* has no variables (e.guess) counts the escaping of a character once,     *)
(* though it is in both of two nested captures.                            *)
RoomSuffices ==
    /\ Len(e.out) > e.room => e.stale \/ (e.guess /\ rq.nested /\ rq.quoted)
    /\ \A i \in DOMAIN e.sp :
          e.sp[i].len >= 0 /\ phase = "run" /\ e.ip # 0 /\ ~e.stale
             /\ codes[e.ip].op \in {"set_var", "var_handler", "equal", "not_equal", "file"}
          => Len(e.out) = e.sp[i].len
    /\ ans.kind = "value" => Len(ans.text) <= ans.room
=============================================================================
