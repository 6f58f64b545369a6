----------------------------- MODULE HttpParse ------------------------------
(***************************************************************************)
(* The parsers of ngx_http_parse.c as functions of a character and the     *)
(* parser's state.  A character is a string of length one, or one of CR,   *)
(* LF and NUL; a parser's state is the part of ngx_http_request_t that it  *)
(* keeps between two calls, so that a call on a part of the text leaves    *)
(* what the next call needs.  A pointer is whatever the caller's p is.     *)
(***************************************************************************)
EXTENDS Integers, Sequences, SequencesExt, FiniteSetsExt, TLC

Null == <<-1, 0>>

Upper == <<"A", "B", "C", "D", "E", "F", "G", "H", "I", "J", "K", "L", "M", "N", "O", "P",
           "Q", "R", "S", "T", "U", "V", "W", "X", "Y", "Z">>

Lowers == <<"a", "b", "c", "d", "e", "f", "g", "h", "i", "j", "k", "l", "m", "n", "o", "p",
           "q", "r", "s", "t", "u", "v", "w", "x", "y", "z">>

Numerals == <<"0", "1", "2", "3", "4", "5", "6", "7", "8", "9">>

Capitals == ToSet(Upper)

Letters == Capitals \cup ToSet(Lowers)

Digits == ToSet(Numerals)

Lower(c) == IF c \in Capitals THEN Lowers[CHOOSE k \in 1..26 : Upper[k] = c] ELSE c

Number(c) == (CHOOSE k \in 1..10 : Numerals[k] = c) - 1

HexDigits == Digits \cup {Upper[k] : k \in 1..6} \cup {Lowers[k] : k \in 1..6}

HexValue(c) == IF c \in Digits THEN Number(c) ELSE 9 + CHOOSE k \in 1..6 : Lower(c) = Lowers[k]

(* The characters that end, split or change a URI; the rest is copied.     *)
Usual(c) == c \notin {"NUL", "LF", "CR", " ", "#", "%", "+", ".", "/", "?"}

----------------------------------------------------------------------------
(* ngx_http_parse_request_line                                             *)
LineStart == [st |-> "start", rc |-> "again", request_start |-> Null, request_end |-> Null,
              method_end |-> Null, schema_end |-> Null, host_start |-> Null,
              host_end |-> Null, port_end |-> Null, uri_start |-> Null, uri_end |-> Null,
              uri_ext |-> Null, args_start |-> Null, protocol |-> Null,
              complex |-> FALSE, quoted |-> FALSE, plus |-> FALSE, space |-> FALSE,
              major |-> 0, minor |-> 0, method |-> << >>]

Goto(r, st) == [r EXCEPT !.st = st]

Bad(r) == [r EXCEPT !.rc = "invalid"]

After(p) == <<p[1], p[2] + 1>>

(* The line ends here: CR with LF to follow, or LF.                        *)
Ends(r, c, p) ==
    IF c = "CR" THEN Goto(r, "almost_done")
    ELSE [r EXCEPT !.rc = "ok", !.request_end = IF @ = Null THEN p ELSE @]

MethodPart(r, c, p) ==
    CASE r.st = "start" ->
           IF c \in {"CR", "LF"} THEN [r EXCEPT !.request_start = p]
           ELSE IF c \in Capitals \cup {"_"}
           THEN [r EXCEPT !.request_start = p, !.st = "method", !.method = <<c>>]
           ELSE Bad(r)
      [] r.st = "method" ->
           IF c = " " THEN [r EXCEPT !.method_end = <<p[1], p[2] - 1>>, !.st = "spaces_before_uri"]
           ELSE IF c \in Capitals \cup {"_"} THEN [r EXCEPT !.method = Append(@, c)]
           ELSE Bad(r)
      [] r.st = "spaces_before_uri" ->
           IF c = "/" THEN [r EXCEPT !.uri_start = p, !.st = "after_slash_in_uri"]
           ELSE IF c \in Letters THEN Goto(r, "schema")
           ELSE IF c = " " THEN r
           ELSE Bad(r)

(* A URI of which only the host is given: the "/" of the schema stands for *)
(* the path.                                                               *)
NoPath(r) == [r EXCEPT !.uri_start = After(r.schema_end),
                       !.uri_end = After(After(r.schema_end)), !.st = "host_http_09"]

HostEnd(r, c, p) ==
    CASE c = ":" -> [r EXCEPT !.host_end = p, !.st = "port"]
      [] c = "/" -> [r EXCEPT !.host_end = p, !.uri_start = p, !.st = "after_slash_in_uri"]
      [] c = " " -> NoPath([r EXCEPT !.host_end = p])
      [] OTHER   -> Bad(r)

HostPart(r, c, p) ==
    CASE r.st = "schema" ->
           IF c \in Letters THEN r
           ELSE IF c = ":" THEN [r EXCEPT !.schema_end = p, !.st = "schema_slash"]
           ELSE Bad(r)
      [] r.st = "schema_slash" -> IF c = "/" THEN Goto(r, "schema_slash_slash") ELSE Bad(r)
      [] r.st = "schema_slash_slash" -> IF c = "/" THEN Goto(r, "host_start") ELSE Bad(r)
      [] r.st \in {"host_start", "host"} ->
           LET s == IF r.st = "host" THEN r
                    ELSE [r EXCEPT !.host_start = p, !.st = "host"]
           IN  IF r.st = "host_start" /\ c = "[" THEN Goto(s, "host_ip_literal")
               ELSE IF c \in Letters \cup Digits \cup {".", "-"} THEN s
               ELSE HostEnd(s, c, p)
      [] r.st = "host_end" -> HostEnd(r, c, p)
      [] r.st = "host_ip_literal" ->
           IF c = "]" THEN Goto(r, "host_end")
           ELSE IF c \in Letters \cup Digits
                         \cup {":", "-", ".", "_", "~", "!", "$", "&", "'", "(", ")", "*",
                               "+", ",", ";", "="}
           THEN r ELSE Bad(r)
      [] r.st = "port" ->
           IF c \in Digits THEN r
           ELSE IF c = "/"
           THEN [r EXCEPT !.port_end = p, !.uri_start = p, !.st = "after_slash_in_uri"]
           ELSE IF c = " " THEN NoPath([r EXCEPT !.port_end = p])
           ELSE Bad(r)

(* What the path's characters mean, after a slash and elsewhere.           *)
AfterSlash(r, c, p) ==
    CASE c \in {".", "/", "#"} -> [r EXCEPT !.complex = TRUE, !.st = "uri"]
      [] c = "%" -> [r EXCEPT !.quoted = TRUE, !.st = "uri"]
      [] c = "?" -> [r EXCEPT !.args_start = After(p), !.st = "uri"]
      [] c = "+" -> [r EXCEPT !.plus = TRUE]
      [] OTHER   -> Goto(r, "check_uri")

InPath(r, c, p) ==
    CASE c = "/" -> [r EXCEPT !.uri_ext = Null, !.st = "after_slash_in_uri"]
      [] c = "." -> [r EXCEPT !.uri_ext = After(p)]
      [] c = "%" -> [r EXCEPT !.quoted = TRUE, !.st = "uri"]
      [] c = "?" -> [r EXCEPT !.args_start = After(p), !.st = "uri"]
      [] c = "#" -> [r EXCEPT !.complex = TRUE, !.st = "uri"]
      [] c = "+" -> [r EXCEPT !.plus = TRUE]
      [] OTHER   -> r

UriPart(r, c, p) ==
    IF c \in {"CR", "LF"} THEN Ends([r EXCEPT !.uri_end = p, !.minor = 9], c, p)
    ELSE IF c = "NUL" THEN Bad(r)
    ELSE IF c = " "
    THEN [r EXCEPT !.uri_end = p, !.st = IF @ = "uri" THEN "http_09" ELSE "check_uri_http_09"]
    ELSE CASE r.st = "after_slash_in_uri" -> AfterSlash(r, c, p)
           [] r.st = "check_uri" -> InPath(r, c, p)
           [] r.st = "uri" -> IF c = "#" THEN [r EXCEPT !.complex = TRUE] ELSE r

(* After a space: the version, the end of the line, or, but for a URI that *)
(* has no path, the rest of a URI with a space in it.                      *)
AfterUri(r, c, p) ==
    CASE c = " " -> r
      [] c \in {"CR", "LF"} -> Ends([r EXCEPT !.minor = 9], c, p)
      [] c = "H" -> [r EXCEPT !.protocol = p, !.st = "http_H"]
      [] OTHER -> IF r.st = "host_http_09" THEN Bad(r)
                  ELSE UriPart([r EXCEPT !.space = TRUE,
                                   !.st = IF @ = "http_09" THEN "uri" ELSE "check_uri"], c, p)

VersionPart(r, c, p) ==
    CASE r.st = "http_H"    -> IF c = "T" THEN Goto(r, "http_HT") ELSE Bad(r)
      [] r.st = "http_HT"   -> IF c = "T" THEN Goto(r, "http_HTT") ELSE Bad(r)
      [] r.st = "http_HTT"  -> IF c = "P" THEN Goto(r, "http_HTTP") ELSE Bad(r)
      [] r.st = "http_HTTP" -> IF c = "/" THEN Goto(r, "first_major_digit") ELSE Bad(r)
      [] r.st = "first_major_digit" ->
           IF c \in Digits \ {"0"} THEN [r EXCEPT !.major = Number(c), !.st = "major_digit"]
           ELSE Bad(r)
      [] r.st = "major_digit" ->
           IF c = "." THEN Goto(r, "first_minor_digit")
           ELSE IF c \in Digits THEN [r EXCEPT !.major = @ * 10 + Number(c)] ELSE Bad(r)
      [] r.st = "first_minor_digit" ->
           IF c \in Digits THEN [r EXCEPT !.minor = Number(c), !.st = "minor_digit"]
           ELSE Bad(r)
      [] r.st = "minor_digit" ->
           IF c \in {"CR", "LF"} THEN Ends(r, c, p)
           ELSE IF c = " " THEN Goto(r, "spaces_after_digit")
           ELSE IF c \in Digits THEN [r EXCEPT !.minor = @ * 10 + Number(c)] ELSE Bad(r)
      [] r.st = "spaces_after_digit" ->
           IF c = " " THEN r ELSE IF c \in {"CR", "LF"} THEN Ends(r, c, p) ELSE Bad(r)
      [] r.st = "almost_done" ->
           IF c = "LF" THEN [r EXCEPT !.request_end = <<p[1], p[2] - 1>>, !.rc = "ok"]
           ELSE Bad(r)

LineChar(r, c, p) ==
    CASE r.st \in {"start", "method", "spaces_before_uri"} -> MethodPart(r, c, p)
      [] r.st \in {"after_slash_in_uri", "check_uri", "uri"} -> UriPart(r, c, p)
      [] r.st \in {"check_uri_http_09", "http_09", "host_http_09"} -> AfterUri(r, c, p)
      [] r.st \in {"http_H", "http_HT", "http_HTT", "http_HTTP", "first_major_digit",
                   "major_digit", "first_minor_digit", "minor_digit", "spaces_after_digit",
                   "almost_done"} -> VersionPart(r, c, p)
      [] OTHER -> HostPart(r, c, p)

(* The end of the line: HTTP/0.9 has no method but GET.                    *)
LineDone(r) ==
    IF r.rc = "ok" /\ r.major * 1000 + r.minor = 9 /\ r.method # <<"G", "E", "T">>
    THEN Bad(r) ELSE r

----------------------------------------------------------------------------
(* ngx_http_parse_complex_uri                                              *)
Chr(n) ==
    LET ascii == (0 :> "NUL") @@ (32 :> " ") @@ (35 :> "#") @@ (37 :> "%") @@ (43 :> "+")
                 @@ (46 :> ".") @@ (47 :> "/") @@ (63 :> "?") @@ (97 :> "a")
    IN  IF n \in DOMAIN ascii THEN ascii[n] ELSE "x"

Out(z, c) == [z EXCEPT !.out = Append(@, c), !.st = "usual"]

(* "/../": back over the last segment, to the slash before it.             *)
UpOne(z) ==
    LET slashes == {i \in 1..(Len(z.out) - 4) : z.out[i] = "/"}
    IN  IF slashes = {} THEN [z EXCEPT !.rc = "invalid"]
        ELSE [z EXCEPT !.out = SubSeq(z.out, 1, Max(slashes)), !.st = "slash"]

(* A character of the path in one of the four plain states.                *)
PlainChar(z, c, k, merge) ==
    CASE c = "%" -> [z EXCEPT !.qst = z.st, !.st = "quoted"]
      [] c = "?" -> [z EXCEPT !.args = k + 1, !.rc = "args"]
      [] c = "#" -> [z EXCEPT !.rc = "done"]
      [] c = "/" ->
          (CASE z.st = "usual"   -> [Out(z, c) EXCEPT !.ext = 0, !.st = "slash"]
             [] z.st = "slash"   -> IF merge THEN z ELSE [z EXCEPT !.out = Append(@, c)]
             [] z.st = "dot"     -> [z EXCEPT !.out = Front(@), !.st = "slash"]
             [] z.st = "dot_dot" -> UpOne(z))
      [] c = "." ->
          (CASE z.st = "usual"   -> [Out(z, c) EXCEPT !.ext = Len(z.out) + 1]
             [] z.st = "slash"   -> [Out(z, c) EXCEPT !.st = "dot"]
             [] z.st = "dot"     -> [Out(z, c) EXCEPT !.st = "dot_dot"]
             [] z.st = "dot_dot" -> Out(z, c))
      [] c = "+" -> [Out(z, c) EXCEPT !.plus = TRUE]
      [] OTHER -> Out(z, c)

(* The two digits of an escape; what it stands for is then a character of  *)
(* the state in which it was met, unless it is %, # or ?.                  *)
QuotedChar(z, c, k, merge) ==
    IF c \notin HexDigits THEN [z EXCEPT !.rc = "invalid"]
    ELSE IF z.st = "quoted"
    THEN [z EXCEPT !.quoted = TRUE, !.high = HexValue(c), !.st = "quoted_second"]
    ELSE LET d == Chr(16 * z.high + HexValue(c))
         IN  IF d \in {"%", "#", "?"} THEN Out(z, d)
             ELSE IF d = "NUL" THEN [z EXCEPT !.rc = "invalid"]
             ELSE PlainChar([z EXCEPT !.st = z.qst], d, k, merge)

(* text is the URI with its arguments; ext and args are offsets, 0 or the  *)
(* place after the dot or the question mark.                               *)
ComplexUri(text, merge) ==
    LET Start == [st |-> "usual", qst |-> "usual", high |-> 0, out |-> << >>, ext |-> 0,
                  args |-> 0, plus |-> FALSE, quoted |-> FALSE, rc |-> "again"]
        Char(z, k) ==
            IF z.rc # "again" THEN z
            ELSE IF z.st \in {"quoted", "quoted_second"} THEN QuotedChar(z, text[k], k, merge)
            ELSE PlainChar(z, text[k], k, merge)
        z    == FoldLeft(Char, Start, [k \in 1..Len(text) |-> k])
        hash == SelectInSubSeq(text, z.args, Len(text), LAMBDA c : c = "#")
    IN  [z EXCEPT !.rc = IF @ = "invalid" THEN @ ELSE "ok"]
        @@ [last |-> IF z.rc = "args" /\ hash > 0 THEN hash - 1 ELSE Len(text)]

----------------------------------------------------------------------------
(* ngx_http_parse_header_line.  hash is what was hashed, low the lowcase   *)
(* copy of the name, which wraps around at LowLen characters, and i the    *)
(* place of the next one.                                                  *)
HeaderStart == [st |-> "start", rc |-> "again", name_start |-> Null, name_end |-> Null,
                start |-> Null, end |-> Null, invalid |-> FALSE, hash |-> << >>,
                low |-> << >>, i |-> 0]

LowCase(c) == c \in Letters \cup Digits \cup {"-"}

Named(h, c, len) ==
    [h EXCEPT !.hash = Append(@, Lower(c)), !.i = (@ + 1) % len,
              !.low = [k \in 1..(IF h.i + 1 > Len(@) THEN h.i + 1 ELSE Len(@)) |->
                          IF k = h.i + 1 THEN Lower(c) ELSE @[k]]]

NoValue(h, p) == [h EXCEPT !.start = p, !.end = p]

LineEnds(h, c) == IF c = "CR" THEN Goto(h, "almost_done") ELSE [h EXCEPT !.rc = "ok"]

NameChar(h, c, p, len, underscores) ==
    CASE h.st = "start" ->
           LET g == [h EXCEPT !.name_start = p, !.invalid = FALSE]
           IN  IF c = "CR" THEN [g EXCEPT !.end = p, !.st = "header_almost_done"]
               ELSE IF c = "LF" THEN [g EXCEPT !.end = p, !.rc = "header_done"]
               ELSE IF LowCase(c)
               THEN Named([g EXCEPT !.st = "name", !.hash = << >>, !.i = 0], c, len)
               ELSE IF c = "NUL" THEN Bad(g)
               ELSE [g EXCEPT !.st = "name", !.invalid = TRUE]
      [] h.st = "name" ->
           IF LowCase(c) \/ (c = "_" /\ underscores) THEN Named(h, c, len)
           ELSE IF c = ":" THEN [h EXCEPT !.name_end = p, !.st = "space_before_value"]
           ELSE IF c \in {"CR", "LF"} THEN LineEnds(NoValue([h EXCEPT !.name_end = p], p), c)
           ELSE IF c = "NUL" THEN Bad(h)
           ELSE [h EXCEPT !.invalid = TRUE]

ValueChar(h, c, p) ==
    IF c = "NUL" /\ h.st \in {"space_before_value", "value", "space_after_value"} THEN Bad(h)
    ELSE CASE h.st = "space_before_value" ->
                IF c = " " THEN h
                ELSE IF c \in {"CR", "LF"} THEN LineEnds(NoValue(h, p), c)
                ELSE [h EXCEPT !.start = p, !.st = "value"]
           [] h.st = "value" ->
                IF c = " " THEN [h EXCEPT !.end = p, !.st = "space_after_value"]
                ELSE IF c \in {"CR", "LF"} THEN LineEnds([h EXCEPT !.end = p], c)
                ELSE h
           [] h.st = "space_after_value" ->
                IF c = " " THEN h
                ELSE IF c \in {"CR", "LF"} THEN LineEnds(h, c)
                ELSE Goto(h, "value")
           [] h.st = "almost_done" ->
                IF c = "LF" THEN [h EXCEPT !.rc = "ok"] ELSE IF c = "CR" THEN h ELSE Bad(h)
           [] h.st = "header_almost_done" ->
                IF c = "LF" THEN [h EXCEPT !.rc = "header_done"] ELSE Bad(h)

HeaderChar(h, c, p, len, underscores) ==
    IF h.st \in {"start", "name"} THEN NameChar(h, c, p, len, underscores)
    ELSE ValueChar(h, c, p)

----------------------------------------------------------------------------
=============================================================================
