----------------------------- MODULE PageParser -----------------------------
(***************************************************************************)
(* The page parser (page_parser/ec.cc): one or more processes that scan    *)
(* WebTable in batches, extract the keywords of every page and write one   *)
(* row of TagTable per keyword and then the page's row with its tags,      *)
(* while the crawler adds pages and versions of pages.                     *)
(*                                                                         *)
(* The keys of WebTable are ranks in byte order.  last_key is 0 for "" and *)
(* k for the key of rank k followed by a zero byte.  end_key (argv[2]) is  *)
(* absent: the loop condition, last_key != "" || last_key <= end_key,      *)
(* holds for every last_key.                                               *)
(***************************************************************************)
EXTENDS Integers, Sequences, FiniteSetsExt

CONSTANTS
  Parsers,     \* page parser processes
  MaxRow,      \* the ranks of WebTable keys are 1 .. MaxRow
  Tilde,       \* the rank of "~", the end of every scan
  Wanted,      \* the rows whose key contains "2014"
  Keywords,
  Docs,        \* contents of pages, up to the charset declaration
  KwsOf,       \* KwsOf[d]: pk::parse_keyword of a page with content d
  MaxTs,       \* bound: versions of a page
  MaxMarks,    \* most charset declarations in a page
  MergeWrite,  \* Table::Write keeps the cells the written record lacks
  Faults,      \* which of the failures below can happen
  MaxRuns      \* bound: number of times a parser is started

FaultKinds == {"scan", "tag_write", "row_write", "crash"}

Rows == 1 .. MaxRow
Stamps == 1 .. MaxTs
NoHtml == [doc |-> "none", marks |-> 0]
NoTag == "none"
Html == [doc : Docs, marks : 0 .. MaxMarks]
MaxKws == Max({Len(KwsOf[d]) : d \in Docs} \cup {0})
Record == [page : [Stamps -> Html \cup {NoHtml}],
           tag : [1 .. MaxKws -> Keywords \cup {NoTag}]]
Slices == UNION {[D -> Record] : D \in SUBSET Rows}
EmptyRecord == [page |-> [s \in Stamps |-> NoHtml], tag |-> [i \in 1 .. MaxKws |-> NoTag]]

ASSUME ParsersAssumption == IsFiniteSet(Parsers)
ASSUME TildeAssumption == MaxRow \in Nat \ {0} /\ Tilde \in 1 .. MaxRow + 1
ASSUME WantedAssumption == Wanted \subseteq Rows
ASSUME KwsOfAssumption == IsFiniteSet(Docs) /\ KwsOf \in [Docs -> Seq(Keywords)]
ASSUME NoneAssumption == NoHtml.doc \notin Docs /\ NoTag \notin Keywords
ASSUME SwitchAssumption == MergeWrite \in BOOLEAN /\ Faults \subseteq FaultKinds
ASSUME BoundsAssumption == MaxTs \in Nat /\ MaxRuns \in Nat /\ MaxMarks \in Nat

VARIABLES
  web,      \* web[k]: the row of rank k of WebTable
  tagTable, \* the rows of TagTable, key (kw, ts, nt) and column url
  clock,    \* gettimeofday, in ticks of one microsecond
  pc,       \* pc[p]: where parser p is
  lastKey,  \* lastKey[p]: last_key
  slice,    \* slice[p]: the rows of the slice not yet dealt with
  row,      \* row[p]: the row being dealt with
  kws,      \* kws[p]: its keywords
  i,        \* i[p]: the loop counter
  runs,     \* number of runs so far
  lastNt,   \* history, lastNt[p]: the last value p got from get_micros
  base,     \* history, base[p]: the rows the run has to visit
  visited   \* history, visited[p]: the rows the run has visited

vars == <<web, tagTable, clock, pc, lastKey, slice, row, kws, i, runs, lastNt, base, visited>>

HasPage(r) == \E s \in Stamps : r.page[s] # NoHtml
Present == {k \in Rows : web[k] # EmptyRecord}
Oldest(r) == Min({s \in Stamps : r.page[s] # NoHtml})
Below(k) == {j \in Present : k < j /\ j < Tilde}
-----------------------------------------------------------------------------
(* Table::Scan(lastKey, "~"): the rows of the range that fit the buffer.   *)
Batches(from) == {{j \in Below(from) : j <= m} : m \in Below(from)}

(* html.replace: the first charset declaration is taken out.               *)
Cleaned(h) == [h EXCEPT !.marks = IF @ > 0 THEN @ - 1 ELSE 0]

(* Mutants: the row is replaced by the written record; by its tags alone.  *)
StoredWhole(old, new) == new
StoredTags(old, new) == [EmptyRecord EXCEPT !.tag = new.tag]

(* Table::Write: the cells of the record replace those of the row.         *)
Stored(old, new) ==
  IF ~MergeWrite THEN new
  ELSE [page |-> [s \in Stamps |-> IF new.page[s] # NoHtml THEN new.page[s] ELSE old.page[s]],
        tag |-> [n \in 1 .. MaxKws |-> IF new.tag[n] # NoTag THEN new.tag[n] ELSE old.tag[n]]]

(* Mutant: the key is made without the counter.                            *)
SameKeyNoNt(x, y) == x.kw = y.kw /\ x.ts = y.ts

(* Two rows of TagTable with the key kws[i] "-" ts "-" nt are one row.     *)
SameKey(x, y) == x.kw = y.kw /\ x.ts = y.ts /\ x.nt = y.nt

(* The row of that key is replaced.  clash is history: the row stands in   *)
(* the place of one of the same microsecond that led to another page.      *)
WriteTagRow(r) ==
  LET hit == {x \in tagTable : SameKey(x, r)}
  IN  tagTable' = (tagTable \ hit) \cup
                  {[r EXCEPT !.clash = \E x \in hit : x.clash \/ (x.url # r.url /\ x.nt = r.nt)]}

Init ==
  /\ web = [k \in Rows |-> EmptyRecord]
  /\ tagTable = {} /\ clock = 0 /\ runs = 0
  /\ pc = [p \in Parsers |-> "idle"]
  /\ lastKey = [p \in Parsers |-> 0]
  /\ slice = [p \in Parsers |-> << >>]
  /\ row = [p \in Parsers |-> 1]
  /\ kws = [p \in Parsers |-> << >>]
  /\ i = [p \in Parsers |-> 1]
  /\ lastNt = [p \in Parsers |-> 0]
  /\ base = [p \in Parsers |-> {}]
  /\ visited = [p \in Parsers |-> {}]

Goto(p, l) == pc' = [pc EXCEPT ![p] = l]

(* The crawler stores a page, or a newer version of it.                    *)
Crawl(k) ==
  /\ \E s \in Stamps, h \in Html :
       /\ \A t \in Stamps : web[k].page[t] # NoHtml <=> t < s
       /\ web' = [web EXCEPT ![k].page[s] = h]
  /\ UNCHANGED <<tagTable, clock, pc, lastKey, slice, row, kws, i, runs, lastNt, base, visited>>

(* main: argv[1] is the key to start from, "" without it.  A scan from the *)
(* key of rank k + 1 is one from lastKey = k.                              *)
Start(p) ==
  /\ pc[p] = "idle"
  /\ runs < MaxRuns
  /\ runs' = runs + 1
  /\ \E k \in {0} \cup Rows :
       /\ lastKey' = [lastKey EXCEPT ![p] = k]
       /\ base' = [base EXCEPT ![p] = Below(k)]
  /\ visited' = [visited EXCEPT ![p] = {}]
  /\ Goto(p, "scan")
  /\ UNCHANGED <<web, tagTable, clock, slice, row, kws, i, lastNt>>

(* Mutant: an empty slice does not end the run.                            *)
ScanOn(p) ==
  /\ pc[p] = "scan"
  /\ \E b \in Batches(lastKey[p]) \cup {{}} :
       slice' = [slice EXCEPT ![p] = [k \in b |-> web[k]]]
  /\ Goto(p, "rows")
  /\ UNCHANGED <<web, tagTable, clock, lastKey, row, kws, i, runs, lastNt, base, visited>>

(* The scan; its result is ignored, and an empty slice ends the run.       *)
Scan(p) ==
  /\ pc[p] = "scan"
  /\ \/ \E b \in Batches(lastKey[p]) :
          /\ slice' = [slice EXCEPT ![p] = [k \in b |-> web[k]]]
          /\ Goto(p, "rows")
     \/ /\ Below(lastKey[p]) = {}
        /\ Goto(p, "done") /\ UNCHANGED slice
     \/ /\ "scan" \in Faults
        /\ Goto(p, "stopped") /\ UNCHANGED slice
  /\ UNCHANGED <<web, tagTable, clock, lastKey, row, kws, i, runs, lastNt, base, visited>>

Rest(p) == [k \in DOMAIN slice[p] \ {Min(DOMAIN slice[p])} |-> slice[p][k]]

(* Mutant: the row after the last one is passed over.                      *)
CursorSkip(k) == k + 1

(* last_key = row_key + '\0'.                                              *)
CursorPast(k) == k

(* The head of the loop over the slice, up to the first table call: rows   *)
(* that are not wanted or have no page are passed over; of the others the  *)
(* oldest version of the page is cleaned, in the record, and parsed.       *)
TakeRow(p) ==
  /\ pc[p] = "rows"
  /\ DOMAIN slice[p] # {}
  /\ LET k == Min(DOMAIN slice[p])
         r == slice[p][k]
     IN  /\ lastKey' = [lastKey EXCEPT ![p] = CursorPast(k)]
         /\ visited' = [visited EXCEPT ![p] = @ \cup {k}]
         /\ IF k \in Wanted /\ HasPage(r)
            THEN LET h == Cleaned(r.page[Oldest(r)])
                 IN  /\ slice' = [slice EXCEPT ![p][k].page[Oldest(r)] = h]
                     /\ kws' = [kws EXCEPT ![p] = KwsOf[h.doc]]
                     /\ row' = [row EXCEPT ![p] = k]
                     /\ i' = [i EXCEPT ![p] = 1]
                     /\ Goto(p, "tags")
            ELSE slice' = [slice EXCEPT ![p] = Rest(p)] /\ UNCHANGED <<kws, row, i, pc>>
  /\ UNCHANGED <<web, tagTable, clock, runs, lastNt, base>>

NextBatch(p) ==
  /\ pc[p] = "rows"
  /\ DOMAIN slice[p] = {}
  /\ Goto(p, "scan")
  /\ UNCHANGED <<web, tagTable, clock, lastKey, slice, row, kws, i, runs, lastNt, base, visited>>

(* One turn of the loop over the keywords: get_micros, the write of the    *)
(* row of TagTable, whose result is ignored, and the tag in the record.    *)
(* Two calls of get_micros by one process have a table write between them, *)
(* so they differ; those of two processes may be equal.                    *)
WriteTag(p) ==
  /\ pc[p] = "tags"
  /\ i[p] <= Len(kws[p])
  /\ \E nt \in {clock, clock + 1} :
       /\ nt > lastNt[p]
       /\ clock' = nt
       /\ lastNt' = [lastNt EXCEPT ![p] = nt]
       /\ \/ WriteTagRow([kw |-> kws[p][i[p]], ts |-> Oldest(slice[p][row[p]]), nt |-> nt,
                         url |-> row[p], clash |-> FALSE])
          \/ "tag_write" \in Faults /\ UNCHANGED tagTable
  /\ slice' = [slice EXCEPT ![p][row[p]].tag[i[p]] = kws[p][i[p]]]
  /\ i' = [i EXCEPT ![p] = @ + 1]
  /\ UNCHANGED <<web, pc, lastKey, row, kws, runs, base, visited>>

(* The write of the page's row, whose result is ignored.                   *)
WriteRow(p) ==
  /\ pc[p] = "tags"
  /\ i[p] > Len(kws[p])
  /\ \/ web' = [web EXCEPT ![row[p]] = Stored(@, slice[p][row[p]])]
     \/ "row_write" \in Faults /\ UNCHANGED web
  /\ slice' = [slice EXCEPT ![p] = Rest(p)]
  /\ kws' = [kws EXCEPT ![p] = << >>]
  /\ i' = [i EXCEPT ![p] = 1]
  /\ Goto(p, "rows")
  /\ UNCHANGED <<tagTable, clock, lastKey, row, runs, lastNt, base, visited>>

(* The process ends, and what it had in memory is gone.                    *)
End(p) ==
  /\ Goto(p, "idle")
  /\ lastKey' = [lastKey EXCEPT ![p] = 0]
  /\ slice' = [slice EXCEPT ![p] = << >>]
  /\ row' = [row EXCEPT ![p] = 1]
  /\ kws' = [kws EXCEPT ![p] = << >>]
  /\ i' = [i EXCEPT ![p] = 1]
  /\ base' = [base EXCEPT ![p] = {}]
  /\ visited' = [visited EXCEPT ![p] = {}]
  /\ UNCHANGED <<web, tagTable, clock, runs, lastNt>>

Exit(p) == pc[p] \in {"done", "stopped"} /\ End(p)
Crash(p) == "crash" \in Faults /\ pc[p] # "idle" /\ End(p)

Parse(p) ==
  Scan(p) \/ TakeRow(p) \/ NextBatch(p) \/ WriteTag(p) \/ WriteRow(p) \/ Exit(p)

Next ==
  \/ \E k \in Rows : Crawl(k)
  \/ \E p \in Parsers : Start(p) \/ Parse(p) \/ Crash(p)

Spec == Init /\ [][Next]_vars

(* A parser is a running process: it goes on until it exits.               *)
FairSpec == Spec /\ \A p \in Parsers : WF_vars(Parse(p))
-----------------------------------------------------------------------------
TypeOK ==
  /\ web \in [Rows -> Record]
  /\ \A x \in tagTable : /\ x.kw \in Keywords /\ x.ts \in Stamps
                         /\ x.nt \in 0 .. clock /\ x.url \in Rows
                         /\ x.clash \in BOOLEAN
  /\ clock \in Nat /\ runs \in 0 .. MaxRuns
  /\ pc \in [Parsers -> {"idle", "scan", "rows", "tags", "done", "stopped"}]
  /\ lastKey \in [Parsers -> 0 .. MaxRow]
  /\ slice \in [Parsers -> Slices]
  /\ row \in [Parsers -> Rows]
  /\ kws \in [Parsers -> Seq(Keywords)]
  /\ i \in [Parsers -> Nat \ {0}] /\ lastNt \in [Parsers -> 0 .. clock]
  /\ base \in [Parsers -> SUBSET Rows] /\ visited \in [Parsers -> SUBSET Rows]

(* A link the recommender gives out can be viewed: the url of every row of *)
(* TagTable is a row of WebTable with the version of the page the row is   *)
(* about, and that version has the row's keyword.                          *)
LinksResolve ==
  \A x \in tagTable :
    LET h == web[x.url].page[x.ts]
    IN  h # NoHtml /\ \E n \in DOMAIN KwsOf[h.doc] : KwsOf[h.doc][n] = x.kw

(* The tags of a page, which RecordActions counts, can be recommended: for *)
(* each there is a row of TagTable that leads to the page, whatever was    *)
(* interrupted, or two parsers wrote rows of that keyword with one version *)
(* in the same microsecond.  One parser never does.                        *)
TagsIndexed ==
  "tag_write" \notin Faults =>
    \A k \in Rows : \A n \in 1 .. MaxKws : web[k].tag[n] # NoTag =>
      \E x \in tagTable : /\ x.kw = web[k].tag[n]
                          /\ x.url = k \/ (x.clash /\ Cardinality(Parsers) > 1)

(* No version of a page the crawler stored is lost by the parser writing   *)
(* back the record it scanned, nor is its content changed: with a write    *)
(* that merges cells.                                                      *)
PagesKept ==
  [][MergeWrite => \A k \in Rows : \A s \in Stamps : web[k].page[s] # NoHtml =>
       web'[k].page[s] # NoHtml /\ web'[k].page[s].doc = web[k].page[s].doc]_vars

(* A run that comes to its end has visited every row that was there when   *)
(* it began, and if no write failed each such page has its keywords as     *)
(* tags.                                                                   *)
RunComplete ==
  \A p \in Parsers : pc[p] = "done" =>
    /\ base[p] \subseteq visited[p]
    /\ "row_write" \notin Faults => \A k \in base[p] \cap Wanted :
         LET d == web[k].page[Oldest(web[k])].doc
         IN  \A n \in DOMAIN KwsOf[d] : web[k].tag[n] = KwsOf[d][n]

(* Every run ends, the crawler working or not.                             *)
RunsEnd == \A p \in Parsers : pc[p] # "idle" ~> pc[p] = "idle"
=============================================================================
