-------------------------- MODULE PageParserProofs --------------------------
(***************************************************************************)
(* Proofs about PageParser, for any number of parsers, pages, versions,    *)
(* keywords and runs, both meanings of Table::Write and every set of       *)
(* failures.                                                               *)
(***************************************************************************)
EXTENDS PageParser, WellFoundedInduction, TLAPS

(* The version h of a page is still the version g it was copied from.      *)
Agree(h, g) == g # NoHtml => h # NoHtml /\ h.doc = g.doc

(* A page that has a version has its first one.                            *)
FromFirst(r) == HasPage(r) => r.page[1] # NoHtml

(* The record r that a parser holds of row k is not ahead of the row; when *)
(* a write replaces the whole row, at least its first version is not.      *)
Held(k, r) == \A s \in Stamps : s = 1 \/ MergeWrite => Agree(web[k].page[s], r.page[s])

(* A parser that writes tags does so for the first row of its slice, with  *)
(* the keywords of the first version of the page.                          *)
Writing(p) ==
  pc[p] = "tags" =>
    /\ row[p] \in DOMAIN slice[p]
    /\ \A j \in DOMAIN slice[p] : row[p] <= j
    /\ HasPage(slice[p][row[p]])
    /\ kws[p] = KwsOf[slice[p][row[p]].page[1].doc]

(* The inductive form of LinksResolve and PagesKept.                       *)
PagesInv ==
  /\ TypeOK
  /\ \A k \in Rows : FromFirst(web[k])
  /\ \A p \in Parsers : \A k \in DOMAIN slice[p] :
       FromFirst(slice[p][k]) /\ Held(k, slice[p][k])
  /\ \A p \in Parsers : Writing(p)
  /\ \A x \in tagTable : x.ts = 1
  /\ LinksResolve
-----------------------------------------------------------------------------
(* A set of numbers that is not empty has a least one.                     *)
LEMMA LeastNat ==
  ASSUME NEW T \in SUBSET Nat, T # {}
  PROVE  \E x \in T : \A y \in T : x <= y
<1> DEFINE R == OpToRel(<, Nat)
<1>1. \A x, y \in Nat : x < y => <<x, y>> \in R
  BY DEF OpToRel
<1>2. IsWellFoundedOn(R, Nat)
  BY Zenon, NatLessThanWellFounded
<1> HIDE DEF R
<1>3. PICK x \in T : \A y \in T : ~ (<<y, x>> \in R)
  BY Zenon, <1>2, WFMin
<1>4. ASSUME NEW y \in T
      PROVE  x <= y
  <2>1. x \in Nat /\ y \in Nat
    OBVIOUS
  <2>2. ~ (y < x)
    BY Zenon, <1>1, <1>3, <2>1
  <2> QED
    BY <2>1, <2>2
<1> QED
  BY <1>4

(* The loop over a slice and the loop over the versions of a page begin    *)
(* with the smallest key.                                                  *)
LEMMA MinFacts ==
  ASSUME NEW D \in SUBSET Nat, D # {}
  PROVE  Min(D) \in D /\ \A y \in D : Min(D) <= y
<1>1. \E x \in D : \A y \in D : x <= y
  BY LeastNat
<1> QED
  BY Zenon, <1>1 DEF Min

(* A stored version is not the absence of one, and cleaning it changes     *)
(* neither that nor its content.                                           *)
LEMMA HtmlFacts ==
  ASSUME NEW h \in Html
  PROVE  /\ h # NoHtml /\ h.doc \in Docs
         /\ Cleaned(h) \in Html /\ Cleaned(h).doc = h.doc
<1>1. h.doc \in Docs /\ h.marks \in 0 .. MaxMarks
  BY DEF Html
<1>2. h # NoHtml
  BY <1>1, NoneAssumption DEF NoHtml
<1>3. Cleaned(h) = [doc |-> h.doc, marks |-> IF h.marks > 0 THEN h.marks - 1 ELSE 0]
  BY DEF Cleaned, Html
<1>4. (IF h.marks > 0 THEN h.marks - 1 ELSE 0) \in 0 .. MaxMarks
  BY <1>1, BoundsAssumption
<1> QED
  BY <1>1, <1>2, <1>3, <1>4 DEF Html

(* The parts of a record.                                                  *)
LEMMA RecordFacts ==
  ASSUME NEW r \in Record
  PROVE  /\ r = [page |-> r.page, tag |-> r.tag]
         /\ r.page \in [Stamps -> Html \cup {NoHtml}]
         /\ r.tag \in [1 .. MaxKws -> Keywords \cup {NoTag}]
BY DEF Record

(* The oldest version of a page that has its first one is the first.       *)
LEMMA OldestFirst ==
  ASSUME NEW r \in Record, HasPage(r), FromFirst(r)
  PROVE  Oldest(r) = 1 /\ 1 \in Stamps /\ r.page[1] \in Html
<1>1. 1 \in Stamps /\ r.page[1] # NoHtml
  BY BoundsAssumption DEF HasPage, FromFirst, Stamps
<1> DEFINE T == {s \in Stamps : r.page[s] # NoHtml}
<1>2. 1 \in T /\ T \in SUBSET Nat
  BY <1>1 DEF Stamps
<1>3. Min(T) \in T /\ Min(T) <= 1
  BY <1>2, MinFacts
<1>4. Min(T) \in 1 .. MaxTs
  BY <1>3 DEF Stamps
<1>5. Min(T) = 1
  <2> HIDE DEF T
  <2> QED
    BY <1>3, <1>4, BoundsAssumption
<1> QED
  BY <1>1, <1>5, RecordFacts DEF Oldest

(* A slice is a function from keys to records.                             *)
LEMMA SliceFacts ==
  ASSUME NEW f \in Slices
  PROVE  DOMAIN f \subseteq Rows /\ f \in [DOMAIN f -> Record]
BY DEF Slices

(* Where a parser is, and what it has besides its slice.                   *)
LocalsOK ==
  /\ clock \in Nat /\ runs \in 0 .. MaxRuns
  /\ pc \in [Parsers -> {"idle", "scan", "rows", "tags", "done", "stopped"}]
  /\ lastKey \in [Parsers -> 0 .. MaxRow]
  /\ row \in [Parsers -> Rows]
  /\ kws \in [Parsers -> Seq(Keywords)]
  /\ i \in [Parsers -> Nat \ {0}] /\ lastNt \in [Parsers -> 0 .. clock]
  /\ base \in [Parsers -> SUBSET Rows] /\ visited \in [Parsers -> SUBSET Rows]

(* The rows of TagTable, each about the first version of a page.           *)
RowsOK ==
  \A x \in tagTable : /\ x.kw \in Keywords /\ x.ts \in Stamps
                      /\ x.nt \in 0 .. clock /\ x.url \in Rows
                      /\ x.clash \in BOOLEAN /\ x.ts = 1

(* The parts of PagesInv that most steps need.                             *)
LEMMA PagesFacts ==
  ASSUME PagesInv
  PROVE  LocalsOK /\ RowsOK /\ web \in [Rows -> Record] /\ slice \in [Parsers -> Slices]
BY DEF PagesInv, TypeOK, LocalsOK, RowsOK

(* And every such function is a slice.                                     *)
LEMMA SliceIntro ==
  ASSUME NEW D \in SUBSET Rows, NEW f \in [D -> Record]
  PROVE  f \in Slices
BY DEF Slices
-----------------------------------------------------------------------------
(* A row of WebTable after a step is a record with its first version, and  *)
(* it keeps the versions that were there: all when a write merges cells,   *)
(* the first when it replaces the row.                                     *)
KeepsRow(k) ==
  /\ web'[k] \in Record
  /\ FromFirst(web'[k])
  /\ \A s \in Stamps : s = 1 \/ MergeWrite => Agree(web'[k].page[s], web[k].page[s])

(* The crawler only adds versions.                                         *)
LEMMA CrawlKeeps ==
  ASSUME PagesInv, NEW c \in Rows, Crawl(c), NEW k \in Rows
  PROVE  KeepsRow(k)
<1>t. web \in [Rows -> Record] /\ FromFirst(web[k])
  BY DEF PagesInv, TypeOK
<1>1. PICK s \in Stamps, h \in Html :
        /\ \A t \in Stamps : web[c].page[t] # NoHtml <=> t < s
        /\ web' = [web EXCEPT ![c].page[s] = h]
  BY Zenon DEF Crawl
<1>2. CASE k # c
  BY <1>1, <1>2, <1>t DEF KeepsRow, Agree
<1>3. CASE k = c
  <2> DEFINE r == web[k]
             q == web'[k]
  <2>1. r \in Record /\ q = [r EXCEPT !.page = [@ EXCEPT ![s] = h]]
    BY <1>1, <1>3, <1>t
  <2>2. /\ r = [page |-> r.page, tag |-> r.tag]
        /\ r.page \in [Stamps -> Html \cup {NoHtml}]
        /\ r.tag \in [1 .. MaxKws -> Keywords \cup {NoTag}]
    BY <2>1, RecordFacts
  <2>3. \A t \in Stamps : r.page[t] # NoHtml <=> t < s
    BY <1>1, <1>3
  <2> HIDE DEF r, q
  <2>4. q.page = [r.page EXCEPT ![s] = h] /\ q.tag = r.tag /\ q = [page |-> q.page, tag |-> q.tag]
    BY <2>1, <2>2
  <2>5. q \in Record
    BY <2>2, <2>4 DEF Record
  <2>6. /\ q.page[s] = h /\ r.page[s] = NoHtml
        /\ \A t \in Stamps : t # s => q.page[t] = r.page[t]
    <3>1. s \in Int
      BY BoundsAssumption DEF Stamps
    <3> QED
      BY <2>2, <2>3, <2>4, <3>1
  <2>7. h # NoHtml
    BY HtmlFacts
  <2>8. \A t \in Stamps : Agree(q.page[t], r.page[t])
    BY <2>6 DEF Agree
  <2>9. 1 \in Stamps /\ (s = 1 \/ 1 < s)
    BY BoundsAssumption DEF Stamps
  <2>10. q.page[1] # NoHtml
    BY <2>3, <2>6, <2>7, <2>9
  <2> QED
    BY <2>5, <2>8, <2>10 DEF KeepsRow, FromFirst, r, q
<1> QED
  BY <1>2, <1>3

(* Table::Write of a record that is not ahead of the row.                  *)
LEMMA StoredFacts ==
  ASSUME NEW r \in Record, NEW q \in Record, FromFirst(r), FromFirst(q), HasPage(q),
         \A s \in Stamps : s = 1 \/ MergeWrite => Agree(r.page[s], q.page[s])
  PROVE  /\ Stored(r, q) \in Record
         /\ FromFirst(Stored(r, q))
         /\ \A s \in Stamps : s = 1 \/ MergeWrite => Agree(Stored(r, q).page[s], r.page[s])
         /\ \A n \in 1 .. MaxKws : Stored(r, q).tag[n] \in {r.tag[n], q.tag[n]}
<1>1. /\ r.page \in [Stamps -> Html \cup {NoHtml}]
      /\ r.tag \in [1 .. MaxKws -> Keywords \cup {NoTag}]
      /\ q.page \in [Stamps -> Html \cup {NoHtml}]
      /\ q.tag \in [1 .. MaxKws -> Keywords \cup {NoTag}]
  BY RecordFacts
<1>2. 1 \in Stamps /\ q.page[1] # NoHtml
  BY Zenon, OldestFirst, HtmlFacts
<1>3. CASE ~MergeWrite
  <2>1. Stored(r, q) = q
    BY <1>3 DEF Stored
  <2>2. Agree(q.page[1], r.page[1])
    BY <1>2 DEF Agree
  <2> QED
    BY <1>3, <2>1, <2>2
<1>4. CASE MergeWrite
  <2> DEFINE z == Stored(r, q)
  <2>1. z = [page |-> [s \in Stamps |-> IF q.page[s] # NoHtml THEN q.page[s] ELSE r.page[s]],
             tag |-> [n \in 1 .. MaxKws |-> IF q.tag[n] # NoTag THEN q.tag[n] ELSE r.tag[n]]]
    BY <1>4 DEF Stored
  <2> HIDE DEF z
  <2>2. /\ z.page = [s \in Stamps |-> IF q.page[s] # NoHtml THEN q.page[s] ELSE r.page[s]]
        /\ z.tag = [n \in 1 .. MaxKws |-> IF q.tag[n] # NoTag THEN q.tag[n] ELSE r.tag[n]]
    BY <2>1
  <2>3. /\ z.page \in [Stamps -> Html \cup {NoHtml}]
        /\ z.tag \in [1 .. MaxKws -> Keywords \cup {NoTag}]
    <3>1. \A s \in Stamps : (IF q.page[s] # NoHtml THEN q.page[s] ELSE r.page[s])
                               \in Html \cup {NoHtml}
      BY <1>1
    <3>2. \A n \in 1 .. MaxKws : (IF q.tag[n] # NoTag THEN q.tag[n] ELSE r.tag[n])
                                   \in Keywords \cup {NoTag}
      BY Zenon, <1>1
    <3> QED
      BY <2>2, <3>1, <3>2
  <2>4. z \in Record
    BY <2>1, <2>2, <2>3 DEF Record
  <2>5. \A s \in Stamps : Agree(z.page[s], r.page[s])
    BY <1>4, <2>2 DEF Agree
  <2>6. z.page[1] # NoHtml
    BY <1>2, <2>2
  <2>7. \A n \in 1 .. MaxKws : z.tag[n] \in {r.tag[n], q.tag[n]}
    BY <2>2
  <2> QED
    BY <2>4, <2>5, <2>6, <2>7 DEF FromFirst, z
<1> QED
  BY <1>3, <1>4

(* Writing the scanned record back loses nothing.                          *)
LEMMA WriteRowKeeps ==
  ASSUME PagesInv, NEW p \in Parsers, WriteRow(p), NEW k \in Rows
  PROVE  KeepsRow(k)
<1>t. web \in [Rows -> Record] /\ FromFirst(web[k]) /\ slice[p] \in Slices
  BY DEF PagesInv, TypeOK
<1>1. CASE web' = web
  BY <1>1, <1>t DEF KeepsRow, Agree
<1>2. CASE web' = [web EXCEPT ![row[p]] = Stored(@, slice[p][row[p]])]
  <2>1. CASE k # row[p]
    BY <1>2, <2>1, <1>t DEF KeepsRow, Agree
  <2>2. CASE k = row[p]
    <3> DEFINE q == slice[p][k]
    <3>1. k \in DOMAIN slice[p] /\ HasPage(q) /\ FromFirst(q) /\ Held(k, q)
      BY Zenon, <2>2 DEF PagesInv, Writing, WriteRow
    <3>2. q \in Record
      BY <3>1, <1>t, SliceFacts
    <3>3. web'[k] = Stored(web[k], q)
      BY <1>2, <2>2, <1>t
    <3>4. \A s \in Stamps : s = 1 \/ MergeWrite => Agree(web[k].page[s], q.page[s])
      BY <3>1 DEF Held
    <3>5. web[k] \in Record
      BY <1>t
    <3> HIDE DEF q
    <3> QED
      BY <1>t, <3>1, <3>2, <3>3, <3>4, <3>5, StoredFacts DEF KeepsRow
  <2> QED
    BY <2>1, <2>2
<1> QED
  BY <1>1, <1>2 DEF WriteRow

(* No step loses a version of a page.                                      *)
LEMMA StepKeeps ==
  ASSUME PagesInv, [Next]_vars, NEW k \in Rows
  PROVE  KeepsRow(k)
<1>1. UNCHANGED web => KeepsRow(k)
  BY DEF PagesInv, TypeOK, KeepsRow, Agree
<1>2. \A c \in Rows : Crawl(c) => KeepsRow(k)
  BY CrawlKeeps
<1>3. \A p \in Parsers : WriteRow(p) => KeepsRow(k)
  BY WriteRowKeeps
<1>4. \A p \in Parsers : Start(p) \/ Scan(p) \/ TakeRow(p) \/ NextBatch(p) \/ WriteTag(p)
                           \/ Exit(p) \/ Crash(p) => UNCHANGED web
  BY Zenon DEF Start, Scan, TakeRow, NextBatch, WriteTag, Exit, Crash, End
<1>5. UNCHANGED vars => UNCHANGED web
  BY DEF vars
<1> QED
  BY <1>1, <1>2, <1>3, <1>4, <1>5 DEF Next, Parse
-----------------------------------------------------------------------------
(* The record r has the versions of the record q, with the same content.   *)
SamePages(r, q) ==
  \A s \in Stamps : Agree(r.page[s], q.page[s]) /\ Agree(q.page[s], r.page[s])

(* The slice t of parser p, after a step of p, has records of its slice    *)
(* before, of the same content, or rows of the table.                      *)
NewSlice(p, t) ==
  /\ t \in Slices
  /\ slice' = [slice EXCEPT ![p] = t]
  /\ \A k \in DOMAIN t : \/ t[k] = web[k] /\ k \in Present
                         \/ k \in DOMAIN slice[p] /\ SamePages(t[k], slice[p][k])

(* What the loop over the slice goes on with.                              *)
LEMMA RestFacts ==
  ASSUME slice \in [Parsers -> Slices], NEW p \in Parsers
  PROVE  /\ Rest(p) \in Slices
         /\ DOMAIN Rest(p) \subseteq DOMAIN slice[p]
         /\ \A k \in DOMAIN Rest(p) : Rest(p)[k] = slice[p][k]
<1> DEFINE D == DOMAIN slice[p] \ {Min(DOMAIN slice[p])}
<1>1. DOMAIN slice[p] \subseteq Rows /\ slice[p] \in [DOMAIN slice[p] -> Record]
  BY SliceFacts
<1>2. Rest(p) = [k \in D |-> slice[p][k]] /\ D \in SUBSET Rows
  BY <1>1 DEF Rest
<1> HIDE DEF D
<1>3. Rest(p) \in [D -> Record]
  <2>1. \A k \in D : slice[p][k] \in Record
    BY <1>1 DEF D
  <2> QED
    BY <1>2, <2>1
<1>4. Rest(p) \in Slices
  BY <1>2, <1>3, SliceIntro
<1> QED
  BY <1>2, <1>4 DEF D

(* A slice that is the same, or empty, or shorter.                         *)
LEMMA PlainSlices ==
  ASSUME slice \in [Parsers -> Slices], NEW p \in Parsers,
         \/ slice' = slice
         \/ slice' = [slice EXCEPT ![p] = << >>]
         \/ slice' = [slice EXCEPT ![p] = Rest(p)]
  PROVE  \E t : NewSlice(p, t)
<1>1. CASE slice' = slice
  <2>1. NewSlice(p, slice[p])
    BY <1>1 DEF NewSlice, SamePages, Agree
  <2> QED
    BY <2>1
<1>2. CASE slice' = [slice EXCEPT ![p] = << >>]
  <2>1. << >> \in [{} -> Record] /\ DOMAIN << >> = {}
    OBVIOUS
  <2>2. << >> \in Slices
    BY Zenon, <2>1, SliceIntro
  <2>3. NewSlice(p, << >>)
    BY <1>2, <2>1, <2>2 DEF NewSlice
  <2> QED
    BY <2>3
<1>3. CASE slice' = [slice EXCEPT ![p] = Rest(p)]
  <2>1. NewSlice(p, Rest(p))
    BY <1>3, RestFacts DEF NewSlice, SamePages, Agree
  <2> QED
    BY <2>1
<1> QED
  BY <1>1, <1>2, <1>3

(* A scan brings rows of the table.                                        *)
LEMMA ScannedSlice ==
  ASSUME web \in [Rows -> Record], slice \in [Parsers -> Slices], NEW p \in Parsers,
         NEW b \in SUBSET Present, slice' = [slice EXCEPT ![p] = [k \in b |-> web[k]]]
  PROVE  NewSlice(p, [k \in b |-> web[k]])
<1> DEFINE t == [k \in b |-> web[k]]
<1>1. t \in [b -> Record] /\ \A k \in DOMAIN t : t[k] = web[k] /\ k \in Present
  BY DEF Present
<1>2. t \in Slices
  BY <1>1, SliceIntro DEF Present
<1> QED
  BY <1>1, <1>2 DEF NewSlice

(* Taking a row cleans its oldest version and leaves the others.           *)
LEMMA TakenSlice ==
  ASSUME PagesInv, NEW p \in Parsers, NEW k \in DOMAIN slice[p],
         HasPage(slice[p][k]), NEW t,
         t = [slice[p] EXCEPT ![k].page[Oldest(slice[p][k])] =
                Cleaned(slice[p][k].page[Oldest(slice[p][k])])]
  PROVE  /\ t \in Slices /\ DOMAIN t = DOMAIN slice[p]
         /\ \A j \in DOMAIN t : SamePages(t[j], slice[p][j]) /\ t[j].tag = slice[p][j].tag
         /\ HasPage(t[k])
         /\ Oldest(slice[p][k]) = 1 /\ slice[p][k].page[1] \in Html
         /\ t[k].page[1] = Cleaned(slice[p][k].page[1])
<1> DEFINE r == slice[p][k]
           h == Cleaned(r.page[1])
           f == slice[p]
<1>1. f \in Slices /\ FromFirst(r)
  BY DEF PagesInv, TypeOK
<1>2. f \in [DOMAIN f -> Record] /\ DOMAIN f \in SUBSET Rows
  BY <1>1, SliceFacts
<1>3. Oldest(r) = 1 /\ 1 \in Stamps /\ r.page[1] \in Html
  BY <1>1, <1>2, OldestFirst
<1>4. h \in Html /\ h.doc = r.page[1].doc /\ h # NoHtml /\ r.page[1] # NoHtml
  BY <1>3, HtmlFacts
<1>5. /\ r = [page |-> r.page, tag |-> r.tag]
      /\ r.page \in [Stamps -> Html \cup {NoHtml}]
      /\ r.tag \in [1 .. MaxKws -> Keywords \cup {NoTag}]
  BY <1>2, RecordFacts
<1> DEFINE z == [r EXCEPT !.page = [@ EXCEPT ![1] = h]]
<1>6. t = [f EXCEPT ![k] = z]
  BY <1>3
<1> HIDE DEF h
<1>7. /\ z.page = [r.page EXCEPT ![1] = h] /\ z.tag = r.tag
      /\ z = [page |-> z.page, tag |-> z.tag]
  BY <1>5
<1> HIDE DEF z, r
<1>8. z.page \in [Stamps -> Html \cup {NoHtml}]
  BY Zenon, <1>4, <1>5, <1>7
<1>9. z \in Record
  BY <1>5, <1>7, <1>8 DEF Record
<1>10. SamePages(z, r) /\ z.page[1] = h
  BY <1>3, <1>4, <1>5, <1>7 DEF SamePages, Agree
<1>11. HasPage(z)
  BY <1>3, <1>4, <1>10 DEF HasPage
<1> HIDE DEF f
<1>12. t \in [DOMAIN f -> Record] /\ k \in DOMAIN f
  BY <1>2, <1>6, <1>9 DEF f
<1>13. t \in Slices
  BY <1>2, <1>12, SliceIntro
<1>14. t[k] = z /\ \A j \in DOMAIN f : j # k => t[j] = f[j]
  BY <1>6, <1>12
<1>15. \A j \in DOMAIN t : SamePages(t[j], f[j]) /\ t[j].tag = f[j].tag
  <2>1. f[k] = r /\ DOMAIN t = DOMAIN f
    BY <1>12 DEF r, f
  <2>2. \A q : SamePages(q, q)
    BY DEF SamePages, Agree
  <2> TAKE j \in DOMAIN t
  <2>3. CASE j = k
    BY Zenon, <1>7, <1>10, <1>14, <2>1, <2>3
  <2>4. CASE j # k
    BY <1>14, <2>1, <2>2, <2>4
  <2> QED
    BY <2>3, <2>4
<1> QED
  BY Zenon, <1>3, <1>10, <1>11, <1>12, <1>13, <1>14, <1>15 DEF f, r, h

(* The slice t is f with the n-th tag of row k set to w.                   *)
IsTagged(t, f, k, n, w) ==
  \A j \in DOMAIN t :
    /\ t[j].page = f[j].page
    /\ \A m \in 1 .. MaxKws :
         \/ t[j].tag[m] = f[j].tag[m] /\ ~ (j = k /\ m = n)
         \/ t[j].tag[m] = w /\ j = k /\ m = n

(* Adding a tag to the record of a row leaves the versions.                *)
LEMMA TaggedSlice ==
  ASSUME PagesInv, NEW p \in Parsers, NEW k \in DOMAIN slice[p],
         NEW w \in Keywords, NEW n \in Nat, NEW t,
         t = [slice[p] EXCEPT ![k].tag[n] = w]
  PROVE  /\ t \in Slices /\ DOMAIN t = DOMAIN slice[p]
         /\ IsTagged(t, slice[p], k, n, w)
<1> DEFINE r == slice[p][k]
           f == slice[p]
           z == [r EXCEPT !.tag = [@ EXCEPT ![n] = w]]
<1>1. f \in Slices
  BY DEF PagesInv, TypeOK
<1>2. f \in [DOMAIN f -> Record] /\ DOMAIN f \in SUBSET Rows
  BY <1>1, SliceFacts
<1>3. /\ r = [page |-> r.page, tag |-> r.tag]
      /\ r.page \in [Stamps -> Html \cup {NoHtml}]
      /\ r.tag \in [1 .. MaxKws -> Keywords \cup {NoTag}]
  BY <1>2, RecordFacts
<1>4. t = [f EXCEPT ![k] = z]
  OBVIOUS
<1>5. /\ z.page = r.page /\ z.tag = [r.tag EXCEPT ![n] = w]
      /\ z = [page |-> z.page, tag |-> z.tag]
  BY <1>3
<1> HIDE DEF z, r
<1>6. /\ z.tag \in [1 .. MaxKws -> Keywords \cup {NoTag}]
      /\ \A m \in 1 .. MaxKws : z.tag[m] = IF m = n THEN w ELSE r.tag[m]
  BY Zenon, <1>3, <1>5
<1>7. z \in Record
  BY Zenon, <1>3, <1>5, <1>6 DEF Record
<1> HIDE DEF f
<1>8. t \in [DOMAIN f -> Record] /\ k \in DOMAIN f
  BY <1>2, <1>4, <1>7 DEF f
<1>9. t \in Slices
  BY <1>2, <1>8, SliceIntro
<1>10. t[k] = z /\ f[k] = r /\ \A j \in DOMAIN f : j # k => t[j] = f[j]
  BY <1>4, <1>8 DEF r, f
<1> QED
  BY <1>5, <1>6, <1>8, <1>9, <1>10 DEF f, IsTagged

(* A batch is a set of rows after the cursor.                              *)
LEMMA BatchFacts ==
  ASSUME NEW n, NEW b \in Batches(n)
  PROVE  b \in SUBSET Present
BY DEF Batches, Below, Present

(* Every step of a parser leaves it with such a slice.                     *)
LEMMA ParserSlice ==
  ASSUME PagesInv, NEW p \in Parsers, Start(p) \/ Parse(p) \/ Crash(p)
  PROVE  \E t : NewSlice(p, t)
<1>t. web \in [Rows -> Record] /\ slice \in [Parsers -> Slices] /\ kws \in [Parsers -> Seq(Keywords)]
      /\ i \in [Parsers -> Nat \ {0}]
  BY DEF PagesInv, TypeOK
<1>1. CASE Start(p) \/ NextBatch(p)
  BY <1>1, <1>t, PlainSlices DEF Start, NextBatch
<1>2. CASE Exit(p) \/ Crash(p)
  BY <1>2, <1>t, PlainSlices DEF Exit, Crash, End
<1>3. CASE Scan(p)
  <2>1. CASE UNCHANGED slice
    BY <2>1, <1>t, PlainSlices
  <2>2. CASE \E b \in Batches(lastKey[p]) : slice' = [slice EXCEPT ![p] = [k \in b |-> web[k]]]
    <3>1. PICK b \in Batches(lastKey[p]) : slice' = [slice EXCEPT ![p] = [k \in b |-> web[k]]]
      BY <2>2
    <3>2. NewSlice(p, [k \in b |-> web[k]])
      BY Zenon, <1>t, <3>1, BatchFacts, ScannedSlice
    <3> QED
      BY <3>2
  <2> QED
    BY <1>3, <2>1, <2>2 DEF Scan
<1>4. CASE TakeRow(p)
  <2> DEFINE k == Min(DOMAIN slice[p])
             r == slice[p][k]
             t == [slice[p] EXCEPT ![k].page[Oldest(r)] = Cleaned(r.page[Oldest(r)])]
  <2>1. CASE slice' = [slice EXCEPT ![p] = Rest(p)]
    BY Zenon, <2>1, <1>t, PlainSlices
  <2>2. CASE HasPage(r) /\ slice' = [slice EXCEPT ![p][k].page[Oldest(r)] = Cleaned(r.page[Oldest(r)])]
    <3>1. slice[p] \in Slices /\ DOMAIN slice[p] # {}
      BY Zenon, <1>4, <1>t DEF TakeRow
    <3>2. DOMAIN slice[p] \in SUBSET Nat
      BY <3>1, SliceFacts DEF Rows
    <3>3. k \in DOMAIN slice[p]
      BY <3>1, <3>2, MinFacts
    <3>4. slice' = [slice EXCEPT ![p] = t]
      BY <2>2
    <3>5. t \in Slices /\ DOMAIN t = DOMAIN slice[p] /\ \A j \in DOMAIN t : SamePages(t[j], slice[p][j])
      <4>1. HasPage(slice[p][k])
        BY <2>2
      <4> HIDE DEF k
      <4> QED
        BY <3>3, <4>1, TakenSlice
    <3>6. NewSlice(p, t)
      <4> HIDE DEF t
      <4> QED
        BY <3>4, <3>5 DEF NewSlice
    <3> QED
      BY <3>6
  <2> QED
    BY Zenon, <1>4, <2>1, <2>2 DEF TakeRow
<1>5. CASE WriteTag(p)
  <2> DEFINE k == row[p]
             n == i[p]
             w == kws[p][n]
             t == [slice[p] EXCEPT ![k].tag[n] = w]
  <2>1. k \in DOMAIN slice[p] /\ n \in Nat /\ w \in Keywords
    BY <1>5, <1>t DEF PagesInv, Writing, WriteTag
  <2>2. slice' = [slice EXCEPT ![p] = t]
    BY <1>5 DEF WriteTag
  <2>3. t \in Slices /\ DOMAIN t = DOMAIN slice[p] /\ \A j \in DOMAIN t : t[j].page = slice[p][j].page
    <3> HIDE DEF k, n, w
    <3> QED
      BY <2>1, TaggedSlice DEF IsTagged
  <2>4. NewSlice(p, t)
    <3> HIDE DEF t
    <3> QED
      BY Zenon, <2>2, <2>3 DEF NewSlice, SamePages, Agree
  <2> QED
    BY <2>4
<1>6. CASE WriteRow(p)
  BY Zenon, <1>6, <1>t, PlainSlices DEF WriteRow
<1> QED
  BY <1>1, <1>2, <1>3, <1>4, <1>5, <1>6 DEF Parse

(* The records parsers hold stay behind the rows of the table.             *)
LEMMA SlicesHeld ==
  ASSUME PagesInv, [Next]_vars, NEW p \in Parsers, NEW t, NewSlice(p, t)
  PROVE  /\ slice' \in [Parsers -> Slices]
         /\ \A q \in Parsers : \A k \in DOMAIN slice'[q] :
              /\ FromFirst(slice'[q][k])
              /\ Held(k, slice[q][k])'
<1>t. slice \in [Parsers -> Slices] /\ slice' = [slice EXCEPT ![p] = t] /\ t \in Slices
  BY DEF PagesInv, TypeOK, NewSlice
<1>1. slice' \in [Parsers -> Slices]
  BY <1>t
<1>2. ASSUME NEW q \in Parsers, NEW k \in DOMAIN slice'[q]
      PROVE  FromFirst(slice'[q][k]) /\ Held(k, slice[q][k])'
  <2> DEFINE z == slice'[q][k]
  <2>1. k \in Rows
    BY <1>1, SliceFacts
  <2>2. KeepsRow(k)
    BY <2>1, StepKeeps
  <2>3. \/ z = web[k]
        \/ k \in DOMAIN slice[q] /\ SamePages(z, slice[q][k])
    <3>1. CASE q = p
      BY <1>t, <3>1 DEF NewSlice
    <3>2. CASE q # p
      BY <1>t, <3>2 DEF SamePages, Agree
    <3> QED
      BY <3>1, <3>2
  <2>4. FromFirst(web[k])
    BY <2>1 DEF PagesInv
  <2>5. k \in DOMAIN slice[q] => FromFirst(slice[q][k]) /\ Held(k, slice[q][k])
    BY DEF PagesInv
  <2>6. (Held(k, slice[q][k])')
        <=> \A s \in Stamps : s = 1 \/ MergeWrite => Agree(web'[k].page[s], z.page[s])
    BY DEF Held
  <2> HIDE DEF z
  <2>7. CASE z = web[k]
    BY <2>2, <2>4, <2>6, <2>7 DEF KeepsRow, z
  <2>8. CASE k \in DOMAIN slice[q] /\ SamePages(z, slice[q][k])
    <3> DEFINE g == slice[q][k]
    <3>1. FromFirst(g) /\ Held(k, g) /\ SamePages(z, g)
      BY <2>5, <2>8
    <3> HIDE DEF g
    <3>2. ASSUME HasPage(z) PROVE z.page[1] # NoHtml
      <4>1. HasPage(g) /\ 1 \in Stamps
        BY <3>1, <3>2, BoundsAssumption DEF HasPage, SamePages, Agree, Stamps
      <4> QED
        BY <3>1, <4>1 DEF FromFirst, SamePages, Agree
    <3>3. \A s \in Stamps : s = 1 \/ MergeWrite => Agree(web'[k].page[s], z.page[s])
      BY <2>2, <3>1 DEF KeepsRow, Held, SamePages, Agree
    <3> QED
      BY <2>6, <3>2, <3>3 DEF FromFirst, z
  <2> QED
    BY <2>3, <2>7, <2>8
<1> QED
  BY <1>1, <1>2
-----------------------------------------------------------------------------
(* The row y of TagTable that parser p has just written: a keyword of the  *)
(* first version of its page.                                              *)
Written(p, y) ==
  /\ y.kw = kws[p][i[p]] /\ y.kw \in Keywords
  /\ y.ts = 1 /\ 1 \in Stamps
  /\ y.nt = clock' /\ y.nt > lastNt[p]
  /\ y.url = row[p] /\ y.url \in Rows
  /\ y.clash \in BOOLEAN
  /\ y.clash <=> \E x \in tagTable : SameKey(x, y) /\ (x.clash \/ x.url # y.url)
  /\ tagTable' = {x \in tagTable : ~SameKey(x, y)} \cup {y}

(* A turn of the loop over the keywords writes it, or writes nothing.      *)
LEMMA TagStep ==
  ASSUME PagesInv, NEW p \in Parsers, WriteTag(p)
  PROVE  /\ clock' \in {clock, clock + 1} /\ clock' > lastNt[p]
         /\ lastNt' = [lastNt EXCEPT ![p] = clock']
         /\ \/ "tag_write" \in Faults /\ tagTable' = tagTable
            \/ \E y : Written(p, y)
<1>1. PICK nt \in {clock, clock + 1} :
       /\ nt > lastNt[p]
       /\ clock' = nt
       /\ lastNt' = [lastNt EXCEPT ![p] = nt]
       /\ \/ WriteTagRow([kw |-> kws[p][i[p]], ts |-> Oldest(slice[p][row[p]]), nt |-> nt,
                         url |-> row[p], clash |-> FALSE])
          \/ "tag_write" \in Faults /\ UNCHANGED tagTable
  BY Zenon DEF WriteTag
<1>2. /\ row[p] \in DOMAIN slice[p] /\ HasPage(slice[p][row[p]])
      /\ FromFirst(slice[p][row[p]]) /\ slice[p] \in Slices
  BY Zenon DEF PagesInv, TypeOK, Writing, WriteTag
<1>3. slice[p][row[p]] \in Record /\ row[p] \in Rows
  BY <1>2, SliceFacts
<1>4. Oldest(slice[p][row[p]]) = 1 /\ 1 \in Stamps
  BY <1>2, <1>3, OldestFirst
<1>5. kws[p][i[p]] \in Keywords
  BY DEF PagesInv, TypeOK, WriteTag
<1> DEFINE r == [kw |-> kws[p][i[p]], ts |-> 1, nt |-> nt, url |-> row[p], clash |-> FALSE]
<1>6. ASSUME WriteTagRow(r) PROVE \E y : Written(p, y)
  <2> DEFINE hit == {x \in tagTable : SameKey(x, r)}
             c == \E x \in hit : x.clash \/ (x.url # r.url /\ x.nt = r.nt)
             y == [r EXCEPT !.clash = c]
  <2>1. tagTable' = (tagTable \ hit) \cup {y}
    BY <1>6 DEF WriteTagRow
  <2>2. /\ y.kw = r.kw /\ y.ts = r.ts /\ y.nt = r.nt /\ y.url = r.url /\ y.clash = c
    OBVIOUS
  <2>3. \A x : SameKey(x, y) <=> SameKey(x, r)
    BY <2>2 DEF SameKey
  <2>4. c <=> \E x \in tagTable : SameKey(x, y) /\ (x.clash \/ x.url # y.url)
    BY <2>2, <2>3 DEF SameKey
  <2>5. c \in BOOLEAN
    OBVIOUS
  <2> HIDE DEF y, c
  <2>6. tagTable' = {x \in tagTable : ~SameKey(x, y)} \cup {y}
    BY Zenon, <2>1, <2>3
  <2>7. Written(p, y)
    BY Zenon, <1>1, <1>3, <1>4, <1>5, <2>2, <2>4, <2>5, <2>6 DEF Written
  <2> QED
    BY <2>7
<1> HIDE DEF r
<1>7. WriteTagRow(r) \/ ("tag_write" \in Faults /\ UNCHANGED tagTable)
  BY Zenon, <1>1, <1>4 DEF r
<1> QED
  BY <1>1, <1>6, <1>7

(* Every step of a parser keeps the types of its locals.                   *)
LEMMA LocalsStep ==
  ASSUME PagesInv, NEW p \in Parsers, Start(p) \/ Parse(p) \/ Crash(p)
  PROVE  LocalsOK'
<1>t. LocalsOK /\ slice \in [Parsers -> Slices]
  BY Zenon DEF PagesInv, TypeOK, LocalsOK
<1> USE DEF LocalsOK
<1>0. \A n : Below(n) \in SUBSET Rows
  BY DEF Below, Present
<1>e. << >> \in Seq(Keywords) /\ 1 \in Rows /\ MaxRow \in Nat
  BY TildeAssumption DEF Rows
<1>1. CASE Start(p)
  <2>1. PICK k \in {0} \cup Rows : /\ lastKey' = [lastKey EXCEPT ![p] = k]
                                   /\ base' = [base EXCEPT ![p] = Below(k)]
    BY Zenon, <1>1 DEF Start
  <2>2. k \in 0 .. MaxRow
    BY <1>e DEF Rows
  <2>3. lastKey' \in [Parsers -> 0 .. MaxRow] /\ base' \in [Parsers -> SUBSET Rows]
    BY <2>1, <2>2, <1>0, <1>t
  <2>4. runs' \in 0 .. MaxRuns
    BY <1>1, <1>t, BoundsAssumption DEF Start
  <2>5. /\ pc' = [pc EXCEPT ![p] = "scan"]
        /\ visited' = [visited EXCEPT ![p] = {}]
        /\ UNCHANGED <<clock, row, kws, i, lastNt>>
    BY <1>1 DEF Start, Goto
  <2> QED
    BY <1>t, <2>3, <2>4, <2>5
<1>2. CASE Scan(p)
  <2>1. \E l \in {"rows", "done", "stopped"} : pc' = [pc EXCEPT ![p] = l]
    BY <1>2 DEF Scan, Goto
  <2>2. UNCHANGED <<clock, lastKey, row, kws, i, runs, lastNt, base, visited>>
    BY <1>2 DEF Scan
  <2> QED
    BY <1>t, <2>1, <2>2
<1>3. CASE TakeRow(p)
  <2> DEFINE k == Min(DOMAIN slice[p])
             r == slice[p][k]
  <2>1. slice[p] \in Slices /\ DOMAIN slice[p] # {}
    BY Zenon, <1>3, <1>t DEF TakeRow
  <2>2. DOMAIN slice[p] \in SUBSET Nat
    BY <2>1, SliceFacts DEF Rows
  <2>3. k \in DOMAIN slice[p] /\ k \in Rows
    BY <2>1, <2>2, MinFacts, SliceFacts
  <2>4. k \in 0 .. MaxRow
    BY <2>3, <1>e DEF Rows
  <2>5. lastKey' = [lastKey EXCEPT ![p] = k] /\ visited' = [visited EXCEPT ![p] = @ \cup {k}]
    BY Zenon, <1>3 DEF TakeRow, CursorPast
  <2>6. UNCHANGED <<clock, runs, lastNt, base>>
    BY Zenon, <1>3 DEF TakeRow
  <2>7. CASE UNCHANGED <<kws, row, i, pc>>
    <3> HIDE DEF k
    <3> QED
      BY <1>t, <2>3, <2>4, <2>5, <2>6, <2>7
  <2>8. CASE /\ HasPage(r)
             /\ kws' = [kws EXCEPT ![p] = KwsOf[Cleaned(r.page[Oldest(r)]).doc]]
             /\ row' = [row EXCEPT ![p] = k]
             /\ i' = [i EXCEPT ![p] = 1]
             /\ pc' = [pc EXCEPT ![p] = "tags"]
    <3>1. r \in Record /\ FromFirst(r)
      BY <2>1, <2>3, SliceFacts DEF PagesInv
    <3>2. r.page[Oldest(r)] \in Html
      BY Zenon, <3>1, <2>8, OldestFirst
    <3>3. Cleaned(r.page[Oldest(r)]).doc \in Docs
      BY <3>2, HtmlFacts
    <3>4. KwsOf[Cleaned(r.page[Oldest(r)]).doc] \in Seq(Keywords)
      BY Zenon, <3>3, KwsOfAssumption
    <3> HIDE DEF k, r
    <3>5. kws' \in [Parsers -> Seq(Keywords)]
      BY Zenon, <1>t, <2>8, <3>4
    <3> QED
      BY SMTT(30), <1>t, <2>3, <2>4, <2>5, <2>6, <2>8, <3>5
  <2> QED
    BY Zenon, <1>3, <2>7, <2>8 DEF TakeRow, Goto
<1>4. CASE NextBatch(p)
  BY <1>4, <1>t DEF NextBatch, Goto
<1>5. CASE WriteTag(p)
  <2>1. clock' \in {clock, clock + 1} /\ lastNt' = [lastNt EXCEPT ![p] = clock']
    BY <1>5, TagStep
  <2>2. i' = [i EXCEPT ![p] = @ + 1] /\ UNCHANGED <<pc, lastKey, row, kws, runs, base, visited>>
    BY <1>5 DEF WriteTag
  <2>3. clock' \in Nat /\ \A n \in 0 .. clock : n \in 0 .. clock'
    BY <2>1, <1>t
  <2>4. lastNt' \in [Parsers -> 0 .. clock']
    BY <2>1, <2>3, <1>t
  <2>5. i[p] + 1 \in Nat \ {0}
    BY <1>t
  <2>6. i' \in [Parsers -> Nat \ {0}]
    BY <2>2, <2>5, <1>t
  <2> QED
    BY Zenon, <2>2, <2>3, <2>4, <2>6, <1>t
<1>6. CASE WriteRow(p)
  <2>1. /\ kws' = [kws EXCEPT ![p] = << >>] /\ i' = [i EXCEPT ![p] = 1]
        /\ pc' = [pc EXCEPT ![p] = "rows"]
        /\ UNCHANGED <<clock, lastKey, row, runs, lastNt, base, visited>>
    BY Zenon, <1>6 DEF WriteRow, Goto
  <2> QED
    BY <2>1, <1>t, <1>e
<1>7. CASE Exit(p) \/ Crash(p)
  <2>1. /\ pc' = [pc EXCEPT ![p] = "idle"] /\ lastKey' = [lastKey EXCEPT ![p] = 0]
        /\ row' = [row EXCEPT ![p] = 1] /\ kws' = [kws EXCEPT ![p] = << >>]
        /\ i' = [i EXCEPT ![p] = 1]
        /\ base' = [base EXCEPT ![p] = {}] /\ visited' = [visited EXCEPT ![p] = {}]
        /\ UNCHANGED <<clock, runs, lastNt>>
    BY Zenon, <1>7 DEF Exit, Crash, End, Goto
  <2>2. 0 \in 0 .. MaxRow
    BY <1>e
  <2> QED
    BY <2>1, <2>2, <1>t, <1>e
<1> QED
  BY Zenon, <1>1, <1>2, <1>3, <1>4, <1>5, <1>6, <1>7 DEF Parse

(* A step of a parser leaves the others where they are.                    *)
LEMMA OthersKept ==
  ASSUME PagesInv, NEW p \in Parsers, Start(p) \/ Parse(p) \/ Crash(p),
         NEW q \in Parsers, q # p
  PROVE  pc'[q] = pc[q] /\ row'[q] = row[q] /\ kws'[q] = kws[q] /\ slice'[q] = slice[q]
<1>1. LocalsOK /\ slice \in [Parsers -> Slices]
  BY Zenon DEF PagesInv, TypeOK, LocalsOK
<1>2. slice'[q] = slice[q]
  BY <1>1, ParserSlice DEF NewSlice
<1>3. pc'[q] = pc[q] /\ row'[q] = row[q] /\ kws'[q] = kws[q]
  <2>1. CASE Start(p)
    BY Zenon, <1>1, <2>1 DEF LocalsOK, Start, Goto
  <2>2. CASE Scan(p)
    BY Zenon, <1>1, <2>2 DEF LocalsOK, Scan, Goto
  <2>3. CASE TakeRow(p)
    BY SMTT(30), <1>1, <2>3 DEF LocalsOK, TakeRow, Goto
  <2>4. CASE NextBatch(p)
    BY <1>1, <2>4 DEF LocalsOK, NextBatch, Goto
  <2>5. CASE WriteTag(p)
    BY <1>1, <2>5 DEF LocalsOK, WriteTag
  <2>6. CASE WriteRow(p)
    BY Zenon, <1>1, <2>6 DEF LocalsOK, WriteRow, Goto
  <2>7. CASE Exit(p) \/ Crash(p)
    BY Zenon, <1>1, <2>7 DEF LocalsOK, Exit, Crash, End, Goto
  <2> QED
    BY Zenon, <2>1, <2>2, <2>3, <2>4, <2>5, <2>6, <2>7 DEF Parse
<1> QED
  BY <1>2, <1>3

(* Taking a row is what makes a parser write tags.                         *)
LEMMA TakeWrites ==
  ASSUME PagesInv, NEW p \in Parsers, TakeRow(p)
  PROVE  Writing(p)'
<1> DEFINE k == Min(DOMAIN slice[p])
           r == slice[p][k]
           t == [slice[p] EXCEPT ![k].page[Oldest(r)] = Cleaned(r.page[Oldest(r)])]
<1>t. LocalsOK /\ slice \in [Parsers -> Slices]
  BY Zenon DEF PagesInv, TypeOK, LocalsOK
<1>1. slice[p] \in Slices /\ DOMAIN slice[p] # {} /\ pc[p] = "rows"
  BY SMTT(30), <1>t DEF TakeRow
<1>2. DOMAIN slice[p] \in SUBSET Nat
  BY <1>1, SliceFacts DEF Rows
<1>3. k \in DOMAIN slice[p] /\ \A j \in DOMAIN slice[p] : k <= j
  BY <1>1, <1>2, MinFacts
<1>4. CASE UNCHANGED pc
  BY Zenon, <1>1, <1>4 DEF Writing
<1>5. CASE /\ HasPage(r)
           /\ slice' = [slice EXCEPT ![p][k].page[Oldest(r)] = Cleaned(r.page[Oldest(r)])]
           /\ kws' = [kws EXCEPT ![p] = KwsOf[Cleaned(r.page[Oldest(r)]).doc]]
           /\ row' = [row EXCEPT ![p] = k]
  <2>1. slice'[p] = t
    BY Zenon, <1>t, <1>5
  <2>2. /\ DOMAIN t = DOMAIN slice[p] /\ HasPage(t[k])
        /\ Oldest(slice[p][k]) = 1
        /\ t[k].page[1] = Cleaned(slice[p][k].page[1])
    <3>1. HasPage(slice[p][k])
      BY Zenon, <1>5
    <3> HIDE DEF k
    <3> QED
      BY ZenonT(30), <1>3, <3>1, TakenSlice
  <2> HIDE DEF k, t
  <2>3. row'[p] = k /\ kws'[p] = KwsOf[t[k].page[1].doc]
    BY <1>t, <1>5, <2>2 DEF LocalsOK
  <2> QED
    BY Zenon, <1>3, <2>1, <2>2, <2>3 DEF Writing, HasPage
<1> QED
  BY Zenon, <1>4, <1>5 DEF TakeRow

(* A parser that writes tags has a row to write them for.                  *)
LEMMA WritingStep ==
  ASSUME PagesInv, NEW p \in Parsers, Start(p) \/ Parse(p) \/ Crash(p), NEW q \in Parsers
  PROVE  Writing(q)'
<1>t. LocalsOK /\ slice \in [Parsers -> Slices] /\ Writing(q)
  BY Zenon DEF PagesInv, TypeOK, LocalsOK
<1>1. CASE q # p
  BY Zenon, <1>1, <1>t, OthersKept DEF Writing, HasPage
<1>2. CASE q = p /\ TakeRow(p)
  BY <1>2, TakeWrites
<1>3. CASE q = p /\ WriteTag(p)
  <2> DEFINE k == row[p]
             n == i[p]
             w == kws[p][n]
             t == [slice[p] EXCEPT ![k].tag[n] = w]
  <2>1. k \in DOMAIN slice[p] /\ n \in Nat /\ w \in Keywords
    BY <1>3, <1>t DEF LocalsOK, Writing, WriteTag
  <2>2. slice'[p] = t /\ row' = row /\ kws' = kws /\ pc' = pc
    BY <1>3, <1>t DEF WriteTag
  <2>3. DOMAIN t = DOMAIN slice[p] /\ \A j \in DOMAIN t : t[j].page = slice[p][j].page
    <3> HIDE DEF k, n, w
    <3> QED
      BY <2>1, TaggedSlice DEF IsTagged
  <2> HIDE DEF t
  <2>4. t[k].page = slice[p][k].page
    BY Zenon, <2>1, <2>3
  <2> QED
    BY Zenon, <1>3, <1>t, <2>2, <2>3, <2>4 DEF Writing, HasPage
<1>4. CASE q = p /\ ~TakeRow(p) /\ ~WriteTag(p)
  <2>1. pc'[p] # "tags"
    BY Zenon, <1>4, <1>t DEF LocalsOK, Parse, Start, Scan, NextBatch, WriteRow, Exit, Crash, End, Goto
  <2> QED
    BY Zenon, <1>4, <2>1 DEF Writing
<1> QED
  BY <1>1, <1>2, <1>3, <1>4

(* A link leads to a version with the keyword.                             *)
Resolves(h, w) == h # NoHtml /\ \E n \in DOMAIN KwsOf[h.doc] : KwsOf[h.doc][n] = w

(* The row a parser writes resolves, now and after the step.               *)
LEMMA WrittenResolves ==
  ASSUME PagesInv, NEW p \in Parsers, WriteTag(p), NEW y, Written(p, y)
  PROVE  Resolves(web[y.url].page[1], y.kw)
<1> DEFINE r == slice[p][row[p]]
<1>1. /\ row[p] \in DOMAIN slice[p] /\ HasPage(r) /\ FromFirst(r) /\ Held(row[p], r)
      /\ kws[p] = KwsOf[r.page[1].doc]
  BY Zenon DEF PagesInv, Writing, WriteTag
<1>2. r.page[1] # NoHtml /\ 1 \in Stamps
  BY Zenon, <1>1 DEF FromFirst, Written
<1>3. web[row[p]].page[1] # NoHtml /\ web[row[p]].page[1].doc = r.page[1].doc
  BY Zenon, <1>1, <1>2 DEF Held, Agree
<1>4. i[p] \in DOMAIN kws[p]
  BY DEF PagesInv, TypeOK, WriteTag
<1> HIDE DEF r
<1> QED
  BY Zenon, <1>1, <1>3, <1>4 DEF Written, Resolves

(* Every step keeps the rows of TagTable resolving.                        *)
LEMMA RowsStep ==
  ASSUME PagesInv, [Next]_vars
  PROVE  RowsOK' /\ LinksResolve'
<1>t. RowsOK /\ clock \in Nat
  BY DEF PagesInv, TypeOK, RowsOK
<1>1. \A x \in tagTable : Resolves(web[x.url].page[1], x.kw)
  BY Zenon, <1>t DEF PagesInv, LinksResolve, RowsOK, Resolves
<1>2. \A k \in Rows : 1 \in Stamps => Agree(web'[k].page[1], web[k].page[1])
  BY StepKeeps DEF KeepsRow
<1>3. \A k \in Rows : \A w : 1 \in Stamps /\ Resolves(web[k].page[1], w) => Resolves(web'[k].page[1], w)
  BY Zenon, <1>2 DEF Agree, Resolves
<1>4. \/ tagTable' = tagTable /\ clock' \in {clock, clock + 1}
      \/ clock' \in {clock, clock + 1} /\ \E p \in Parsers : \E y : WriteTag(p) /\ Written(p, y)
  <2>1. \A p \in Parsers : Start(p) \/ Scan(p) \/ TakeRow(p) \/ NextBatch(p) \/ WriteRow(p)
                             \/ Exit(p) \/ Crash(p) => UNCHANGED <<tagTable, clock>>
    BY Zenon DEF Start, Scan, TakeRow, NextBatch, WriteRow, Exit, Crash, End
  <2>2. \A c \in Rows : Crawl(c) => UNCHANGED <<tagTable, clock>>
    BY DEF Crawl
  <2>3. UNCHANGED vars => UNCHANGED <<tagTable, clock>>
    BY DEF vars
  <2>4. ASSUME NEW p \in Parsers, WriteTag(p)
        PROVE  /\ clock' \in {clock, clock + 1}
               /\ tagTable' = tagTable \/ \E y : Written(p, y)
    BY <2>4, TagStep
  <2> QED
    BY <2>1, <2>2, <2>3, <2>4 DEF Next, Parse
<1>5. clock' \in Nat /\ \A n \in 0 .. clock : n \in 0 .. clock'
  BY <1>4, <1>t
<1>6. ASSUME NEW x \in tagTable'
      PROVE  /\ x.kw \in Keywords /\ x.ts \in Stamps
             /\ x.nt \in 0 .. clock' /\ x.url \in Rows
             /\ x.clash \in BOOLEAN /\ x.ts = 1
             /\ Resolves(web'[x.url].page[1], x.kw)
  <2>1. CASE x \in tagTable
    BY <2>1, <1>t, <1>1, <1>3, <1>5 DEF RowsOK
  <2>2. CASE x \notin tagTable
    <3>1. PICK p \in Parsers : WriteTag(p) /\ Written(p, x)
      BY ZenonT(30), <1>4, <1>6, <2>2 DEF Written
    <3>2. Resolves(web[x.url].page[1], x.kw)
      BY <3>1, WrittenResolves
    <3>3. /\ x.kw \in Keywords /\ x.ts = 1 /\ 1 \in Stamps /\ x.nt = clock'
          /\ x.url \in Rows /\ x.clash \in BOOLEAN
      BY Zenon, <3>1 DEF Written
    <3>4. x.nt \in 0 .. clock'
      BY <3>3, <1>5
    <3> QED
      BY Zenon, <3>2, <3>3, <3>4, <1>3
  <2> QED
    BY <2>1, <2>2
<1>7. RowsOK'
  BY Zenon, <1>6 DEF RowsOK
<1> QED
  BY Zenon, <1>6, <1>7 DEF LinksResolve, Resolves

(* The empty table and parsers that have not begun.                        *)
LEMMA PagesInit == Init => PagesInv
<1> SUFFICES ASSUME Init PROVE PagesInv
  OBVIOUS
<1>1. EmptyRecord \in Record
  BY DEF EmptyRecord, Record
<1>2. web \in [Rows -> Record] /\ \A k \in Rows : FromFirst(web[k])
  BY <1>1 DEF Init, EmptyRecord, FromFirst, HasPage
<1>3. << >> \in Slices /\ DOMAIN << >> = {}
  <2>1. << >> \in [{} -> Record] /\ DOMAIN << >> = {}
    OBVIOUS
  <2> QED
    BY Zenon, <2>1, SliceIntro
<1>4. slice \in [Parsers -> Slices] /\ \A p \in Parsers : slice[p] = << >>
  BY <1>3 DEF Init
<1>5. \A p \in Parsers : DOMAIN slice[p] = {}
  BY <1>3, <1>4
<1>6. 1 \in Rows /\ 0 \in 0 .. MaxRow /\ << >> \in Seq(Keywords) /\ 0 \in 0 .. MaxRuns
  BY TildeAssumption, BoundsAssumption DEF Rows
<1>7. LocalsOK
  BY <1>6 DEF Init, LocalsOK
<1>8. tagTable = {} /\ \A p \in Parsers : pc[p] = "idle"
  BY DEF Init
<1>9. TypeOK
  BY <1>2, <1>4, <1>7, <1>8 DEF TypeOK, LocalsOK
<1> QED
  BY Zenon, <1>2, <1>5, <1>8, <1>9 DEF PagesInv, Writing, LinksResolve

(* Every step of the crawler and the parsers keeps the account of pages.   *)
LEMMA PagesNext == PagesInv /\ [Next]_vars => PagesInv'
<1> SUFFICES ASSUME PagesInv, [Next]_vars PROVE PagesInv'
  OBVIOUS
<1>t. web \in [Rows -> Record] /\ slice \in [Parsers -> Slices] /\ LocalsOK
  BY DEF PagesInv, TypeOK, LocalsOK
<1>1. RowsOK' /\ LinksResolve'
  BY RowsStep
<1>2. \A k \in Rows : KeepsRow(k)
  BY StepKeeps
<1>3. web' \in [Rows -> Record]
  <2>1. DOMAIN web' = Rows /\ web' = [k \in DOMAIN web' |-> web'[k]]
    <3>1. \A c \in Rows : Crawl(c) => DOMAIN web' = Rows /\ web' = [k \in DOMAIN web' |-> web'[k]]
      BY Zenon, <1>t DEF Crawl
    <3>2. \A p \in Parsers : WriteRow(p) => DOMAIN web' = Rows /\ web' = [k \in DOMAIN web' |-> web'[k]]
      BY <1>t DEF WriteRow
    <3>3. web' = web => DOMAIN web' = Rows /\ web' = [k \in DOMAIN web' |-> web'[k]]
      BY <1>t
    <3>4. \A p \in Parsers : Start(p) \/ Scan(p) \/ TakeRow(p) \/ NextBatch(p) \/ WriteTag(p)
                               \/ Exit(p) \/ Crash(p) => web' = web
      BY Zenon DEF Start, Scan, TakeRow, NextBatch, WriteTag, Exit, Crash, End
    <3>5. UNCHANGED vars => web' = web
      BY DEF vars
    <3> QED
      BY <3>1, <3>2, <3>3, <3>4, <3>5 DEF Next, Parse
  <2> QED
    BY <1>2, <2>1 DEF KeepsRow
<1>4. ASSUME NEW p \in Parsers, Start(p) \/ Parse(p) \/ Crash(p)
      PROVE  PagesInv'
  <2>1. LocalsOK'
    BY <1>4, LocalsStep
  <2>2. PICK t : NewSlice(p, t)
    BY <1>4, ParserSlice
  <2>3. /\ slice' \in [Parsers -> Slices]
        /\ \A q \in Parsers : \A k \in DOMAIN slice'[q] :
              FromFirst(slice'[q][k]) /\ Held(k, slice[q][k])'
    BY <2>2, SlicesHeld
  <2>4. \A q \in Parsers : Writing(q)'
    BY <1>4, WritingStep
  <2>5. TypeOK'
    BY Zenon, <1>1, <1>3, <2>1, <2>3 DEF TypeOK, LocalsOK, RowsOK
  <2>6. \A k \in Rows : FromFirst(web[k])'
    BY SMTT(30), <1>2 DEF KeepsRow, FromFirst, HasPage
  <2>7. \A x \in tagTable' : x.ts = 1
    BY <1>1 DEF RowsOK
  <2>8. \A q \in Parsers : \A k \in DOMAIN slice'[q] : FromFirst(slice[q][k])'
    BY Zenon, <2>3 DEF FromFirst, HasPage
  <2> QED
    BY Zenon, <1>1, <2>3, <2>4, <2>5, <2>6, <2>7, <2>8 DEF PagesInv
<1>5. ASSUME UNCHANGED <<pc, lastKey, slice, row, kws, i, runs, lastNt, base, visited, clock>>
      PROVE  PagesInv'
  <2>1. LocalsOK'
    BY Zenon, <1>t, <1>5 DEF LocalsOK
  <2>2. ASSUME NEW q \in Parsers
        PROVE  Writing(q)' /\ NewSlice(q, slice[q])
    <3>1. Writing(q)'
      BY Zenon, <1>5 DEF PagesInv, Writing, HasPage
    <3>2. NewSlice(q, slice[q])
      BY Zenon, <1>5, <1>t DEF NewSlice, SamePages, Agree
    <3> QED
      BY <3>1, <3>2
  <2>3. \A q \in Parsers : \A k \in DOMAIN slice'[q] :
              FromFirst(slice[q][k])' /\ Held(k, slice[q][k])'
    BY Zenon, <2>2, SlicesHeld DEF FromFirst, HasPage
  <2>4. TypeOK'
    BY Zenon, <1>1, <1>3, <1>t, <1>5, <2>1 DEF TypeOK, LocalsOK, RowsOK
  <2>5. \A k \in Rows : FromFirst(web[k])'
    BY Zenon, <1>2 DEF KeepsRow, FromFirst, HasPage
  <2>6. \A x \in tagTable' : x.ts = 1
    BY <1>1 DEF RowsOK
  <2> QED
    BY Zenon, <1>1, <2>2, <2>3, <2>4, <2>5, <2>6 DEF PagesInv
<1> QED
  BY <1>4, <1>5 DEF Next, Crawl, vars

(* Whatever the interleaving of crawler and parsers, whatever is           *)
(* interrupted or fails and whether a write merges or replaces, a url that *)
(* the recommender finds under a keyword leads to a version of a page that *)
(* has the keyword.                                                        *)
THEOREM LinksAlwaysResolve == Spec => []LinksResolve
<1>1. PagesInv => LinksResolve
  BY DEF PagesInv
<1> QED
  BY PagesInit, PagesNext, <1>1, PTL DEF Spec

(* A write that merges cells never undoes what the crawler stored while    *)
(* the parser had its copy of the row.                                     *)
THEOREM NoVersionLost == Spec => PagesKept
<1> DEFINE Kept == MergeWrite => \A k \in Rows : \A s \in Stamps : web[k].page[s] # NoHtml =>
                     web'[k].page[s] # NoHtml /\ web'[k].page[s].doc = web[k].page[s].doc
<1>1. PagesInv /\ [Next]_vars => [Kept]_vars
  <2> SUFFICES ASSUME PagesInv, [Next]_vars PROVE Kept
    OBVIOUS
  <2> QED
    BY Zenon, StepKeeps DEF KeepsRow, Agree
<1> QED
  BY PagesInit, PagesNext, <1>1, PTL DEF Spec, PagesKept
=============================================================================
