------------------------------ MODULE PageTags ------------------------------
(***************************************************************************)
(* Proofs about the tags that page parsers give to pages (module           *)
(* PageParser): they are indexed in TagTable, and a run that comes to its  *)
(* end has given every page its keywords.  The pages themselves, and what  *)
(* a step does to a slice, are the subject of PageParserProofs.            *)
(***************************************************************************)
EXTENDS PageParserProofs, FiniteSetTheorems

(* The keyword w leads to row k, or a row of w stands in for it that two   *)
(* parsers wrote in the same microsecond.                                  *)
Indexed(k, w) ==
  \E x \in tagTable : /\ x.kw = w
                      /\ x.url = k \/ (x.clash /\ Cardinality(Parsers) > 1)

(* The inductive form of TagsIndexed: the tags of the rows and of the      *)
(* records that will be written over them are indexed, and no row of       *)
(* TagTable is newer than every parser's last reading of the clock.        *)
IndexInv ==
  /\ PagesInv
  /\ \A x \in tagTable : \E p \in Parsers : x.nt <= lastNt[p]
  /\ "tag_write" \notin Faults =>
       /\ \A k \in Rows : \A n \in 1 .. MaxKws :
            web[k].tag[n] # NoTag => Indexed(k, web[k].tag[n])
       /\ \A p \in Parsers : \A k \in DOMAIN slice[p] : \A n \in 1 .. MaxKws :
            slice[p][k].tag[n] # NoTag => Indexed(k, slice[p][k].tag[n])
-----------------------------------------------------------------------------
(* The tags of a record after a step are those it had, in the slice or in  *)
(* the table, or the one that was just written to TagTable.                *)
LEMMA ParserTags ==
  ASSUME PagesInv, NEW p \in Parsers, Start(p) \/ Parse(p) \/ Crash(p),
         NEW k \in DOMAIN slice'[p], NEW n \in 1 .. MaxKws
  PROVE  \/ slice'[p][k].tag[n] = web[k].tag[n]
         \/ k \in DOMAIN slice[p] /\ slice'[p][k].tag[n] = slice[p][k].tag[n]
         \/ WriteTag(p) /\ k = row[p] /\ n = i[p] /\ slice'[p][k].tag[n] = kws[p][n]
<1>t. web \in [Rows -> Record] /\ slice \in [Parsers -> Slices] /\ LocalsOK
  BY Zenon DEF PagesInv, TypeOK, LocalsOK
<1>1. CASE UNCHANGED slice
  BY <1>1
<1>2. CASE slice' = [slice EXCEPT ![p] = << >>]
  BY <1>2, <1>t
<1>3. CASE slice' = [slice EXCEPT ![p] = Rest(p)]
  <2>1. slice'[p] = Rest(p)
    BY <1>3, <1>t
  <2>2. k \in DOMAIN slice[p] /\ Rest(p)[k] = slice[p][k]
    BY <1>t, <2>1, RestFacts
  <2> QED
    BY <2>1, <2>2
<1>4. CASE Scan(p)
  <2>1. CASE \E b \in Batches(lastKey[p]) : slice' = [slice EXCEPT ![p] = [j \in b |-> web[j]]]
    BY Zenon, <2>1, <1>t
  <2> QED
    BY Zenon, <1>1, <1>4, <2>1 DEF Scan
<1>5. CASE TakeRow(p)
  <2> DEFINE m == Min(DOMAIN slice[p])
             r == slice[p][m]
             t == [slice[p] EXCEPT ![m].page[Oldest(r)] = Cleaned(r.page[Oldest(r)])]
  <2>1. CASE HasPage(r) /\ slice' = [slice EXCEPT ![p][m].page[Oldest(r)] = Cleaned(r.page[Oldest(r)])]
    <3>1. slice[p] \in Slices /\ DOMAIN slice[p] # {}
      BY Zenon, <1>5, <1>t DEF TakeRow
    <3>2. DOMAIN slice[p] \in SUBSET Nat
      BY <3>1, SliceFacts DEF Rows
    <3>3. m \in DOMAIN slice[p]
      BY <3>1, <3>2, MinFacts
    <3>4. slice'[p] = t
      BY <2>1, <1>t
    <3>5. DOMAIN t = DOMAIN slice[p] /\ \A j \in DOMAIN t : t[j].tag = slice[p][j].tag
      <4>1. HasPage(slice[p][m])
        BY <2>1
      <4> HIDE DEF m
      <4> QED
        BY <3>3, <4>1, TakenSlice
    <3> HIDE DEF t
    <3> QED
      BY Zenon, <3>4, <3>5
  <2> QED
    BY Zenon, <1>3, <1>5, <2>1 DEF TakeRow
<1>6. CASE WriteTag(p)
  <2> DEFINE j == row[p]
             m == i[p]
             w == kws[p][m]
             t == [slice[p] EXCEPT ![j].tag[m] = w]
  <2>1. j \in DOMAIN slice[p] /\ m \in Nat /\ w \in Keywords
    BY SMTT(30), <1>6, <1>t DEF LocalsOK, PagesInv, Writing, WriteTag
  <2>2. slice'[p] = t
    BY <1>6, <1>t DEF WriteTag
  <2>3. /\ DOMAIN t = DOMAIN slice[p]
        /\ \A l \in DOMAIN t : \A q \in 1 .. MaxKws :
             t[l].tag[q] = slice[p][l].tag[q] \/ (l = j /\ q = m /\ t[l].tag[q] = w)
    <3> HIDE DEF j, m, w
    <3> QED
      BY <2>1, TaggedSlice DEF IsTagged
  <2> HIDE DEF t
  <2>4. t[k].tag[n] = slice[p][k].tag[n] \/ (k = j /\ n = m /\ t[k].tag[n] = w)
    BY <2>2, <2>3
  <2>5. k \in DOMAIN slice[p]
    BY <2>2, <2>3
  <2> QED
    BY Zenon, <1>6, <2>2, <2>4, <2>5
<1> QED
  BY Zenon, <1>1, <1>2, <1>3, <1>4, <1>5, <1>6
  DEF Parse, Start, NextBatch, WriteRow, Exit, Crash, End

(* The tags of a row after a step are those it had, or those of a record   *)
(* that a parser held of it.                                               *)
LEMMA WebTags ==
  ASSUME PagesInv, [Next]_vars, NEW k \in Rows, NEW n \in 1 .. MaxKws
  PROVE  \/ web'[k].tag[n] = web[k].tag[n]
         \/ \E p \in Parsers : k \in DOMAIN slice[p] /\ web'[k].tag[n] = slice[p][k].tag[n]
<1>t. web \in [Rows -> Record] /\ slice \in [Parsers -> Slices]
  BY DEF PagesInv, TypeOK
<1>1. CASE web' = web
  BY <1>1
<1>2. ASSUME NEW c \in Rows, Crawl(c) PROVE web'[k].tag = web[k].tag
  <2>1. PICK s \in Stamps, h \in Html : web' = [web EXCEPT ![c].page[s] = h]
    BY Zenon, <1>2 DEF Crawl
  <2>2. web[k] = [page |-> web[k].page, tag |-> web[k].tag]
    BY <1>t, RecordFacts
  <2> QED
    BY <1>t, <2>1, <2>2
<1>3. ASSUME NEW p \in Parsers, WriteRow(p), web' # web
      PROVE  \/ web'[k].tag[n] = web[k].tag[n]
             \/ k \in DOMAIN slice[p] /\ web'[k].tag[n] = slice[p][k].tag[n]
  <2>1. web' = [web EXCEPT ![row[p]] = Stored(@, slice[p][row[p]])]
    BY <1>3 DEF WriteRow
  <2>2. CASE k # row[p]
    BY <1>t, <2>1, <2>2
  <2>3. CASE k = row[p]
    <3> DEFINE q == slice[p][k]
    <3>1. k \in DOMAIN slice[p] /\ HasPage(q) /\ FromFirst(q) /\ Held(k, q)
      BY Zenon, <1>3, <2>3 DEF PagesInv, Writing, WriteRow
    <3>2. q \in Record
      BY <3>1, <1>t, SliceFacts
    <3>3. web'[k] = Stored(web[k], q)
      BY <2>1, <2>3, <1>t
    <3>4. \A s \in Stamps : s = 1 \/ MergeWrite => Agree(web[k].page[s], q.page[s])
      BY <3>1 DEF Held
    <3>5. web[k] \in Record /\ FromFirst(web[k])
      BY <1>t DEF PagesInv
    <3> HIDE DEF q
    <3>6. Stored(web[k], q).tag[n] \in {web[k].tag[n], q.tag[n]}
      BY <3>1, <3>2, <3>4, <3>5, StoredFacts
    <3> QED
      BY Zenon, <3>1, <3>3, <3>6 DEF q
  <2> QED
    BY <2>2, <2>3
<1>4. \A p \in Parsers : Start(p) \/ Scan(p) \/ TakeRow(p) \/ NextBatch(p) \/ WriteTag(p)
                           \/ Exit(p) \/ Crash(p) => web' = web
  BY ZenonT(30) DEF Start, Scan, TakeRow, NextBatch, WriteTag, Exit, Crash, End
<1>5. UNCHANGED vars => web' = web
  BY DEF vars
<1> QED
  BY Zenon, <1>1, <1>2, <1>3, <1>4, <1>5 DEF Next, Parse

(* A parser that is alone is the only one.                                 *)
LEMMA Alone ==
  ASSUME NEW p \in Parsers, ~ (Cardinality(Parsers) > 1)
  PROVE  \A q \in Parsers : q = p
<1>1. Cardinality(Parsers) \in Nat
  BY ParsersAssumption, FS_CardinalityType
<1>2. Cardinality(Parsers) # 0
  BY ParsersAssumption, FS_EmptySet
<1>3. Cardinality(Parsers) = 1
  BY <1>1, <1>2
<1>4. \E x : Parsers = {x}
  BY <1>3, ParsersAssumption, FS_Singleton
<1> QED
  BY <1>4

(* The clock each parser read last only grows, and no row of TagTable is   *)
(* newer than all of them.                                                 *)
LEMMA ClockStep ==
  ASSUME IndexInv, [Next]_vars
  PROVE  \A x \in tagTable' : \E p \in Parsers : x.nt <= lastNt'[p]
<1>t. /\ clock \in Nat /\ lastNt \in [Parsers -> 0 .. clock]
      /\ \A x \in tagTable : x.nt \in 0 .. clock
      /\ \A x \in tagTable : \E p \in Parsers : x.nt <= lastNt[p]
  BY Zenon DEF IndexInv, PagesInv, TypeOK
<1>1. CASE tagTable' = tagTable /\ lastNt' = lastNt
  BY <1>1, <1>t
<1>2. ASSUME NEW p \in Parsers, WriteTag(p), NEW x \in tagTable'
      PROVE  \E q \in Parsers : x.nt <= lastNt'[q]
  <2>1. /\ clock' \in {clock, clock + 1} /\ clock' > lastNt[p]
        /\ lastNt' = [lastNt EXCEPT ![p] = clock']
        /\ tagTable' = tagTable \/ \E y : Written(p, y)
    BY <1>2, TagStep DEF IndexInv
  <2>2. lastNt'[p] = clock' /\ clock' \in Nat /\ \A q \in Parsers : lastNt[q] <= lastNt'[q]
    BY <2>1, <1>t
  <2>3. CASE x \in tagTable
    <3>1. x.nt <= clock'
      BY <2>1, <2>3, <1>t
    <3> QED
      BY <2>2, <3>1
  <2>4. CASE x \notin tagTable
    <3>1. x.nt = clock'
      BY <1>2, <2>1, <2>4 DEF Written
    <3> QED
      BY <2>2, <3>1
  <2> QED
    BY <2>3, <2>4
<1>3. \A p \in Parsers : Start(p) \/ Scan(p) \/ TakeRow(p) \/ NextBatch(p) \/ WriteRow(p)
                           \/ Exit(p) \/ Crash(p) => UNCHANGED <<tagTable, lastNt>>
  BY Zenon DEF Start, Scan, TakeRow, NextBatch, WriteRow, Exit, Crash, End
<1>4. \A c \in Rows : Crawl(c) => UNCHANGED <<tagTable, lastNt>>
  BY DEF Crawl
<1>5. UNCHANGED vars => UNCHANGED <<tagTable, lastNt>>
  BY DEF vars
<1> QED
  BY <1>1, <1>2, <1>3, <1>4, <1>5 DEF Next, Parse

(* A row of TagTable that takes the place of another stands in for it.     *)
LEMMA WrittenIndexes ==
  ASSUME IndexInv, NEW p \in Parsers, NEW y, Written(p, y)
  PROVE  /\ Indexed(y.url, y.kw)'
         /\ \A k, w : Indexed(k, w) => Indexed(k, w)'
<1>1. y \in tagTable' /\ \A x \in tagTable : SameKey(x, y) \/ x \in tagTable'
  BY DEF Written
<1>2. Indexed(y.url, y.kw)'
  BY <1>1 DEF Indexed
<1>3. ASSUME NEW k, NEW w, Indexed(k, w)
      PROVE  Indexed(k, w)'
  <2>1. PICK x \in tagTable : /\ x.kw = w
                              /\ x.url = k \/ (x.clash /\ Cardinality(Parsers) > 1)
    BY <1>3 DEF Indexed
  <2>2. CASE ~SameKey(x, y)
    BY <1>1, <2>1, <2>2 DEF Indexed
  <2>3. CASE SameKey(x, y) /\ Cardinality(Parsers) > 1
    <3>1. y.kw = w
      BY <2>1, <2>3 DEF SameKey
    <3>2. y.url = k \/ y.clash
      BY <2>1, <2>3 DEF Written
    <3> QED
      BY <1>1, <2>3, <3>1, <3>2 DEF Indexed
  <2>4. CASE SameKey(x, y) /\ ~ (Cardinality(Parsers) > 1)
    <3>1. PICK q \in Parsers : x.nt <= lastNt[q]
      BY DEF IndexInv
    <3>2. x.nt <= lastNt[p]
      BY <2>4, <3>1, Alone
    <3>3. x.nt = y.nt /\ y.nt > lastNt[p]
      BY <2>4 DEF SameKey, Written
    <3>4. x.nt \in Nat /\ lastNt[p] \in Nat
      <4>1. LocalsOK /\ RowsOK
        BY PagesFacts DEF IndexInv
      <4> QED
        BY <4>1 DEF LocalsOK, RowsOK
    <3> QED
      BY <3>2, <3>3, <3>4
  <2> QED
    BY <2>2, <2>3, <2>4
<1> QED
  BY <1>2, <1>3

(* No step takes a keyword of a page out of the index.                     *)
LEMMA IndexGrows ==
  ASSUME IndexInv, [Next]_vars, "tag_write" \notin Faults
  PROVE  /\ \A k, w : Indexed(k, w) => Indexed(k, w)'
         /\ \A p \in Parsers : \A k, w :
              WriteTag(p) /\ k = row[p] /\ w = kws[p][i[p]] => Indexed(k, w)'
<1>p. PagesInv
  BY SMTT(30) DEF IndexInv
<1>1. tagTable' = tagTable => \A k, w : Indexed(k, w) => Indexed(k, w)'
  BY DEF Indexed
<1>2. ASSUME NEW p \in Parsers, WriteTag(p)
      PROVE  /\ \A k, w : Indexed(k, w) => Indexed(k, w)'
             /\ \A k, w : k = row[p] /\ w = kws[p][i[p]] => Indexed(k, w)'
  <2>1. PICK y : Written(p, y)
    BY <1>p, <1>2, TagStep
  <2>2. /\ Indexed(y.url, y.kw)'
        /\ \A k, w : Indexed(k, w) => Indexed(k, w)'
    BY <2>1, WrittenIndexes
  <2>3. y.url = row[p] /\ y.kw = kws[p][i[p]] /\ y \in tagTable'
    BY <2>1 DEF Written
  <2> QED
    BY <2>2, <2>3
<1>3. \A p \in Parsers : Start(p) \/ Scan(p) \/ TakeRow(p) \/ NextBatch(p) \/ WriteRow(p)
                           \/ Exit(p) \/ Crash(p) => tagTable' = tagTable
  BY Zenon DEF Start, Scan, TakeRow, NextBatch, WriteRow, Exit, Crash, End
<1>4. \A c \in Rows : Crawl(c) => tagTable' = tagTable
  BY DEF Crawl
<1>5. UNCHANGED vars => tagTable' = tagTable
  BY DEF vars
<1> QED
  BY Zenon, <1>1, <1>2, <1>3, <1>4, <1>5 DEF Next, Parse

(* A fresh table has no tags.                                              *)
LEMMA IndexInit == Init => IndexInv
<1> SUFFICES ASSUME Init PROVE IndexInv
  OBVIOUS
<1>1. PagesInv
  BY PagesInit
<1>2. tagTable = {} /\ \A k \in Rows : \A n \in 1 .. MaxKws : web[k].tag[n] = NoTag
  BY Zenon DEF Init, EmptyRecord
<1>3. \A p \in Parsers : slice[p] = << >>
  BY DEF Init
<1>4. \A p \in Parsers : DOMAIN slice[p] = {}
  BY <1>3
<1> QED
  BY <1>1, <1>2, <1>4 DEF IndexInv

(* Every step keeps the tags indexed.                                      *)
LEMMA IndexNext == IndexInv /\ [Next]_vars => IndexInv'
<1> SUFFICES ASSUME IndexInv, [Next]_vars PROVE IndexInv'
  OBVIOUS
<1>p. PagesInv /\ slice \in [Parsers -> Slices]
  BY Zenon DEF IndexInv, PagesInv, TypeOK
<1>1. PagesInv'
  BY <1>p, PagesNext
<1>2. \A x \in tagTable' : \E p \in Parsers : x.nt <= lastNt'[p]
  BY ClockStep
<1>3. ASSUME "tag_write" \notin Faults
      PROVE  /\ \A k \in Rows : \A n \in 1 .. MaxKws :
                  web'[k].tag[n] # NoTag => Indexed(k, web[k].tag[n])'
             /\ \A p \in Parsers : \A k \in DOMAIN slice'[p] : \A n \in 1 .. MaxKws :
                  slice'[p][k].tag[n] # NoTag => Indexed(k, slice[p][k].tag[n])'
  <2>1. /\ \A k, w : Indexed(k, w) => Indexed(k, w)'
        /\ \A p \in Parsers : \A k, w :
              WriteTag(p) /\ k = row[p] /\ w = kws[p][i[p]] => Indexed(k, w)'
    BY Zenon, <1>3, IndexGrows
  <2>2. ASSUME NEW k \in Rows, NEW n \in 1 .. MaxKws, NEW w, w # NoTag,
               \/ w = web[k].tag[n]
               \/ \E p \in Parsers : k \in DOMAIN slice[p] /\ w = slice[p][k].tag[n]
        PROVE  Indexed(k, w)'
    <3>1. Indexed(k, w)
      BY <1>3, <2>2 DEF IndexInv
    <3> QED
      BY <2>1, <3>1
  <2>3. ASSUME NEW k \in Rows, NEW n \in 1 .. MaxKws, web'[k].tag[n] # NoTag
        PROVE  Indexed(k, web[k].tag[n])'
    <3> DEFINE w == web'[k].tag[n]
    <3>1. \/ w = web[k].tag[n]
          \/ \E p \in Parsers : k \in DOMAIN slice[p] /\ w = slice[p][k].tag[n]
      BY <1>p, WebTags
    <3>2. PICK v : v = w
      OBVIOUS
    <3>3. Indexed(k, v)'
      BY <2>2, <2>3, <3>1, <3>2
    <3> QED
      BY <3>2, <3>3 DEF Indexed
  <2>4. ASSUME NEW p \in Parsers, NEW k \in DOMAIN slice'[p], NEW n \in 1 .. MaxKws,
               slice'[p][k].tag[n] # NoTag
        PROVE  Indexed(k, slice[p][k].tag[n])'
    <3>1. k \in Rows
      BY <1>1, SliceFacts DEF PagesInv, TypeOK
    <3>2. PICK w : w = slice'[p][k].tag[n]
      OBVIOUS
    <3>3. \/ w = web[k].tag[n]
          \/ \E q \in Parsers : k \in DOMAIN slice[q] /\ w = slice[q][k].tag[n]
          \/ WriteTag(p) /\ k = row[p] /\ w = kws[p][i[p]]
      <4>1. CASE slice'[p] = slice[p]
        BY SMTT(30), <3>2, <4>1
      <4>2. CASE Start(p) \/ Parse(p) \/ Crash(p)
        <5>1. \/ slice'[p][k].tag[n] = web[k].tag[n]
              \/ k \in DOMAIN slice[p] /\ slice'[p][k].tag[n] = slice[p][k].tag[n]
              \/ WriteTag(p) /\ k = row[p] /\ n = i[p] /\ slice'[p][k].tag[n] = kws[p][n]
          BY Zenon, <1>p, <4>2, ParserTags
        <5> QED
          BY SMTT(30), <3>2, <5>1
      <4>3. \A q \in Parsers : q # p /\ (Start(q) \/ Parse(q) \/ Crash(q)) => slice'[p] = slice[p]
        BY <1>p, OthersKept
      <4>4. \A c \in Rows : Crawl(c) => slice'[p] = slice[p]
        BY DEF Crawl
      <4>5. UNCHANGED vars => slice'[p] = slice[p]
        BY DEF vars
      <4> QED
        BY Zenon, <4>1, <4>2, <4>3, <4>4, <4>5 DEF Next
    <3>4. Indexed(k, w)'
      BY <2>1, <2>2, <2>4, <3>1, <3>2, <3>3
    <3> QED
      BY <3>2, <3>4 DEF Indexed
  <2> QED
    BY Zenon, <2>3, <2>4
<1> QED
  BY <1>1, <1>2, <1>3 DEF IndexInv

(* Whatever is interrupted, each tag of a page leads back to it through    *)
(* TagTable, as long as the writes of TagTable do not fail; only two       *)
(* parsers in the same microsecond can write over one another's row.       *)
THEOREM TagsAlwaysIndexed == Spec => []TagsIndexed
<1>1. IndexInv => TagsIndexed
  BY DEF IndexInv, TagsIndexed, Indexed
<1> QED
  BY IndexInit, IndexNext, <1>1, PTL DEF Spec
-----------------------------------------------------------------------------
(* The n-th tag of the record r is the n-th keyword of its page.           *)
Keyword(r, n) ==
  n \in DOMAIN KwsOf[r.page[1].doc] /\ r.tag[n] = KwsOf[r.page[1].doc][n]

(* A record has a page, and no other tags than the keywords of it.         *)
Matches(r) == HasPage(r) /\ \A n \in 1 .. MaxKws : r.tag[n] # NoTag => Keyword(r, n)

(* The record r has all keywords of its page as tags.                      *)
Full(r) == HasPage(r) /\ \A n \in DOMAIN KwsOf[r.page[1].doc] : Keyword(r, n)

(* The rows a run still has to visit lie after its cursor, and none of     *)
(* them was left out of the slice.                                         *)
Ahead(p) ==
  \A j \in base[p] \ visited[p] :
    /\ lastKey[p] < j /\ j < Tilde /\ j \in Present
    /\ j \in DOMAIN slice[p] \/ \A m \in DOMAIN slice[p] : m < j

(* The inductive form of RunComplete.                                      *)
CoverInv ==
  /\ PagesInv
  /\ \A k \in Present : Matches(web[k])
  /\ \A p \in Parsers :
       /\ \A k \in DOMAIN slice[p] : Matches(slice[p][k])
       /\ pc[p] \in {"scan", "idle"} => DOMAIN slice[p] = {}
       /\ pc[p] = "tags" => row[p] \in visited[p]
       /\ pc[p] = "tags" => \A n \in 1 .. i[p] - 1 : Keyword(slice[p][row[p]], n)
       /\ Ahead(p)
       /\ pc[p] = "done" => base[p] \subseteq visited[p]
       /\ "row_write" \notin Faults => \A k \in visited[p] \cap Wanted :
            Full(web[k]) \/ (pc[p] = "tags" /\ row[p] = k)

(* A finite set of numbers is bounded: a smallest one that was not would   *)
(* be bounded without one of its elements.                                 *)
LEMMA FiniteBounded ==
  ASSUME NEW S \in SUBSET Nat, IsFiniteSet(S)
  PROVE  \E b \in Nat : \A x \in S : x <= b
<1> DEFINE Free(U) == ~ \E b \in Nat : \A x \in U : x <= b
           N == {n \in Nat : \E U \in SUBSET Nat :
                   IsFiniteSet(U) /\ Cardinality(U) = n /\ Free(U)}
<1> SUFFICES ASSUME Free(S) PROVE FALSE
  OBVIOUS
<1>1. Cardinality(S) \in N
  BY FS_CardinalityType
<1>2. PICK n \in N : \A m \in N : n <= m
  BY Zenon, <1>1, LeastNat
<1>3. PICK U \in SUBSET Nat : IsFiniteSet(U) /\ Cardinality(U) = n /\ Free(U)
  BY <1>2
<1>4. U # {}
  BY <1>3
<1>5. PICK x : x \in U
  BY <1>4
<1>6. IsFiniteSet(U \ {x}) /\ Cardinality(U \ {x}) = n - 1
  BY <1>3, <1>5, FS_RemoveElement
<1>7. Cardinality(U \ {x}) \in Nat
  BY <1>6, FS_CardinalityType
<1>8. n - 1 \notin N
  BY <1>2
<1>9. ~ Free(U \ {x})
  BY Zenon, <1>6, <1>7, <1>8
<1>10. PICK b \in Nat : \A y \in U \ {x} : y <= b
  BY <1>9
<1>11. \A y \in U : y <= b + x
  BY <1>5, <1>10
<1>12. b + x \in Nat
  BY <1>5, <1>10
<1> QED
  BY Zenon, <1>3, <1>11, <1>12

(* MaxKws is enough for the tags of every page.                            *)
LEMMA MaxKwsFacts ==
  MaxKws \in Nat /\ \A d \in Docs : Len(KwsOf[d]) \in Nat /\ Len(KwsOf[d]) <= MaxKws
<1> DEFINE f == [d \in Docs |-> Len(KwsOf[d])]
           L == {Len(KwsOf[d]) : d \in Docs}
           S == L \cup {0}
<1>1. \A d \in Docs : Len(KwsOf[d]) \in Nat
  BY KwsOfAssumption
<1>2. f \in Surjection(Docs, L)
  BY DEF Surjection
<1>3. IsFiniteSet(L) /\ L \in SUBSET Nat
  BY <1>1, <1>2, FS_Surjection, KwsOfAssumption
<1> HIDE DEF L
<1>4. IsFiniteSet(S) /\ S \in SUBSET Nat /\ 0 \in S
  BY <1>3, FS_AddElement
<1> HIDE DEF S
<1> DEFINE B == {b \in Nat : \A x \in S : x <= b}
<1>5. B \in SUBSET Nat /\ B # {}
  BY <1>4, FiniteBounded
<1>6. PICK b \in B : \A c \in B : b <= c
  BY Zenon, <1>5, LeastNat
<1>7. b \in S
  <2> SUFFICES ASSUME b \notin S PROVE FALSE
    OBVIOUS
  <2>1. b \in Nat /\ b # 0 /\ \A x \in S : x <= b /\ x # b /\ x \in Nat
    BY <1>4, <1>6
  <2>2. b - 1 \in Nat /\ \A x \in S : x <= b - 1
    BY <2>1
  <2>3. b - 1 \in B
    BY <2>2
  <2> HIDE DEF B
  <2> QED
    BY <1>6, <2>1, <2>3
<1>8. b \in S /\ \A y \in S : b >= y
  BY <1>4, <1>6, <1>7
<1>9. Max(S) \in S /\ \A y \in S : Max(S) >= y
  BY Zenon, <1>8 DEF Max
<1>10. MaxKws = Max(S)
  BY DEF MaxKws, S, L
<1> QED
  BY <1>1, <1>4, <1>9, <1>10 DEF S, L

(* Tags and the first version are all that Matches and Full depend on.     *)
LEMMA SameKeywords ==
  ASSUME NEW r, NEW q, r.page[1].doc = q.page[1].doc, NEW n, r.tag[n] = q.tag[n],
         Keyword(q, n)
  PROVE  Keyword(r, n)
BY DEF Keyword

(* A page that has a version keeps its first one, with its content.        *)
LEMMA FirstKept ==
  ASSUME PagesInv, [Next]_vars, NEW k \in Rows, HasPage(web[k])
  PROVE  HasPage(web'[k]) /\ web'[k].page[1].doc = web[k].page[1].doc
<1>1. FromFirst(web[k]) /\ web[k] \in Record
  BY DEF PagesInv, TypeOK
<1>2. 1 \in Stamps /\ web[k].page[1] # NoHtml
  BY <1>1, OldestFirst DEF FromFirst
<1>3. KeepsRow(k)
  BY StepKeeps
<1>4. Agree(web'[k].page[1], web[k].page[1])
  BY <1>2, <1>3 DEF KeepsRow
<1> QED
  BY <1>2, <1>4 DEF Agree, HasPage

(* The record a parser holds of a row has the content of the row.          *)
LEMMA SameFirst ==
  ASSUME PagesInv, NEW p \in Parsers, NEW k \in DOMAIN slice[p], HasPage(slice[p][k])
  PROVE  /\ k \in Present /\ HasPage(web[k])
         /\ web[k].page[1].doc = slice[p][k].page[1].doc
<1>1. /\ FromFirst(slice[p][k]) /\ Held(k, slice[p][k]) /\ slice[p] \in Slices
      /\ web \in [Rows -> Record]
  BY DEF PagesInv, TypeOK
<1>2. slice[p][k] \in Record /\ k \in Rows
  BY <1>1, SliceFacts
<1>3. 1 \in Stamps /\ slice[p][k].page[1] # NoHtml
  BY <1>1, <1>2, OldestFirst DEF FromFirst
<1>4. /\ web[k].page[1] # NoHtml
      /\ web[k].page[1].doc = slice[p][k].page[1].doc
  BY Zenon, <1>1, <1>3 DEF Held, Agree
<1>5. web[k] # EmptyRecord
  BY SMTT(30), <1>3, <1>4 DEF EmptyRecord
<1> QED
  BY <1>2, <1>3, <1>4, <1>5 DEF HasPage, Present

(* When a parser is about to write its row, the record has all keywords.   *)
LEMMA AllTagged ==
  ASSUME CoverInv, NEW p \in Parsers, WriteRow(p)
  PROVE  row[p] \in DOMAIN slice[p] /\ Full(slice[p][row[p]])
<1> DEFINE r == slice[p][row[p]]
           ks == KwsOf[r.page[1].doc]
<1>1. row[p] \in DOMAIN slice[p] /\ HasPage(r) /\ kws[p] = ks
  BY Zenon DEF CoverInv, PagesInv, Writing, WriteRow
<1>2. i[p] > Len(ks) /\ \A n \in 1 .. i[p] - 1 : Keyword(r, n)
  BY Zenon, <1>1 DEF CoverInv, WriteRow
<1>3. i[p] \in Nat /\ ks \in Seq(Keywords)
  BY ZenonT(30), <1>1 DEF CoverInv, PagesInv, TypeOK
<1> HIDE DEF ks, r
<1>4. \A n \in DOMAIN ks : n \in 1 .. i[p] - 1
  BY <1>2, <1>3
<1> QED
  BY Zenon, <1>1, <1>2, <1>4 DEF Full, ks, r

(* The write of the page's row that does not fail.                         *)
Saves(p) == WriteRow(p) /\ web' = [web EXCEPT ![row[p]] = Stored(@, slice[p][row[p]])]

(* No step takes a tag off a page that has them all, and none gives a page *)
(* a tag that is not a keyword of it.                                      *)
LEMMA WebStep ==
  ASSUME CoverInv, [Next]_vars, NEW k \in Rows
  PROVE  /\ k \in Present => web'[k] # EmptyRecord
         /\ web'[k] # EmptyRecord => Matches(web'[k])
         /\ Full(web[k]) => Full(web'[k])
         /\ \A p \in Parsers : Saves(p) /\ row[p] = k => Full(web'[k])
<1>p. PagesInv /\ web \in [Rows -> Record] /\ web[k] \in Record
  BY Zenon DEF CoverInv, PagesInv, TypeOK
<1>m. k \in Present => Matches(web[k])
  BY DEF CoverInv
<1>1. ASSUME web' = web
      PROVE  /\ k \in Present => web'[k] # EmptyRecord
             /\ web'[k] # EmptyRecord => Matches(web'[k])
             /\ Full(web[k]) => Full(web'[k])
  <2>1. web'[k] = web[k]
    BY <1>1
  <2> QED
    BY <2>1, <1>m DEF Present
<1>2. ASSUME NEW c \in Rows, Crawl(c)
      PROVE  /\ web'[k] # EmptyRecord => Matches(web'[k])
             /\ Full(web[k]) => Full(web'[k])
             /\ k \in Present => web'[k] # EmptyRecord
  <2>1. PICK s \in Stamps, h \in Html : web' = [web EXCEPT ![c].page[s] = h]
    BY Zenon, <1>2 DEF Crawl
  <2>2. web[k] = [page |-> web[k].page, tag |-> web[k].tag]
    BY <1>p, RecordFacts
  <2>3. web'[k].tag = web[k].tag
    BY <1>p, <2>1, <2>2
  <2>4. ASSUME HasPage(web[k])
        PROVE  /\ web'[k] # EmptyRecord /\ Matches(web'[k])
               /\ Full(web[k]) => Full(web'[k])
    <3>1. HasPage(web'[k]) /\ web'[k].page[1].doc = web[k].page[1].doc
      BY SMTT(30), <1>p, <2>4, FirstKept
    <3>2. web[k] # EmptyRecord
      BY <2>4 DEF HasPage, EmptyRecord
    <3>3. Matches(web[k])
      BY <1>m, <3>2 DEF Present
    <3>4. \A n : Keyword(web[k], n) => Keyword(web'[k], n)
      BY Zenon, <2>3, <3>1, SameKeywords
    <3>5. web'[k] # EmptyRecord
      BY SMTT(30), <3>1 DEF HasPage, EmptyRecord
    <3> QED
      BY Zenon, <2>3, <3>1, <3>3, <3>4, <3>5 DEF Matches, Full
  <2>5. ASSUME ~HasPage(web[k])
        PROVE  /\ web[k] = EmptyRecord /\ ~Full(web[k])
               /\ web'[k] # EmptyRecord => Matches(web'[k])
    <3>1. web[k] = EmptyRecord
      BY <1>m, <2>5 DEF Present, Matches
    <3>2. CASE k # c
      BY <1>p, <2>1, <2>5, <3>1, <3>2 DEF Full
    <3>3. CASE k = c
      <4>1. web'[k].page = [web[k].page EXCEPT ![s] = h]
        BY SMTT(30), <1>p, <2>1, <2>2, <3>3
      <4>2. web[k].page \in [Stamps -> Html \cup {NoHtml}]
        BY SMTT(30), <1>p, RecordFacts
      <4>3. web'[k].page[s] = h /\ h # NoHtml
        BY <4>1, <4>2, HtmlFacts
      <4>4. HasPage(web'[k])
        BY <4>3 DEF HasPage
      <4>5. \A n \in 1 .. MaxKws : web'[k].tag[n] = NoTag
        BY <2>3, <3>1 DEF EmptyRecord
      <4> QED
        BY SMTT(30), <2>5, <3>1, <4>4, <4>5 DEF Matches, Full
    <3> QED
      BY <3>2, <3>3
  <2> QED
    BY <2>4, <2>5 DEF Present
<1>3. ASSUME NEW p \in Parsers, Saves(p)
      PROVE  /\ web'[k] # EmptyRecord => Matches(web'[k])
             /\ Full(web[k]) => Full(web'[k])
             /\ k \in Present => web'[k] # EmptyRecord
             /\ row[p] = k => Full(web'[k])
  <2>1. web' = [web EXCEPT ![row[p]] = Stored(@, slice[p][row[p]])]
    BY <1>3 DEF Saves
  <2>2. CASE k # row[p]
    BY Zenon, <1>m, <1>p, <2>1, <2>2 DEF Present
  <2>3. CASE k = row[p]
    <3> DEFINE q == slice[p][k]
               r == web[k]
               z == web'[k]
    <3>1. k \in DOMAIN slice[p] /\ Full(q) /\ Matches(q)
      BY Zenon, <1>3, <2>3, AllTagged DEF CoverInv, Saves
    <3>2. k \in Present /\ HasPage(r) /\ r.page[1].doc = q.page[1].doc
      BY Zenon, <1>p, <3>1, SameFirst DEF Matches
    <3>3. HasPage(z) /\ z.page[1].doc = r.page[1].doc
      BY Zenon, <1>p, <3>2, FirstKept
    <3>4. z = Stored(r, q) /\ Matches(r)
      BY Zenon, <1>m, <1>p, <2>1, <2>3, <3>2
    <3>5. q \in Record /\ r \in Record
      <4>1. slice[p] \in Slices
        BY <1>p, PagesFacts
      <4>2. slice[p] \in [DOMAIN slice[p] -> Record]
        BY <4>1, SliceFacts
      <4> QED
        BY SMTT(30), <1>p, <3>1, <4>2
    <3>6. q.page[1].doc \in Docs
      <4>1. FromFirst(q)
        BY SMTT(30), <3>1 DEF CoverInv, PagesInv
      <4>2. q.page[1] \in Html
        BY Zenon, <3>1, <3>5, <4>1, OldestFirst DEF Full
      <4> QED
        BY <4>2, HtmlFacts
    <3> HIDE DEF q, r, z
    <3>7. \A n \in 1 .. MaxKws : /\ z.tag[n] \in {r.tag[n], q.tag[n]}
                                 /\ q.tag[n] # NoTag => z.tag[n] = q.tag[n]
      BY SMTT(30), <3>4 DEF Stored
    <3>8. \A n \in DOMAIN KwsOf[q.page[1].doc] :
            n \in 1 .. MaxKws /\ KwsOf[q.page[1].doc][n] # NoTag
      BY <3>6, MaxKwsFacts, KwsOfAssumption, NoneAssumption
    <3>9. \A n \in DOMAIN KwsOf[q.page[1].doc] : Keyword(z, n)
      BY Zenon, <3>1, <3>2, <3>3, <3>7, <3>8 DEF Full, Keyword
    <3>10. Full(z)
      BY Zenon, <3>2, <3>3, <3>9 DEF Full
    <3>11. Matches(z)
      BY ZenonT(30), <3>1, <3>2, <3>3, <3>4, <3>7 DEF Matches, Keyword
    <3>12. z # EmptyRecord
      BY SMTT(30), <3>3 DEF HasPage, EmptyRecord
    <3> QED
      BY Zenon, <3>10, <3>11, <3>12 DEF z
  <2> QED
    BY SMTT(30), <2>2, <2>3
<1>4. \A p \in Parsers : Start(p) \/ Scan(p) \/ TakeRow(p) \/ NextBatch(p) \/ WriteTag(p)
                           \/ Exit(p) \/ Crash(p) => web' = web
  BY ZenonT(30) DEF Start, Scan, TakeRow, NextBatch, WriteTag, Exit, Crash, End
<1>5. \A p \in Parsers : WriteRow(p) => Saves(p) \/ web' = web
  BY Zenon DEF WriteRow, Saves
<1>6. UNCHANGED vars => web' = web
  BY DEF vars
<1>7. \A p \in Parsers : Saves(p) /\ row[p] = k => Full(web'[k])
  BY <1>3
<1>8. web' = web \/ (\E c \in Rows : Crawl(c)) \/ (\E p \in Parsers : Saves(p))
  BY Zenon, <1>4, <1>5, <1>6 DEF Next, Parse
<1> QED
  BY Zenon, <1>1, <1>2, <1>3, <1>7, <1>8

(* The records of a slice have no other tags than keywords.                *)
LEMMA SliceMatches ==
  ASSUME CoverInv, NEW p \in Parsers, Start(p) \/ Parse(p) \/ Crash(p),
         NEW k \in DOMAIN slice'[p]
  PROVE  /\ Matches(slice'[p][k])
         /\ k \in DOMAIN slice[p] =>
              slice'[p][k].page[1].doc = slice[p][k].page[1].doc
<1>p. PagesInv /\ slice \in [Parsers -> Slices] /\ web \in [Rows -> Record]
  BY Zenon DEF CoverInv, PagesInv, TypeOK
<1> DEFINE z == slice'[p][k]
<1>1. PICK t : NewSlice(p, t)
  BY <1>p, ParserSlice
<1>2. slice'[p] = t
  BY <1>1, <1>p DEF NewSlice
<1>3. \/ z = web[k] /\ k \in Present
      \/ k \in DOMAIN slice[p] /\ SamePages(z, slice[p][k])
  BY <1>1, <1>2 DEF NewSlice
<1>4. ASSUME k \in DOMAIN slice[p]
      PROVE  /\ k \in Present /\ web[k].page[1].doc = slice[p][k].page[1].doc
             /\ Matches(slice[p][k])
  <2>1. Matches(slice[p][k])
    BY Zenon, <1>4 DEF CoverInv
  <2>2. HasPage(slice[p][k])
    BY <2>1 DEF Matches
  <2> QED
    BY <1>p, <1>4, <2>1, <2>2, SameFirst
<1>5. k \in Present
  BY Zenon, <1>3, <1>4
<1>6. Matches(web[k])
  BY Zenon, <1>5 DEF CoverInv
<1>7. HasPage(z) /\ z.page[1].doc = web[k].page[1].doc
  <2>1. CASE z = web[k]
    BY Zenon, <2>1, <1>6 DEF Matches
  <2>2. CASE k \in DOMAIN slice[p] /\ SamePages(z, slice[p][k])
    <3> DEFINE q == slice[p][k]
    <3>1. HasPage(q) /\ q \in Record /\ FromFirst(q)
      BY SMTT(30), <1>p, <1>4, <2>2, SliceFacts DEF Matches, PagesInv
    <3>2. 1 \in Stamps /\ q.page[1] # NoHtml
      BY Zenon, <3>1, OldestFirst DEF FromFirst
    <3> HIDE DEF q
    <3>3. z.page[1] # NoHtml /\ z.page[1].doc = q.page[1].doc
      <4>1. Agree(z.page[1], q.page[1])
        BY SMTT(30), <2>2, <3>2 DEF SamePages, q
      <4> QED
        BY Zenon, <3>2, <4>1 DEF Agree
    <3> QED
      BY Zenon, <1>4, <2>2, <3>2, <3>3 DEF HasPage, q
  <2> QED
    BY Zenon, <1>3, <2>1, <2>2
<1>8. ASSUME NEW n \in 1 .. MaxKws, z.tag[n] # NoTag PROVE Keyword(z, n)
  <2>1. CASE z.tag[n] = web[k].tag[n]
    BY Zenon, <1>6, <1>7, <1>8, <2>1, SameKeywords DEF Matches
  <2>2. CASE k \in DOMAIN slice[p] /\ z.tag[n] = slice[p][k].tag[n]
    BY Zenon, <1>4, <1>7, <1>8, <2>2, SameKeywords DEF Matches
  <2>3. CASE WriteTag(p) /\ k = row[p] /\ n = i[p] /\ z.tag[n] = kws[p][n]
    <3>1. k \in DOMAIN slice[p] /\ kws[p] = KwsOf[slice[p][k].page[1].doc] /\ n \in DOMAIN kws[p]
      BY SMTT(30), <1>p, <2>3 DEF PagesInv, TypeOK, Writing, WriteTag
    <3>2. z.page[1].doc = slice[p][k].page[1].doc
      BY Zenon, <1>4, <1>7, <3>1
    <3> QED
      BY Zenon, <2>3, <3>1, <3>2 DEF Keyword
  <2> QED
    BY ZenonT(30), <1>p, <2>1, <2>2, <2>3, ParserTags
<1> QED
  BY Zenon, <1>4, <1>7, <1>8 DEF Matches

(* The loop over the keywords tags the record with one after the other.    *)
LEMMA TagProgress ==
  ASSUME CoverInv, NEW p \in Parsers, Start(p) \/ Parse(p) \/ Crash(p),
         pc'[p] = "tags", NEW n \in 1 .. i'[p] - 1
  PROVE  Keyword(slice'[p][row'[p]], n)
<1>p. PagesInv /\ slice \in [Parsers -> Slices] /\ LocalsOK
  BY Zenon DEF CoverInv, PagesInv, TypeOK, LocalsOK
<1>1. CASE WriteTag(p)
  <2> DEFINE k == row[p]
             m == i[p]
             w == kws[p][m]
             t == [slice[p] EXCEPT ![k].tag[m] = w]
  <2> DEFINE ks == KwsOf[slice[p][k].page[1].doc]
  <2>1. /\ k \in DOMAIN slice[p] /\ m \in Nat \ {0} /\ w \in Keywords
        /\ kws[p] = ks /\ m <= Len(ks) /\ ks \in Seq(Keywords) /\ w = ks[m]
    <3>1. pc[p] = "tags" /\ m <= Len(kws[p])
      BY SMTT(30), <1>1 DEF WriteTag
    <3>2. k \in DOMAIN slice[p] /\ kws[p] = ks
      BY Zenon, <1>p, <3>1 DEF PagesInv, Writing
    <3>3. m \in Nat \ {0} /\ kws[p] \in Seq(Keywords)
      BY Zenon, <1>p DEF LocalsOK
    <3> HIDE DEF m, ks
    <3>4. kws[p][m] \in Keywords
      BY <3>1, <3>3
    <3> QED
      BY SMTT(30), <3>1, <3>2, <3>3, <3>4
  <2>2. slice'[p] = t /\ row'[p] = k /\ i'[p] = m + 1 /\ pc[p] = "tags"
    BY <1>1, <1>p DEF WriteTag, LocalsOK
  <2>3. HasPage(slice[p][k]) /\ FromFirst(slice[p][k]) /\ slice[p][k] \in Record
    <3>1. HasPage(slice[p][k]) /\ slice[p] \in Slices
      BY Zenon, <1>1, <1>p DEF PagesInv, Writing, WriteTag
    <3> QED
      BY Zenon, <1>p, <2>1, <3>1, SliceFacts DEF PagesInv
  <2>4. \A j \in 1 .. m - 1 : Keyword(slice[p][k], j)
    BY SMTT(30), <2>2 DEF CoverInv
  <2> HIDE DEF k, m, w
  <2>5. slice[p][k].page[1].doc \in Docs
    BY Zenon, <2>3, OldestFirst, HtmlFacts
  <2>6. MaxKws \in Nat /\ Len(ks) \in Nat /\ Len(ks) <= MaxKws
    BY Zenon, <2>5, MaxKwsFacts
  <2>7. IsTagged(t, slice[p], k, m, w)
    <3>1. k \in DOMAIN slice[p] /\ m \in Nat /\ w \in Keywords
      BY Zenon, <2>1
    <3> HIDE DEF ks
    <3> QED
      BY <1>p, <3>1, TaggedSlice
  <2>8. k \in DOMAIN t
    BY Zenon, <2>1
  <2> HIDE DEF t, ks
  <2>9. n \in 1 .. m
    <3>1. \A x : x = m + 1 /\ n \in 1 .. x - 1 => n \in 1 .. m
      BY <2>1
    <3> QED
      BY <2>2, <3>1
  <2>10. n \in 1 .. MaxKws /\ n \in DOMAIN ks
    BY <2>1, <2>6, <2>9
  <2>11. t[k].page = slice[p][k].page
    BY SMTT(30), <2>7, <2>8 DEF IsTagged
  <2>12. Keyword(t[k], n)
    <3>1. CASE n = m
      <4>1. t[k].tag[n] = ks[n]
        BY Zenon, <2>1, <2>7, <2>8, <2>10, <3>1 DEF IsTagged
      <4> QED
        BY Zenon, <2>10, <2>11, <4>1 DEF Keyword, ks
    <3>2. CASE n # m
      <4>1. n \in 1 .. m - 1
        BY <2>1, <2>9, <3>2
      <4>2. Keyword(slice[p][k], n)
        BY <2>4, <4>1
      <4>3. t[k].tag[n] = slice[p][k].tag[n]
        BY Zenon, <2>7, <2>8, <2>10, <3>2 DEF IsTagged
      <4> QED
        BY Zenon, <2>11, <4>2, <4>3 DEF Keyword
    <3> QED
      BY <3>1, <3>2
  <2> QED
    BY Zenon, <2>2, <2>12
<1>2. CASE ~WriteTag(p)
  <2>0. p \in DOMAIN pc
    BY Zenon, <1>p DEF LocalsOK
  <2>1. TakeRow(p) /\ i' = [i EXCEPT ![p] = 1]
    <3>1. ~Start(p) /\ ~Scan(p) /\ ~NextBatch(p) /\ ~WriteRow(p) /\ ~Exit(p) /\ ~Crash(p)
      BY Zenon, <2>0 DEF Start, Scan, NextBatch, WriteRow, Exit, Crash, End, Goto
    <3>2. TakeRow(p)
      BY Zenon, <1>2, <3>1 DEF Parse
    <3>3. pc[p] # "tags"
      BY Zenon, <3>2 DEF TakeRow
    <3> QED
      BY Zenon, <3>2, <3>3 DEF TakeRow
  <2>2. i'[p] = 1
    BY <2>1, <1>p DEF LocalsOK
  <2>3. \A x : x = 1 => 1 .. x - 1 = {}
    OBVIOUS
  <2> QED
    BY Zenon, <2>2, <2>3
<1> QED
  BY Zenon, <1>1, <1>2

(* A row the run has still to visit lies past last_key and is in the       *)
(* slice, or past all of it.                                               *)
LEMMA AheadStep ==
  ASSUME CoverInv, NEW p \in Parsers, Start(p) \/ Parse(p) \/ Crash(p),
         NEW j \in base'[p] \ visited'[p]
  PROVE  /\ lastKey'[p] < j /\ j < Tilde /\ j \in Present
         /\ j \in DOMAIN slice'[p] \/ \A m \in DOMAIN slice'[p] : m < j
<1> DEFINE D == DOMAIN slice[p]
<1>t. LocalsOK /\ slice \in [Parsers -> Slices] /\ PagesInv
  BY Zenon, PagesFacts DEF CoverInv
<1>d. D \in SUBSET Nat
  BY <1>t, SliceFacts DEF Rows
<1>a. /\ \A l \in base[p] \ visited[p] :
           /\ lastKey[p] < l /\ l < Tilde /\ l \in Present
           /\ l \in D \/ \A m \in D : m < l
      /\ pc[p] \in {"scan", "idle"} => D = {}
      /\ pc[p] = "tags" => row[p] \in visited[p]
  BY Zenon DEF CoverInv, Ahead
<1>n. j \in Nat \/ j \notin Present
  BY DEF Present, Rows
<1>1. CASE Start(p)
  <2>1. PICK k \in {0} \cup Rows : lastKey'[p] = k /\ base'[p] = Below(k)
    BY SMTT(30), <1>1, <1>t DEF Start, LocalsOK
  <2>2. DOMAIN slice'[p] = {}
    BY Zenon, <1>1, <1>a DEF Start
  <2> QED
    BY Zenon, <2>1, <2>2 DEF Below
<1>2. CASE Scan(p)
  <2>1. lastKey'[p] = lastKey[p] /\ base'[p] = base[p] /\ visited'[p] = visited[p] /\ D = {}
    BY Zenon, <1>2, <1>a DEF Scan
  <2>2. j \in Below(lastKey[p]) /\ lastKey'[p] < j /\ j < Tilde /\ j \in Present
    BY Zenon, <1>a, <2>1 DEF Below
  <2>3. CASE slice' = slice
    BY Zenon, <2>1, <2>2, <2>3
  <2>4. ASSUME NEW b \in Batches(lastKey[p]), slice' = [slice EXCEPT ![p] = [k \in b |-> web[k]]]
        PROVE  j \in DOMAIN slice'[p] \/ \A m \in DOMAIN slice'[p] : m < j
    <3>1. DOMAIN slice'[p] = b
      BY SMTT(30), <1>t, <2>4
    <3>2. PICK m \in Below(lastKey[p]) : b = {l \in Below(lastKey[p]) : l <= m}
      BY DEF Batches
    <3>3. m \in Nat /\ j \in Nat /\ \A l \in b : l \in Nat /\ l <= m
      BY <1>n, <2>2, <3>2 DEF Below, Present, Rows
    <3>4. CASE j <= m
      BY Zenon, <2>2, <3>1, <3>2, <3>4
    <3>5. CASE ~ (j <= m)
      BY SMTT(30), <3>1, <3>3, <3>5
    <3> QED
      BY SMTT(30), <3>4, <3>5
  <2> QED
    BY Zenon, <1>2, <2>2, <2>3, <2>4 DEF Scan
<1>3. CASE TakeRow(p)
  <2> DEFINE k == Min(D)
  <2>1. D # {} /\ pc[p] = "rows"
    BY Zenon, <1>3 DEF TakeRow
  <2>2. k \in D /\ \A y \in D : k <= y
    BY SMTT(30), <1>d, <2>1, MinFacts
  <2>3. lastKey'[p] = k /\ base'[p] = base[p] /\ visited'[p] = visited[p] \cup {k}
    BY Zenon, <1>3, <1>t DEF TakeRow, LocalsOK, CursorPast
  <2>4. DOMAIN slice'[p] = D \/ DOMAIN slice'[p] = D \ {k}
    <3>1. CASE slice' = [slice EXCEPT ![p] = Rest(p)]
      BY SMTT(30), <1>t, <3>1 DEF Rest
    <3>2. CASE \E s, h : slice' = [slice EXCEPT ![p][k].page[s] = h]
      BY <1>t, <3>2
    <3> QED
      BY Zenon, <1>3, <3>1, <3>2 DEF TakeRow
  <2> HIDE DEF k, D
  <2>5. j \in base[p] \ visited[p] /\ j # k
    BY <2>3
  <2>6. j < Tilde /\ j \in Present /\ j \in Nat /\ (j \in D \/ \A m \in D : m < j)
    BY <1>a, <1>n, <2>5
  <2>7. k < j
    BY SMTT(30), <1>d, <2>2, <2>5, <2>6
  <2> QED
    BY SMTT(30), <2>3, <2>4, <2>5, <2>6, <2>7
<1>4. CASE NextBatch(p) \/ WriteTag(p)
  <2>1. lastKey'[p] = lastKey[p] /\ base'[p] = base[p] /\ visited'[p] = visited[p]
    BY Zenon, <1>4 DEF NextBatch, WriteTag
  <2>2. DOMAIN slice'[p] = D
    BY SMTT(30), <1>4, <1>t DEF NextBatch, WriteTag
  <2> QED
    BY Zenon, <1>a, <2>1, <2>2
<1>5. CASE WriteRow(p)
  <2>1. lastKey'[p] = lastKey[p] /\ base'[p] = base[p] /\ visited'[p] = visited[p]
    BY Zenon, <1>5 DEF WriteRow
  <2>2. DOMAIN slice'[p] = D \ {Min(D)}
    BY <1>5, <1>t DEF WriteRow, Rest
  <2>3. row[p] \in D /\ \A y \in D : row[p] <= y
    BY Zenon, <1>5, <1>t DEF WriteRow, PagesInv, Writing
  <2>4. Min(D) \in D /\ \A y \in D : Min(D) <= y
    BY Zenon, <1>d, <2>3, MinFacts
  <2> HIDE DEF D
  <2>5. Min(D) = row[p]
    <3> DEFINE m == Min(D)
               r == row[p]
    <3>1. m \in Nat /\ r \in Nat
      BY Zenon, <1>d, <2>3, <2>4
    <3>2. m <= r /\ r <= m
      BY Zenon, <2>3, <2>4
    <3> HIDE DEF m, r
    <3>3. m = r
      BY SMTT(30), <3>1, <3>2
    <3> QED
      BY Zenon, <3>3 DEF m, r
  <2>6. j # row[p]
    BY Zenon, <1>5, <1>a, <2>1 DEF WriteRow
  <2> QED
    BY SMTT(30), <1>a, <2>1, <2>2, <2>5, <2>6
<1>6. CASE Exit(p) \/ Crash(p)
  <2>1. base'[p] = {}
    BY Zenon, <1>6, <1>t DEF Exit, Crash, End, LocalsOK
  <2> QED
    BY Zenon, <2>1
<1> QED
  BY Zenon, <1>1, <1>2, <1>3, <1>4, <1>5, <1>6 DEF Parse

(* A run ends when nothing is left past last_key, so nothing is left to    *)
(* visit.                                                                  *)
LEMMA DoneStep ==
  ASSUME CoverInv, NEW p \in Parsers, Start(p) \/ Parse(p) \/ Crash(p), pc'[p] = "done"
  PROVE  base'[p] \subseteq visited'[p]
<1>t. LocalsOK
  BY Zenon, PagesFacts DEF CoverInv
<1>1. ~Start(p) /\ ~NextBatch(p) /\ ~WriteRow(p) /\ ~Exit(p) /\ ~Crash(p)
  BY Zenon, <1>t DEF LocalsOK, Start, NextBatch, WriteRow, Exit, Crash, End, Goto
<1>2. ~TakeRow(p) /\ ~WriteTag(p)
  BY Zenon, <1>t DEF LocalsOK, TakeRow, WriteTag, Goto
<1>3. Scan(p)
  BY Zenon, <1>1, <1>2 DEF Parse
<1>4. Below(lastKey[p]) = {} /\ base' = base /\ visited' = visited
  BY Zenon, <1>3, <1>t DEF Scan, Goto, LocalsOK
<1>5. \A j \in base[p] \ visited[p] : j \in Below(lastKey[p])
  BY Zenon DEF CoverInv, Ahead, Below
<1> QED
  BY Zenon, <1>4, <1>5

(* Every row a run has visited has its keywords, unless it is the one the  *)
(* parser is at.                                                           *)
LEMMA FullStep ==
  ASSUME CoverInv, [Next]_vars, NEW p \in Parsers, Start(p) \/ Parse(p) \/ Crash(p),
         "row_write" \notin Faults, NEW k \in visited'[p] \cap Wanted
  PROVE  Full(web'[k]) \/ (pc'[p] = "tags" /\ row'[p] = k)
<1>t. LocalsOK /\ slice \in [Parsers -> Slices]
  BY Zenon, PagesFacts DEF CoverInv
<1>k. k \in Rows
  BY WantedAssumption
<1>f. /\ Full(web[k]) => Full(web'[k])
      /\ Saves(p) /\ row[p] = k => Full(web'[k])
  BY Zenon, <1>k, WebStep
<1>a. k \in visited[p] => Full(web[k]) \/ (pc[p] = "tags" /\ row[p] = k)
  BY Zenon DEF CoverInv
<1>1. CASE Start(p) \/ Exit(p) \/ Crash(p)
  <2>1. visited'[p] = {}
    BY Zenon, <1>1, <1>t DEF Start, Exit, Crash, End, LocalsOK
  <2> QED
    BY <2>1
<1>2. CASE Scan(p) \/ NextBatch(p)
  <2>1. visited'[p] = visited[p] /\ pc[p] # "tags"
    BY Zenon, <1>2 DEF Scan, NextBatch
  <2> QED
    BY Zenon, <1>a, <1>f, <2>1
<1>3. CASE TakeRow(p)
  <2> DEFINE m == Min(DOMAIN slice[p])
             r == slice[p][m]
  <2>1. DOMAIN slice[p] # {} /\ DOMAIN slice[p] \in SUBSET Nat /\ pc[p] = "rows"
    BY SMTT(30), <1>3, <1>t, SliceFacts DEF TakeRow, Rows
  <2>2. m \in DOMAIN slice[p]
    BY Zenon, <2>1, MinFacts
  <2>3. HasPage(r)
    BY Zenon, <2>2 DEF CoverInv, Matches
  <2>4. visited'[p] = visited[p] \cup {m}
    BY Zenon, <1>3, <1>t DEF TakeRow, LocalsOK
  <2>5. m \in Wanted => pc' = [pc EXCEPT ![p] = "tags"] /\ row' = [row EXCEPT ![p] = m]
    BY Zenon, <1>3, <2>3 DEF TakeRow, Goto
  <2>6. m \in Wanted => pc'[p] = "tags" /\ row'[p] = m
    BY Zenon, <1>t, <2>5 DEF LocalsOK
  <2> HIDE DEF m
  <2>7. k \in visited[p] => Full(web'[k])
    BY SMTT(30), <1>a, <1>f, <2>1
  <2> QED
    BY Zenon, <2>4, <2>6, <2>7
<1>4. CASE WriteTag(p)
  <2>1. visited'[p] = visited[p] /\ pc' = pc /\ row' = row
    BY SMTT(30), <1>4 DEF WriteTag
  <2> QED
    BY Zenon, <1>a, <1>f, <2>1
<1>5. CASE WriteRow(p)
  <2>1. visited'[p] = visited[p] /\ Saves(p)
    BY Zenon, <1>5 DEF WriteRow, Saves
  <2> QED
    BY Zenon, <1>a, <1>f, <2>1
<1> QED
  BY Zenon, <1>1, <1>2, <1>3, <1>4, <1>5 DEF Parse

(* A parser's run is its own: no other step touches it.                    *)
LEMMA RunKept ==
  ASSUME PagesInv, [Next]_vars, NEW p \in Parsers, ~ (Start(p) \/ Parse(p) \/ Crash(p))
  PROVE  /\ pc'[p] = pc[p] /\ row'[p] = row[p] /\ slice'[p] = slice[p]
         /\ i'[p] = i[p] /\ lastKey'[p] = lastKey[p]
         /\ base'[p] = base[p] /\ visited'[p] = visited[p]
<1>t. LocalsOK
  BY PagesFacts
<1>1. CASE UNCHANGED vars \/ \E c \in Rows : Crawl(c)
  BY <1>1 DEF vars, Crawl
<1>2. ASSUME NEW q \in Parsers, Start(q) \/ Parse(q) \/ Crash(q), q # p
      PROVE  /\ pc'[p] = pc[p] /\ row'[p] = row[p] /\ slice'[p] = slice[p]
             /\ i'[p] = i[p] /\ lastKey'[p] = lastKey[p]
             /\ base'[p] = base[p] /\ visited'[p] = visited[p]
  <2>1. pc'[p] = pc[p] /\ row'[p] = row[p] /\ slice'[p] = slice[p]
    BY Zenon, <1>2, OthersKept
  <2>2. CASE Start(q)
    BY Zenon, <1>2, <1>t, <2>1, <2>2 DEF Start, LocalsOK
  <2>3. CASE Scan(q) \/ NextBatch(q)
    BY Zenon, <2>1, <2>3 DEF Scan, NextBatch
  <2>4. CASE TakeRow(q)
    BY Zenon, <1>2, <1>t, <2>1, <2>4 DEF TakeRow, LocalsOK
  <2>5. CASE WriteTag(q)
    BY Zenon, <1>2, <1>t, <2>1, <2>5 DEF WriteTag, LocalsOK
  <2>6. CASE WriteRow(q)
    BY Zenon, <1>2, <1>t, <2>1, <2>6 DEF WriteRow, LocalsOK
  <2>7. CASE Exit(q) \/ Crash(q)
    BY ZenonT(30), <1>2, <1>t, <2>1, <2>7 DEF Exit, Crash, End, LocalsOK
  <2> QED
    BY Zenon, <1>2, <2>2, <2>3, <2>4, <2>5, <2>6, <2>7 DEF Parse
<1> QED
  BY Zenon, <1>1, <1>2 DEF Next

(* Nothing is stored and nobody runs.                                      *)
LEMMA CoverInit == Init => CoverInv
<1> SUFFICES ASSUME Init PROVE CoverInv
  OBVIOUS
<1>1. PagesInv
  BY PagesInit
<1>2. Present = {}
  BY DEF Init, Present
<1>3. \A p \in Parsers : DOMAIN slice[p] = {} /\ pc[p] = "idle" /\ base[p] = {} /\ visited[p] = {}
  BY DEF Init
<1> QED
  BY ZenonT(30), <1>1, <1>2, <1>3 DEF CoverInv, Ahead

(* Where a parser is says what its slice holds and where it has been.      *)
LEMMA PlaceStep ==
  ASSUME CoverInv, NEW p \in Parsers, Start(p) \/ Parse(p) \/ Crash(p)
  PROVE  /\ pc'[p] \in {"scan", "idle"} => DOMAIN slice'[p] = {}
         /\ pc'[p] = "tags" => row'[p] \in visited'[p]
<1>t. LocalsOK /\ slice \in [Parsers -> Slices]
  BY Zenon, PagesFacts DEF CoverInv
<1>a. /\ pc[p] \in {"scan", "idle"} => DOMAIN slice[p] = {}
      /\ pc[p] = "tags" => row[p] \in visited[p]
  BY Zenon DEF CoverInv
<1>1. CASE Start(p)
  BY <1>1, <1>a, <1>t DEF Start, Goto, LocalsOK
<1>2. CASE Scan(p)
  <2>1. pc'[p] \in {"rows", "done", "stopped"}
    BY <1>2, <1>t DEF Scan, Goto, LocalsOK
  <2> QED
    BY <2>1
<1>3. CASE TakeRow(p)
  <2> DEFINE k == Min(DOMAIN slice[p])
  <2>1. pc[p] = "rows" /\ visited'[p] = visited[p] \cup {k}
    BY Zenon, <1>3, <1>t DEF TakeRow, LocalsOK
  <2>2. pc' = pc \/ (pc' = [pc EXCEPT ![p] = "tags"] /\ row' = [row EXCEPT ![p] = k])
    BY Zenon, <1>3 DEF TakeRow, Goto
  <2> HIDE DEF k
  <2> QED
    BY Zenon, <1>t, <2>1, <2>2 DEF LocalsOK
<1>4. CASE NextBatch(p)
  BY <1>4, <1>t DEF NextBatch, Goto, LocalsOK
<1>5. CASE WriteTag(p)
  <2>1. pc' = pc /\ row' = row /\ visited' = visited /\ pc[p] = "tags"
    BY Zenon, <1>5 DEF WriteTag
  <2> QED
    BY <1>a, <2>1
<1>6. CASE WriteRow(p)
  <2>1. pc'[p] = "rows"
    BY Zenon, <1>6, <1>t DEF WriteRow, Goto, LocalsOK
  <2> QED
    BY <2>1
<1>7. CASE Exit(p) \/ Crash(p)
  <2>1. pc'[p] = "idle" /\ slice'[p] = << >>
    BY ZenonT(30), <1>7, <1>t DEF Exit, Crash, End, Goto, LocalsOK
  <2> QED
    BY SMTT(30), <2>1
<1> QED
  BY Zenon, <1>1, <1>2, <1>3, <1>4, <1>5, <1>6, <1>7 DEF Parse

(* Every step keeps the account of the rows a run has visited, of those it *)
(* still has to, and of the tags of both.                                  *)
LEMMA CoverNext == CoverInv /\ [Next]_vars => CoverInv'
<1> SUFFICES ASSUME CoverInv, [Next]_vars
             PROVE  CoverInv'
  OBVIOUS
<1>t. PagesInv
  BY Zenon DEF CoverInv
<1>1. PagesInv'
  BY <1>t, PagesNext
<1>2. \A k \in Rows : /\ k \in Present => k \in Present'
                      /\ k \in Present' => Matches(web'[k])
                      /\ Full(web[k]) => Full(web'[k])
  BY Zenon, WebStep DEF Present
<1>3. \A k : k \in Present => k \in Present'
  <2>1. \A k : k \in Present => k \in Rows
    BY DEF Present
  <2> QED
    BY Zenon, <1>2, <2>1
<1>4. ASSUME NEW p \in Parsers
      PROVE  /\ \A k \in DOMAIN slice'[p] : Matches(slice'[p][k])
             /\ pc'[p] \in {"scan", "idle"} => DOMAIN slice'[p] = {}
             /\ pc'[p] = "tags" => row'[p] \in visited'[p]
             /\ pc'[p] = "tags" => \A n \in 1 .. i'[p] - 1 : Keyword(slice'[p][row'[p]], n)
             /\ \A j \in base'[p] \ visited'[p] :
                  /\ lastKey'[p] < j /\ j < Tilde /\ j \in Present'
                  /\ j \in DOMAIN slice'[p] \/ \A m \in DOMAIN slice'[p] : m < j
             /\ pc'[p] = "done" => base'[p] \subseteq visited'[p]
             /\ "row_write" \notin Faults => \A k \in visited'[p] \cap Wanted :
                  Full(web'[k]) \/ (pc'[p] = "tags" /\ row'[p] = k)
  <2>1. CASE Start(p) \/ Parse(p) \/ Crash(p)
    <3>1. \A k \in DOMAIN slice'[p] : Matches(slice'[p][k])
      BY ZenonT(30), <2>1, SliceMatches
    <3>2. /\ pc'[p] \in {"scan", "idle"} => DOMAIN slice'[p] = {}
          /\ pc'[p] = "tags" => row'[p] \in visited'[p]
      BY Zenon, <2>1, PlaceStep
    <3>3. pc'[p] = "tags" => \A n \in 1 .. i'[p] - 1 : Keyword(slice'[p][row'[p]], n)
      BY Zenon, <2>1, TagProgress
    <3>4. \A j \in base'[p] \ visited'[p] :
            /\ lastKey'[p] < j /\ j < Tilde /\ j \in Present
            /\ j \in DOMAIN slice'[p] \/ \A m \in DOMAIN slice'[p] : m < j
      BY Zenon, <2>1, AheadStep
    <3>5. pc'[p] = "done" => base'[p] \subseteq visited'[p]
      BY Zenon, <2>1, DoneStep
    <3>6. "row_write" \notin Faults => \A k \in visited'[p] \cap Wanted :
            Full(web'[k]) \/ (pc'[p] = "tags" /\ row'[p] = k)
      BY Zenon, <2>1, FullStep
    <3> QED
      BY Zenon, <1>3, <3>1, <3>2, <3>3, <3>4, <3>5, <3>6
  <2>2. CASE ~ (Start(p) \/ Parse(p) \/ Crash(p))
    <3>1. /\ pc'[p] = pc[p] /\ row'[p] = row[p] /\ slice'[p] = slice[p]
          /\ i'[p] = i[p] /\ lastKey'[p] = lastKey[p]
          /\ base'[p] = base[p] /\ visited'[p] = visited[p]
      BY Zenon, <1>t, <2>2, RunKept
    <3>2. /\ \A k \in DOMAIN slice[p] : Matches(slice[p][k])
          /\ pc[p] \in {"scan", "idle"} => DOMAIN slice[p] = {}
          /\ pc[p] = "tags" => row[p] \in visited[p]
          /\ pc[p] = "tags" => \A n \in 1 .. i[p] - 1 : Keyword(slice[p][row[p]], n)
          /\ \A j \in base[p] \ visited[p] :
               /\ lastKey[p] < j /\ j < Tilde /\ j \in Present
               /\ j \in DOMAIN slice[p] \/ \A m \in DOMAIN slice[p] : m < j
          /\ pc[p] = "done" => base[p] \subseteq visited[p]
          /\ "row_write" \notin Faults => \A k \in visited[p] \cap Wanted :
               Full(web[k]) \/ (pc[p] = "tags" /\ row[p] = k)
      BY Zenon DEF CoverInv, Ahead
    <3>3. \A k \in Wanted : Full(web[k]) => Full(web'[k])
      BY Zenon, <1>2, WantedAssumption
    <3>4. \A j \in base'[p] \ visited'[p] :
            /\ lastKey'[p] < j /\ j < Tilde /\ j \in Present'
            /\ j \in DOMAIN slice'[p] \/ \A m \in DOMAIN slice'[p] : m < j
      BY Zenon, <1>3, <3>1, <3>2
    <3>5. "row_write" \notin Faults => \A k \in visited'[p] \cap Wanted :
            Full(web'[k]) \/ (pc'[p] = "tags" /\ row'[p] = k)
      BY Zenon, <3>1, <3>2, <3>3
    <3> QED
      BY Zenon, <3>1, <3>2, <3>4, <3>5
  <2> QED
    BY Zenon, <2>1, <2>2
<1>5. \A k \in Present' : Matches(web'[k])
  <2>1. \A k \in Present' : k \in Rows
    BY DEF Present
  <2> QED
    BY Zenon, <1>2, <2>1
<1> QED
  BY Zenon, <1>1, <1>4, <1>5 DEF CoverInv, Ahead

(* ec.cc's main loop: a run that comes to its end has visited every row    *)
(* that was in its range when it began, whatever the crawler and the other *)
(* parsers did meanwhile, and if no write of a page's row failed each such *)
(* page has the keywords of its oldest version as tags.                    *)
THEOREM RunsComplete == Spec => []RunComplete
<1>1. CoverInv => RunComplete
  <2> SUFFICES ASSUME CoverInv, NEW p \in Parsers, pc[p] = "done"
               PROVE  /\ base[p] \subseteq visited[p]
                      /\ "row_write" \notin Faults => \A k \in base[p] \cap Wanted :
                           \A n \in DOMAIN KwsOf[web[k].page[Oldest(web[k])].doc] :
                             web[k].tag[n] = KwsOf[web[k].page[Oldest(web[k])].doc][n]
    BY Zenon DEF RunComplete
  <2>1. base[p] \subseteq visited[p]
    BY Zenon DEF CoverInv
  <2>2. ASSUME "row_write" \notin Faults, NEW k \in base[p] \cap Wanted
        PROVE  \A n \in DOMAIN KwsOf[web[k].page[Oldest(web[k])].doc] :
                 web[k].tag[n] = KwsOf[web[k].page[Oldest(web[k])].doc][n]
    <3>1. Full(web[k])
      <4>1. Full(web[k]) \/ pc[p] = "tags"
        BY Zenon, <2>1, <2>2 DEF CoverInv
      <4> QED
        BY <4>1
    <3>2. web[k] \in Record /\ FromFirst(web[k])
      BY Zenon, WantedAssumption DEF CoverInv, PagesInv, TypeOK
    <3>3. Oldest(web[k]) = 1
      BY Zenon, <3>1, <3>2, OldestFirst DEF Full
    <3> QED
      BY Zenon, <3>1, <3>3 DEF Full, Keyword
  <2> QED
    BY Zenon, <2>1, <2>2
<1> QED
  BY CoverInit, CoverNext, <1>1, PTL DEF Spec
=============================================================================
