-------------------------- MODULE RecommendProofs --------------------------
(***************************************************************************)
(* Proofs about GetRecommend (module Recommend), for any number of         *)
(* callers, any table, any profiles and any size of the scans' slices.     *)
(*                                                                         *)
(* The sweep of RandomRecommend over TagTable is right because of three    *)
(* things that no single step shows: the mutex keeps last_rand still       *)
(* between a scan and the loop over its slice, the slice holds every row   *)
(* of the range up to its own last one, and the parser, which inserts rows *)
(* meanwhile, keeps the table in order and never takes one away.           *)
(***************************************************************************)
EXTENDS Recommend, SequenceTheorems, FiniteSetTheorems, WellFoundedInduction, TLAPS

Increasing(s) == \A i, j \in 1 .. Len(s) : i < j => s[i] < s[j]

(* The mutex: whoever is inside GetRecommend holds it.                     *)
Inside == \A c \in Callers : pc[c] # "idle" => mu = c

(* The slice is the part of the table after the cursor, without a gap as   *)
(* far as the rows of the sweep are concerned.                             *)
NoGap(s) ==
  /\ Increasing(s)
  /\ \A j \in 1 .. Len(s) : lastRand < s[j]
  /\ \A k \in base : \A l \in 1 .. Len(s) :
       lastRand < k /\ k <= s[l] => \E j \in 1 .. Len(s) : s[j] = k

(* The inductive invariant of the sweep.                                   *)
SweepInv ==
  /\ TypeOK
  /\ Inside
  /\ Increasing(rows)
  /\ \A k \in base : \E j \in 1 .. Len(rows) : rows[j] = k
  /\ \A c \in Callers :
       pc[c] \in {"idle", "user", "tags", "random", "rescan"} => slice[c] = << >>
  /\ \A c \in Callers : pc[c] = "fill" => NoGap(slice[c])
  /\ \A k \in shown : k <= lastRand
  /\ SweepComplete

-----------------------------------------------------------------------------
(* A set of numbers that is not empty has a least one.                     *)
LEMMA LeastNat ==
  ASSUME NEW T \in SUBSET Nat, T # {}
  PROVE  \E x \in T : \A y \in T : x <= y
<1> DEFINE R == OpToRel(<, Nat)
<1>1. \A x, y \in Nat : x < y => <<x, y>> \in R
  BY DEF OpToRel
<1>2. IsWellFoundedOn(R, Nat)
  BY Zenon, NatLessThanWellFounded
<1> HIDE DEF R
<1>3. PICK x \in T : \A y \in T : ~ (<<y, x>> \in R)
  BY Zenon, <1>2, WFMin
<1>4. ASSUME NEW y \in T
      PROVE  x <= y
  <2>1. x \in Nat /\ y \in Nat
    OBVIOUS
  <2>2. ~ (y < x)
    BY Zenon, <1>1, <1>3, <2>1
  <2> QED
    BY <2>1, <2>2
<1> QED
  BY <1>4

(* The table r is s with the key k put after its first i elements.         *)
IsInserted(r, s, i, k) ==
  /\ r \in Seq(Keys)
  /\ Len(r) = Len(s) + 1
  /\ \A j \in 1 .. Len(s) + 1 :
       r[j] = IF j <= i THEN s[j] ELSE IF j = i + 1 THEN k ELSE s[j - 1]

(* Putting a key into the table does that.                                 *)
LEMMA Inserted ==
  ASSUME NEW s \in Seq(Keys), NEW i \in 0 .. Len(s), NEW k \in Keys,
         NEW r, r = SubSeq(s, 1, i) \o <<k>> \o SubSeq(s, i + 1, Len(s))
  PROVE  IsInserted(r, s, i, k)
<1> DEFINE a == SubSeq(s, 1, i)
           b == SubSeq(s, i + 1, Len(s))
<1>1. Len(s) \in Nat /\ i \in Nat /\ i <= Len(s) /\ \A j \in 1 .. Len(s) : s[j] \in Keys
  BY ElementOfSeq, LenProperties
<1>2. a \in Seq(Keys) /\ Len(a) = i /\ \A j \in 1 .. i : a[j] = s[j]
  BY <1>1, SubSeqProperties
<1>3. b \in Seq(Keys) /\ Len(b) = Len(s) - i /\ \A j \in 1 .. Len(s) - i : b[j] = s[i + j]
  <2>1. \A j \in i + 1 .. Len(s) : s[j] \in Keys
    BY <1>1
  <2>2. /\ b \in Seq(Keys)
        /\ Len(b) = IF i + 1 <= Len(s) THEN Len(s) - (i + 1) + 1 ELSE 0
        /\ \A j \in 1 .. Len(s) - (i + 1) + 1 : b[j] = s[(i + 1) + j - 1]
    BY <1>1, <2>1, SubSeqProperties
  <2> QED
    BY <1>1, <2>2
<1>4. <<k>> \in Seq(Keys) /\ Len(<<k>>) = 1 /\ <<k>>[1] = k
  OBVIOUS
<1> DEFINE u == <<k>>
           ak == a \o u
<1> HIDE DEF a, b, u
<1>a. u \in Seq(Keys) /\ Len(u) = 1 /\ u[1] = k
  BY <1>4 DEF u
<1>b. /\ ak \in Seq(Keys) /\ Len(ak) = Len(a) + Len(u)
      /\ \A j \in 1 .. Len(a) + Len(u) : ak[j] = IF j <= Len(a) THEN a[j] ELSE u[j - Len(a)]
  BY Zenon, <1>2, <1>a, ConcatProperties
<1> HIDE DEF ak
<1>5. /\ ak \in Seq(Keys) /\ Len(ak) = i + 1
      /\ \A j \in 1 .. i + 1 : ak[j] = IF j <= i THEN s[j] ELSE k
  BY <1>1, <1>2, <1>a, <1>b
<1> DEFINE t == ak \o b
<1>6. /\ t \in Seq(Keys) /\ Len(t) = Len(ak) + Len(b)
      /\ \A j \in 1 .. Len(ak) + Len(b) : t[j] = IF j <= Len(ak) THEN ak[j] ELSE b[j - Len(ak)]
  BY Zenon, <1>3, <1>5, ConcatProperties
<1> HIDE DEF t
<1>7. ASSUME NEW j \in 1 .. Len(s) + 1
      PROVE  t[j] = IF j <= i THEN s[j] ELSE IF j = i + 1 THEN k ELSE s[j - 1]
  <2>1. t[j] = IF j <= i + 1 THEN ak[j] ELSE b[j - (i + 1)]
    BY <1>1, <1>3, <1>5, <1>6
  <2>2. CASE j <= i + 1
    BY <1>1, <1>5, <2>1, <2>2
  <2>3. CASE j > i + 1
    <3>1. j - (i + 1) \in 1 .. Len(s) - i /\ i + (j - (i + 1)) = j - 1
      BY <1>1, <2>3
    <3>2. b[j - (i + 1)] = s[i + (j - (i + 1))]
      BY Zenon, <1>3, <3>1
    <3> QED
      BY <1>1, <2>1, <2>3, <3>1, <3>2
  <2> QED
    BY <1>1, <2>2, <2>3
<1>8. Len(t) = Len(s) + 1
  BY SMTT(30), <1>1, <1>3, <1>5, <1>6
<1>9. r = t
  BY DEF a, b, ak, t, u
<1> QED
  BY Zenon, <1>6, <1>7, <1>8, <1>9 DEF IsInserted

(* What Table::Scan(from, "~") gives: rows in order, from from on, and all *)
(* of the table from there up to the last one given.                       *)
LEMMA SliceFacts ==
  ASSUME rows \in Seq(Keys), NEW from \in Int, NEW s \in Slices(from)
  PROVE  /\ s \in Seq(Keys) /\ s # << >>
         /\ Increasing(rows) =>
              /\ Increasing(s)
              /\ \A j \in 1 .. Len(s) : from <= s[j]
              /\ \A m \in 1 .. Len(rows), l \in 1 .. Len(s) :
                   from <= rows[m] /\ rows[m] <= s[l] => \E j \in 1 .. Len(s) : s[j] = rows[m]
<1>1. /\ Len(rows) \in Nat /\ DOMAIN rows = 1 .. Len(rows)
      /\ \A j \in 1 .. Len(rows) : rows[j] \in Keys /\ rows[j] \in Int
  BY ElementOfSeq, LenProperties, MaxKeyAssumption DEF Keys
<1>2. PICK a \in 1 .. Len(rows), b \in 1 .. Len(rows) :
        /\ s = SubSeq(rows, a, b)
        /\ a <= b /\ rows[a] >= from
        /\ a > 1 => rows[a - 1] < from
  BY Zenon, <1>1 DEF Slices
<1>3. \A j \in a .. b : rows[j] \in Keys
  BY <1>1
<1>4. /\ s \in Seq(Keys) /\ Len(s) = b - a + 1
      /\ \A j \in 1 .. b - a + 1 : s[j] = rows[a + j - 1]
  BY <1>2, <1>3, SubSeqProperties
<1>5. s # << >>
  BY SMTT(30), <1>1, <1>2, <1>4
<1>6. ASSUME Increasing(rows)
      PROVE  /\ Increasing(s)
             /\ \A j \in 1 .. Len(s) : from <= s[j]
             /\ \A m \in 1 .. Len(rows), l \in 1 .. Len(s) :
                  from <= rows[m] /\ rows[m] <= s[l] => \E j \in 1 .. Len(s) : s[j] = rows[m]
  <2>1. \A j \in 1 .. Len(s) : a + j - 1 \in 1 .. Len(rows) /\ s[j] = rows[a + j - 1]
    BY <1>1, <1>4
  <2>2. Increasing(s)
    <3> SUFFICES ASSUME NEW i \in 1 .. Len(s), NEW j \in 1 .. Len(s), i < j
                 PROVE  s[i] < s[j]
      BY DEF Increasing
    <3>1. a + i - 1 < a + j - 1
      BY <1>1, <1>4
    <3>2. rows[a + i - 1] < rows[a + j - 1]
      BY Zenon, <1>6, <2>1, <3>1 DEF Increasing
    <3> QED
      BY <2>1, <3>2
  <2>3. ASSUME NEW j \in 1 .. Len(s)
        PROVE  from <= s[j]
    <3>1. a <= a + j - 1 /\ a + j - 1 \in 1 .. Len(rows)
      BY <1>1, <1>4
    <3>2. rows[a] <= rows[a + j - 1]
      BY SMTT(30), <1>1, <1>6, <3>1 DEF Increasing
    <3>3. s[j] = rows[a + j - 1] /\ rows[a] \in Int /\ rows[a + j - 1] \in Int
      BY <1>1, <2>1, <3>1
    <3> QED
      BY <1>2, <3>2, <3>3
  <2>4. ASSUME NEW m \in 1 .. Len(rows), NEW l \in 1 .. Len(s),
               from <= rows[m], rows[m] <= s[l]
        PROVE  \E j \in 1 .. Len(s) : s[j] = rows[m]
    <3>1. a <= m
      <4> SUFFICES ASSUME m < a PROVE FALSE
        BY <1>1
      <4>1. a - 1 \in 1 .. Len(rows) /\ m <= a - 1 /\ rows[a - 1] < from
        BY <1>1, <1>2
      <4>2. rows[m] <= rows[a - 1]
        BY SMTT(30), <1>1, <1>6, <4>1 DEF Increasing
      <4>3. rows[m] \in Int /\ rows[a - 1] \in Int
        BY <1>1, <4>1
      <4> QED
        BY SMTT(30), <2>4, <4>1, <4>2, <4>3
    <3>2. a + l - 1 \in 1 .. Len(rows) /\ rows[m] <= rows[a + l - 1]
      BY <2>1, <2>4
    <3>3. m <= a + l - 1
      <4>1. a + l - 1 < m => rows[a + l - 1] < rows[m]
        BY Zenon, <1>6, <3>2 DEF Increasing
      <4>2. rows[m] \in Int /\ rows[a + l - 1] \in Int /\ a + l - 1 \in Int /\ m \in Int
        BY <1>1, <3>2
      <4> QED
        BY SMTT(30), <3>2, <4>1, <4>2
    <3>4. m - a + 1 \in 1 .. Len(s) /\ a + (m - a + 1) - 1 = m
      BY <1>1, <1>4, <3>1, <3>3
    <3> QED
      BY Zenon, <2>1, <3>4
  <2> QED
    BY <2>2, <2>3, <2>4
<1> QED
  BY <1>4, <1>5, <1>6

(* What GetUrlForTag takes from a slice: at most n rows, all of the tag.   *)
LEMMA TakenForTagFacts ==
  ASSUME NEW s \in Seq(Keys), NEW t \in Tags, NEW n \in Nat
  PROVE  /\ TakenForTag(s, t, n) \in Seq(Keys)
         /\ Len(TakenForTag(s, t, n)) <= n
         /\ \A j \in 1 .. Len(TakenForTag(s, t, n)) : TakenForTag(s, t, n)[j] \in Finds[t]
<1> DEFINE good == {m \in 0 .. Len(s) : m <= n /\ \A i \in 1 .. m : s[i] \in Finds[t]}
           left == {Len(s) - m : m \in good}
<1>1. Len(s) \in Nat /\ \A j \in 1 .. Len(s) : s[j] \in Keys
  BY ElementOfSeq, LenProperties
<1>2. 0 \in good
  BY <1>1
<1>3. left \in SUBSET Nat /\ left # {}
  BY <1>1, <1>2
<1>4. PICK x \in left : \A y \in left : x <= y
  <2> HIDE DEF left
  <2> QED
    BY <1>3, LeastNat
<1>5. PICK top \in good : x = Len(s) - top
  OBVIOUS
<1>6. ASSUME NEW k \in good
      PROVE  k <= top
  <2>1. Len(s) - k \in left /\ k \in Int /\ top \in Int
    OBVIOUS
  <2>2. Len(s) - top <= Len(s) - k
    BY Zenon, <1>4, <1>5, <2>1
  <2> QED
    BY <1>1, <2>1, <2>2
<1> DEFINE m == CHOOSE m \in good : \A k \in good : k <= m
<1>7. m \in good
  <2> HIDE DEF good
  <2> QED
    BY <1>6
<1>8. TakenForTag(s, t, n) = SubSeq(s, 1, m)
  BY DEF TakenForTag
<1>9. m \in Nat /\ m <= n /\ m <= Len(s) /\ \A i \in 1 .. m : s[i] \in Finds[t]
  <2> HIDE DEF m
  <2> QED
    BY <1>1, <1>7
<1> HIDE DEF m
<1>10. \A j \in 1 .. m : s[j] \in Keys
  BY <1>1, <1>9
<1>11. /\ SubSeq(s, 1, m) \in Seq(Keys) /\ Len(SubSeq(s, 1, m)) = m
       /\ \A j \in 1 .. m : SubSeq(s, 1, m)[j] = s[j]
  BY <1>9, <1>10, SubSeqProperties
<1> QED
  BY <1>8, <1>9, <1>11

(* What the loop over RandomRecommend's slice takes.                       *)
LEMMA TakenAtRandomFacts ==
  ASSUME NEW s \in Seq(Keys), NEW n \in Int
  PROVE  /\ TakenAtRandom(s, n) \in Seq(Keys)
         /\ n >= 0 => Len(TakenAtRandom(s, n)) <= n
         /\ Len(TakenAtRandom(s, n)) <= Len(s)
         /\ \A j \in 1 .. Len(TakenAtRandom(s, n)) : TakenAtRandom(s, n)[j] = s[j]
<1> DEFINE m == IF Len(s) < n THEN Len(s) ELSE n
           got == SubSeq(s, 1, m)
<1>1. Len(s) \in Nat /\ \A j \in 1 .. Len(s) : s[j] \in Keys
  BY ElementOfSeq, LenProperties
<1>2. m \in Int /\ m <= n /\ m <= Len(s)
  BY <1>1
<1>3. TakenAtRandom(s, n) = got
  BY DEF TakenAtRandom
<1> HIDE DEF m
<1>4. \A j \in 1 .. m : s[j] \in Keys
  BY <1>1, <1>2
<1>5. /\ got \in Seq(Keys) /\ Len(got) = IF 1 <= m THEN m - 1 + 1 ELSE 0
      /\ \A j \in 1 .. m - 1 + 1 : got[j] = s[1 + j - 1]
  BY <1>2, <1>4, SubSeqProperties
<1> HIDE DEF got
<1>6. /\ n >= 0 => Len(got) <= n
      /\ Len(got) <= Len(s)
      /\ \A j \in 1 .. Len(got) : got[j] = s[j]
  BY <1>1, <1>2, <1>5
<1> QED
  BY <1>3, <1>5, <1>6

(* One or two elements of S make a sequence of elements of S.              *)
LEMMA ShortSeq ==
  ASSUME NEW S, NEW x \in S, NEW y \in S
  PROVE  <<x>> \in Seq(S) /\ <<x, y>> \in Seq(S) /\ Len(<<x, y>>) = 2
OBVIOUS

(* Stripping the two last segments off a key that the page parser made     *)
(* gives the keyword back; of a tag it leaves the label.                   *)
LEMMA StripFacts ==
  /\ \A s \in Seq(Segment) : Strip(s) \in Seq(Segment)
  /\ \A s \in Seq(Segment) : LabelOf(s, Strip(s))
  /\ \A k \in Keys : RowKey(k) \in Seq(Segment) /\ Strip(RowKey(k)) = KeyTag[k]
<1>1. ASSUME NEW s \in Seq(Segment)
      PROVE  Strip(s) \in Seq(Segment)
  <2>1. Len(s) \in Nat /\ \A j \in 1 .. Len(s) : s[j] \in Segment
    BY ElementOfSeq, LenProperties
  <2>2. CASE Len(s) >= 3
    <3>1. \A j \in 1 .. Len(s) - 2 : s[j] \in Segment
      BY <2>1
    <3>2. SubSeq(s, 1, Len(s) - 2) \in Seq(Segment)
      BY <2>1, <3>1, SubSeqProperties
    <3> QED
      BY <2>2, <3>2 DEF Strip
  <2>3. CASE ~ (Len(s) >= 3)
    <3>0. "" \in Segment
      BY Zenon DEF Segment
    <3>1. <<"">> \in Seq(Segment)
      BY <3>0, ShortSeq, Zenon
    <3>2. Strip(s) = <<"">> \/ Strip(s) = s
      BY Zenon, <2>3 DEF Strip
    <3> QED
      BY Zenon, <3>1, <3>2
  <2> QED
    BY <2>2, <2>3
<1>2. ASSUME NEW s \in Seq(Segment)
      PROVE  LabelOf(s, Strip(s))
  <2>1. ASSUME Plain(s) PROVE Strip(s) = s
    <3>1. Len(s) = 1 \/ (Len(s) = 2 /\ ~ (s[1] = ""))
      BY Zenon, <2>1 DEF Plain
    <3>2. Len(s) = 1 \/ Len(s) = 2
      BY Zenon, <3>1
    <3>3. \A n \in Nat : n = 1 \/ n = 2 => ~ (n >= 3) /\ (n = 1 => ~ (n = 2))
      OBVIOUS
    <3>4. ~ (Len(s) >= 3) /\ (Len(s) = 1 => ~ (Len(s) = 2))
      BY Zenon, <3>2, <3>3, LenProperties
    <3>5. ~ (Len(s) = 2 /\ s[1] = "")
      BY Zenon, <3>1, <3>4
    <3> QED
      BY Zenon, <3>4, <3>5 DEF Strip
  <2>2. ASSUME Len(s) = 2, s[1] = "" PROVE Strip(s) = <<"">>
    <3>1. \A n \in Nat : n = 2 => ~ (n >= 3)
      OBVIOUS
    <3>2. ~ (Len(s) >= 3)
      BY Zenon, <2>2, <3>1, LenProperties
    <3> QED
      BY Zenon, <2>2, <3>2 DEF Strip
  <2>3. ASSUME Len(s) >= 3 PROVE Strip(s) = SubSeq(s, 1, Len(s) - 2)
    BY Zenon, <2>3 DEF Strip
  <2> QED
    BY Zenon, <2>1, <2>2, <2>3 DEF LabelOf
<1>3. ASSUME NEW k \in Keys
      PROVE  RowKey(k) \in Seq(Segment) /\ Strip(RowKey(k)) = KeyTag[k]
  <2> DEFINE t == KeyTag[k]
             z == <<"ts", "nt">>
             r == t \o z
  <2>a. t \in Tags
    BY TagsAssumption
  <2>b. t \in Seq(Segment) /\ t # << >>
    BY <2>a, TagsAssumption
  <2>0. "ts" \in Segment /\ "nt" \in Segment
    BY DEF Segment
  <2>c. z \in Seq(Segment) /\ Len(z) = 2
    BY <2>0, ShortSeq, Zenon
  <2>1. t \in Seq(Segment) /\ t # << >> /\ z \in Seq(Segment) /\ Len(z) = 2
    BY <2>b, <2>c
  <2>2. Len(t) \in Nat \ {0} /\ \A j \in 1 .. Len(t) : t[j] \in Segment
    BY <2>1, EmptySeq, ElementOfSeq
  <2> HIDE DEF t, z
  <2>d. /\ r \in Seq(Segment) /\ Len(r) = Len(t) + Len(z)
        /\ \A j \in 1 .. Len(t) + Len(z) : r[j] = IF j <= Len(t) THEN t[j] ELSE z[j - Len(t)]
    BY Zenon, <2>1, ConcatProperties
  <2> HIDE DEF r
  <2>3. /\ r \in Seq(Segment) /\ Len(r) = Len(t) + 2
        /\ \A j \in 1 .. Len(t) + 2 : r[j] = IF j <= Len(t) THEN t[j] ELSE z[j - Len(t)]
    BY <2>1, <2>d
  <2>4. Len(r) >= 3 /\ Len(r) - 2 = Len(t) /\ \A j \in 1 .. Len(t) : r[j] = t[j]
    BY <2>2, <2>3
  <2>5. Strip(r) = SubSeq(r, 1, Len(t))
    BY <2>4 DEF Strip
  <2>6. \A j \in 1 .. Len(t) : r[j] \in Segment
    BY <2>2, <2>4
  <2>7. /\ SubSeq(r, 1, Len(t)) \in Seq(Segment) /\ Len(SubSeq(r, 1, Len(t))) = Len(t)
        /\ \A j \in 1 .. Len(t) : SubSeq(r, 1, Len(t))[j] = r[j]
    BY <2>2, <2>6, SubSeqProperties
  <2>8. SubSeq(r, 1, Len(t)) = t
    BY <2>1, <2>4, <2>7, SeqEqual
  <2>9. RowKey(k) = r
    BY DEF RowKey, r, t, z
  <2> QED
    BY Zenon, <2>3, <2>5, <2>8, <2>9 DEF t
<1> QED
  BY <1>1, <1>2, <1>3

(* What GetRecommend goes on to look up: at most Top tags, Cap rows each.  *)
LEMMA PlansFacts ==
  ASSUME NEW p \in Profiles, NEW s \in Sorted(p)
  PROVE  LET best == SubSeq(s, 1, IF Len(s) < Top THEN Len(s) ELSE Top)
         IN  \A q \in Plans(p, best) : q \in Seq(Tags \X (0 .. Cap)) /\ Len(q) <= Top
<1> DEFINE n == Cardinality(DOMAIN p)
           l == IF Len(s) < Top THEN Len(s) ELSE Top
<1>1. n \in Nat /\ DOMAIN p \subseteq Tags
  BY ProfilesAssumption, FS_CardinalityType
<1> HIDE DEF n
<1>2. s \in [1 .. n -> DOMAIN p]
  BY DEF Sorted, n
<1>3. s \in Seq(Tags) /\ Len(s) = n
  BY <1>1, <1>2
<1>4. l \in Nat /\ l <= Top /\ \A j \in 1 .. l : s[j] \in Tags
  BY <1>1, <1>3, NumAssumption
<1> HIDE DEF l
<1>5. SubSeq(s, 1, l) \in Seq(Tags) /\ Len(SubSeq(s, 1, l)) = l
  BY <1>4, SubSeqProperties
<1>6. DOMAIN SubSeq(s, 1, l) = 1 .. l
  BY <1>5
<1>7. ASSUME NEW q \in Plans(p, SubSeq(s, 1, l))
      PROVE  q \in Seq(Tags \X (0 .. Cap)) /\ Len(q) <= Top
  <2>1. q \in [1 .. l -> Tags \X (0 .. Cap)]
    BY Zenon, <1>6 DEF Plans
  <2> QED
    BY <1>4, <2>1
<1> QED
  BY <1>7 DEF l
-----------------------------------------------------------------------------
(* A fresh engine has the types of its variables.                          *)
LEMMA TypeInit == Init => TypeOK
BY MaxKeyAssumption DEF Init, TypeOK

(* A scan that returns true gives a sequence of keys.                      *)
LEMMA ScanTrueType ==
  ASSUME rows \in Seq(Keys), NEW from \in Int, NEW s \in ScanTrue(from)
  PROVE  s \in Seq(Keys)
<1>1. s \in Slices(from) \/ s = << >>
  BY DEF ScanTrue
<1>2. s = << >> => s \in Seq(Keys)
  BY EmptySeq
<1>3. s \in Slices(from) => s \in Seq(Keys)
  BY SliceFacts
<1> QED
  BY <1>1, <1>2, <1>3

(* The cursor stays a rank of the table, and the vectors stay vectors.     *)
LEMMA FillType ==
  ASSUME TypeOK, NEW c \in Callers, NEW got \in Seq(Keys), NEW all,
         all = tags[c] \o [i \in DOMAIN got |-> RowKey(got[i])]
  PROVE  /\ all \in Seq(Seq(Segment)) /\ Len(all) = Len(tags[c]) + Len(got)
         /\ \A i \in 1 .. Len(all) :
              all[i] = IF i <= Len(tags[c]) THEN tags[c][i] ELSE RowKey(got[i - Len(tags[c])])
         /\ [i \in DOMAIN all |-> Strip(all[i])] \in Seq(Seq(Segment))
         /\ CursorAfter(slice[c], got) \in 0 .. MaxKey
<1> DEFINE keys == [i \in DOMAIN got |-> RowKey(got[i])]
           T == tags[c]
<1>1. Len(got) \in Nat /\ DOMAIN got = 1 .. Len(got) /\ \A i \in 1 .. Len(got) : got[i] \in Keys
  BY LenProperties, ElementOfSeq
<1>2. \A i \in 1 .. Len(got) : RowKey(got[i]) \in Seq(Segment)
  BY <1>1, StripFacts
<1>3. keys \in [1 .. Len(got) -> Seq(Segment)]
  BY <1>1, <1>2
<1>4. /\ keys \in Seq(Seq(Segment)) /\ Len(keys) = Len(got)
      /\ \A i \in 1 .. Len(got) : keys[i] = RowKey(got[i])
  BY <1>1, <1>3
<1>5. T \in Seq(Seq(Segment)) /\ Len(T) \in Nat
  BY LenProperties DEF TypeOK
<1> HIDE DEF keys, T
<1>6. /\ all \in Seq(Seq(Segment)) /\ Len(all) = Len(T) + Len(keys)
      /\ \A i \in 1 .. Len(T) + Len(keys) :
           all[i] = IF i <= Len(T) THEN T[i] ELSE keys[i - Len(T)]
  BY <1>4, <1>5, ConcatProperties DEF keys, T
<1>7. ASSUME NEW i \in 1 .. Len(all)
      PROVE  all[i] = IF i <= Len(T) THEN T[i] ELSE RowKey(got[i - Len(T)])
  <2>1. i > Len(T) => i - Len(T) \in 1 .. Len(got)
    BY SMTT(30), <1>1, <1>4, <1>5, <1>6
  <2>2. i \in 1 .. Len(T) + Len(keys) /\ i \in Int
    BY <1>1, <1>4, <1>5, <1>6
  <2>3. ~ (i <= Len(T)) => i > Len(T)
    BY <1>5, <2>2
  <2> QED
    BY Zenon, <1>4, <1>6, <2>1, <2>2, <2>3
<1>8. DOMAIN all = 1 .. Len(all) /\ Len(all) \in Nat /\ \A i \in 1 .. Len(all) : all[i] \in Seq(Segment)
  BY Zenon, <1>6, LenProperties, ElementOfSeq
<1>9. \A i \in 1 .. Len(all) : Strip(all[i]) \in Seq(Segment)
  BY <1>8, StripFacts
<1>10. [i \in DOMAIN all |-> Strip(all[i])] \in [1 .. Len(all) -> Seq(Segment)]
  BY Zenon, <1>8, <1>9
<1>11. [i \in DOMAIN all |-> Strip(all[i])] \in Seq(Seq(Segment))
  BY SMTT(30), <1>8, <1>10
<1>12. CursorAfter(slice[c], got) \in 0 .. MaxKey
  <2>1. CASE got = << >>
    BY <2>1 DEF CursorAfter, TypeOK
  <2>2. CASE got # << >>
    <3>1. Len(got) \in 1 .. Len(got)
      BY <2>2, <1>1, EmptySeq
    <3>2. got[Len(got)] \in 0 .. MaxKey
      BY <1>1, <3>1, MaxKeyAssumption DEF Keys
    <3> QED
      BY <2>2, <3>2 DEF CursorAfter
  <2> QED
    BY <2>1, <2>2
<1> QED
  BY Zenon, <1>4, <1>6, <1>7, <1>11, <1>12 DEF T

(* Every step of the engine and of the page parser keeps the types.        *)
LEMMA TypeNext == TypeOK /\ [Next]_vars => TypeOK'
<1> SUFFICES ASSUME TypeOK, [Next]_vars
             PROVE  TypeOK'
  BY Zenon
<1> USE DEF Goto, local
<1>1. CASE AddRow
  <2>1. PICK k \in Keys, i \in 0 .. Len(rows) :
          rows' = SubSeq(rows, 1, i) \o <<k>> \o SubSeq(rows, i + 1, Len(rows))
    BY Zenon, <1>1 DEF AddRow
  <2>2. rows \in Seq(Keys)
    BY DEF TypeOK
  <2>3. rows' \in Seq(Keys)
    BY <2>1, <2>2, Inserted DEF IsInserted
  <2> QED
    BY Zenon, <1>1, <2>3 DEF AddRow, TypeOK
<1>2. ASSUME NEW c \in Callers, Call(c)
      PROVE  TypeOK'
  BY Zenon, <1>2 DEF Call, CallUnlocked, TypeOK
<1>3. ASSUME NEW c \in Callers, ReadUser(c)
      PROVE  TypeOK'
  <2>1. plan' = plan \/ \E q \in Seq(Tags \X (0 .. Cap)) : plan' = [plan EXCEPT ![c] = q]
    BY Zenon, <1>3, PlansFacts DEF ReadUser
  <2>2. plan' \in [Callers -> Seq(Tags \X (0 .. Cap))]
    BY Zenon, <2>1 DEF TypeOK
  <2>3. \E l \in {"random", "fail", "tags"} : pc' = [pc EXCEPT ![c] = l]
    BY <1>3 DEF ReadUser
  <2>4. pc' \in [Callers -> {"idle", "user", "tags", "random", "rescan", "fill", "return", "fail"}]
    BY Zenon, <2>3 DEF TypeOK
  <2> QED
    BY Zenon, <1>3, <2>2, <2>4 DEF ReadUser, TypeOK
<1>4. ASSUME NEW c \in Callers, PickForTag(c)
      PROVE  TypeOK'
  <2>1. plan[c] \in Seq(Tags \X (0 .. Cap)) /\ plan[c] # << >>
    BY Zenon, <1>4 DEF PickForTag, TypeOK
  <2>2. Head(plan[c]) \in Tags \X (0 .. Cap) /\ Tail(plan[c]) \in Seq(Tags \X (0 .. Cap))
    BY <2>1, HeadTailProperties
  <2> DEFINE t == Head(plan[c])[1]
             n == Head(plan[c])[2]
  <2>3. t \in Tags /\ n \in Nat /\ TagPos[t] \in Int /\ t \in Seq(Segment)
    BY SMTT(30), <2>2, NumAssumption, TagsAssumption
  <2>4. PICK s \in {<< >>} \cup Slices(TagPos[t]) :
          /\ urls' = [urls EXCEPT ![c] = @ \o TakenForTag(s, t, n)]
          /\ desc' = [desc EXCEPT ![c] = @ \o TakenForTag(s, t, n)]
          /\ tags' = [tags EXCEPT ![c] = @ \o Labels(t, Len(TakenForTag(s, t, n)))]
          /\ picked' = [picked EXCEPT ![c] = @ + Len(TakenForTag(s, t, n))]
    BY Zenon, <1>4 DEF PickForTag
  <2> HIDE DEF t, n
  <2> DEFINE got == TakenForTag(s, t, n)
  <2>5. s \in Seq(Keys)
    <3>1. rows \in Seq(Keys)
      BY DEF TypeOK
    <3>2. s \in Slices(TagPos[t]) => s \in Seq(Keys)
      BY <2>3, <3>1, SliceFacts
    <3>3. s = << >> => s \in Seq(Keys)
      BY EmptySeq
    <3> QED
      BY <3>2, <3>3
  <2>6. got \in Seq(Keys) /\ Len(got) \in Nat
    BY <2>3, <2>5, TakenForTagFacts, LenProperties
  <2> HIDE DEF got
  <2>7. Labels(t, Len(got)) \in [1 .. Len(got) -> Seq(Segment)]
    BY <2>3 DEF Labels
  <2>8. Labels(t, Len(got)) \in Seq(Seq(Segment))
    BY <2>6, <2>7
  <2>9. urls[c] \o got \in Seq(Keys) /\ desc[c] \o got \in Seq(Keys)
        /\ tags[c] \o Labels(t, Len(got)) \in Seq(Seq(Segment)) /\ picked[c] + Len(got) \in Nat
    BY SMTT(30), <2>6, <2>8, ConcatProperties DEF TypeOK
  <2>10. urls' = [urls EXCEPT ![c] = urls[c] \o got] /\ desc' = [desc EXCEPT ![c] = desc[c] \o got]
         /\ tags' = [tags EXCEPT ![c] = tags[c] \o Labels(t, Len(got))]
         /\ picked' = [picked EXCEPT ![c] = picked[c] + Len(got)]
    BY Zenon, <2>4 DEF got, TypeOK
  <2>11. plan' = [plan EXCEPT ![c] = Tail(plan[c])]
    BY Zenon, <1>4 DEF PickForTag, TypeOK
  <2>12. /\ urls' \in [Callers -> Seq(Keys)] /\ desc' \in [Callers -> Seq(Keys)]
         /\ tags' \in [Callers -> Seq(Seq(Segment))] /\ picked' \in [Callers -> Nat]
         /\ plan' \in [Callers -> Seq(Tags \X (0 .. Cap))]
    BY Zenon, <2>2, <2>9, <2>10, <2>11 DEF TypeOK
  <2>13. UNCHANGED <<rows, lastRand, mu, pc, slice, base, shown>>
    BY Zenon, <1>4 DEF PickForTag
  <2> QED
    BY Zenon, <2>12, <2>13 DEF TypeOK
<1>5. ASSUME NEW c \in Callers, PickedAll(c)
      PROVE  TypeOK'
  BY Zenon, <1>5 DEF PickedAll, TypeOK
<1>6. ASSUME NEW c \in Callers, ScanOn(c)
      PROVE  TypeOK'
  <2>1. rows \in Seq(Keys) /\ lastRand + 1 \in Int
    BY DEF TypeOK
  <2>2. slice' = slice \/ \E s \in ScanTrue(lastRand + 1) : slice' = [slice EXCEPT ![c] = s]
    BY <1>6 DEF ScanOn
  <2>3. slice' \in [Callers -> Seq(Keys)]
    BY Zenon, <2>1, <2>2, ScanTrueType DEF TypeOK
  <2>4. lastRand' \in 0 .. MaxKey /\ base' \subseteq Keys /\ shown' \subseteq Keys
    <3>1. Visible \subseteq Keys
      BY <2>1, RangeOfSeq DEF Visible
    <3> QED
      BY SMTT(30), <1>6, <3>1, MaxKeyAssumption DEF ScanOn, TypeOK
  <2>5. pc' \in [Callers -> {"idle", "user", "tags", "random", "rescan", "fill", "return", "fail"}]
    BY Zenon, <1>6 DEF ScanOn, TypeOK
  <2> QED
    BY Zenon, <1>6, <2>3, <2>4, <2>5 DEF ScanOn, TypeOK
<1>7. ASSUME NEW c \in Callers, ScanAgain(c)
      PROVE  TypeOK'
  <2>1. rows \in Seq(Keys) /\ lastRand + 1 \in Int
    BY DEF TypeOK
  <2>2. slice' = slice \/ \E s \in ScanTrue(lastRand + 1) : slice' = [slice EXCEPT ![c] = s]
    BY <1>7 DEF ScanAgain
  <2>3. slice' \in [Callers -> Seq(Keys)]
    BY Zenon, <2>1, <2>2, ScanTrueType DEF TypeOK
  <2> QED
    BY Zenon, <1>7, <2>3 DEF ScanAgain, TypeOK
<1>8. ASSUME NEW c \in Callers, Fill(c)
      PROVE  TypeOK'
  <2> DEFINE got == TakenAtRandom(slice[c], Num - Len(urls[c]))
             all == tags[c] \o [i \in DOMAIN got |-> RowKey(got[i])]
  <2>1. urls[c] \in Seq(Keys) /\ desc[c] \in Seq(Keys) /\ slice[c] \in Seq(Keys)
    BY DEF TypeOK
  <2>2. Num - Len(urls[c]) \in Int
    BY <2>1, LenProperties, NumAssumption
  <2>3. got \in Seq(Keys)
    BY <2>1, <2>2, TakenAtRandomFacts
  <2>4. /\ urls' = [urls EXCEPT ![c] = urls[c] \o got] /\ desc' = [desc EXCEPT ![c] = desc[c] \o got]
        /\ tags' = [tags EXCEPT ![c] = [i \in DOMAIN all |-> Strip(all[i])]]
        /\ lastRand' = CursorAfter(slice[c], got) /\ shown' = shown \cup Range(got)
    BY Zenon, <1>8 DEF Fill, TypeOK
  <2> HIDE DEF got
  <2>5. [i \in DOMAIN all |-> Strip(all[i])] \in Seq(Seq(Segment)) /\ lastRand' \in 0 .. MaxKey
    BY Zenon, <2>3, <2>4, FillType
  <2>6. urls[c] \o got \in Seq(Keys) /\ desc[c] \o got \in Seq(Keys) /\ Range(got) \subseteq Keys
    BY <2>1, <2>3, ConcatProperties, RangeOfSeq
  <2> HIDE DEF all
  <2>7. /\ urls' \in [Callers -> Seq(Keys)] /\ desc' \in [Callers -> Seq(Keys)]
        /\ tags' \in [Callers -> Seq(Seq(Segment))] /\ shown' \subseteq Keys
    BY Zenon, <2>4, <2>5, <2>6 DEF TypeOK
  <2>8. /\ pc' \in [Callers -> {"idle", "user", "tags", "random", "rescan", "fill", "return", "fail"}]
        /\ UNCHANGED <<rows, mu, plan, slice, picked, base>>
    BY Zenon, <1>8 DEF Fill, TypeOK
  <2> QED
    BY Zenon, <2>5, <2>7, <2>8 DEF TypeOK
<1>9. ASSUME NEW c \in Callers, Return(c)
      PROVE  TypeOK'
  <2>1. /\ urls' \in [Callers -> Seq(Keys)] /\ desc' \in [Callers -> Seq(Keys)]
        /\ tags' \in [Callers -> Seq(Seq(Segment))] /\ picked' \in [Callers -> Nat]
        /\ plan' \in [Callers -> Seq(Tags \X (0 .. Cap))] /\ slice' \in [Callers -> Seq(Keys)]
    <3>1. \A S : << >> \in Seq(S)
      BY EmptySeq
    <3>2. urls' \in [Callers -> Seq(Keys)] /\ desc' \in [Callers -> Seq(Keys)]
      BY Zenon, <1>9, <3>1 DEF Return, TypeOK
    <3>3. slice' \in [Callers -> Seq(Keys)] /\ picked' \in [Callers -> Nat]
      BY Zenon, <1>9, <3>1 DEF Return, TypeOK
    <3>4. tags' \in [Callers -> Seq(Seq(Segment))]
      BY <1>9, <3>1 DEF Return, TypeOK
    <3>5. plan' \in [Callers -> Seq(Tags \X (0 .. Cap))]
      BY Zenon, <1>9, <3>1 DEF Return, TypeOK
    <3> QED
      BY Zenon, <3>2, <3>3, <3>4, <3>5
  <2>2. /\ mu' \in Callers \cup {NoCaller}
        /\ pc' \in [Callers -> {"idle", "user", "tags", "random", "rescan", "fill", "return", "fail"}]
        /\ UNCHANGED <<rows, lastRand, base, shown>>
    BY <1>9 DEF Return, TypeOK
  <2> QED
    BY Zenon, <2>1, <2>2 DEF TypeOK
<1>10. CASE UNCHANGED vars
  BY Zenon, <1>10 DEF vars, TypeOK
<1> QED
  BY <1>1, <1>2, <1>3, <1>4, <1>5, <1>6, <1>7, <1>8, <1>9, <1>10 DEF Next, GetRecommend
-----------------------------------------------------------------------------
(* The slice of a scan that follows the cursor has no gap.                 *)
LEMMA ScanNoGap ==
  ASSUME TypeOK, Increasing(rows), \A k \in base : \E j \in 1 .. Len(rows) : rows[j] = k,
         NEW s \in ScanTrue(lastRand + 1)
  PROVE  NoGap(s)
<1>1. rows \in Seq(Keys) /\ lastRand \in Nat /\ lastRand + 1 \in Int
  BY DEF TypeOK
<1>2. CASE s = << >>
  BY <1>2 DEF NoGap, Increasing
<1>3. CASE s \in Slices(lastRand + 1)
  <2>1. s \in Seq(Keys) /\ Len(s) \in Nat /\ \A j \in 1 .. Len(s) : s[j] \in Int
    <3>1. s \in Seq(Keys)
      BY <1>1, <1>3, SliceFacts
    <3> QED
      BY <3>1, LenProperties, ElementOfSeq, MaxKeyAssumption DEF Keys
  <2>2. /\ Increasing(s)
        /\ \A j \in 1 .. Len(s) : lastRand + 1 <= s[j]
        /\ \A m \in 1 .. Len(rows), l \in 1 .. Len(s) :
             lastRand + 1 <= rows[m] /\ rows[m] <= s[l] => \E j \in 1 .. Len(s) : s[j] = rows[m]
    BY <1>1, <1>3, SliceFacts
  <2>3. \A j \in 1 .. Len(s) : lastRand < s[j]
    BY <1>1, <2>1, <2>2
  <2>4. ASSUME NEW k \in base, NEW l \in 1 .. Len(s), lastRand < k, k <= s[l]
        PROVE  \E j \in 1 .. Len(s) : s[j] = k
    <3>1. PICK m \in 1 .. Len(rows) : rows[m] = k
      OBVIOUS
    <3>2. k \in Int /\ lastRand + 1 <= k
      BY <1>1, <2>4, MaxKeyAssumption DEF TypeOK, Keys
    <3> QED
      BY <2>2, <2>4, <3>1, <3>2
  <2> QED
    BY <2>2, <2>3, <2>4 DEF NoGap
<1> QED
  BY <1>2, <1>3 DEF ScanTrue

(* A fresh engine has given nothing yet, and its cursor is empty.          *)
LEMMA SweepInit == Init => SweepInv
<1> SUFFICES ASSUME Init PROVE SweepInv
  OBVIOUS
<1>1. TypeOK
  BY TypeInit
<1>2. Len(rows) = 0 /\ Increasing(rows)
  BY EmptySeq DEF Init, Increasing
<1> QED
  BY <1>1, <1>2 DEF Init, SweepInv, Inside, SweepComplete

(* Every step keeps the account of the sweep.                              *)
LEMMA SweepNext == SweepInv /\ [Next]_vars => SweepInv'
<1> SUFFICES ASSUME SweepInv, [Next]_vars
             PROVE  SweepInv'
  BY SMTT(30)
<1> USE DEF Goto, local
<1>t. TypeOK /\ TypeOK'
  BY TypeNext DEF SweepInv
<1>1. CASE AddRow
  <2>1. PICK k \in Keys, i \in 0 .. Len(rows) :
          /\ \A j \in DOMAIN rows : IF j <= i THEN rows[j] < k ELSE rows[j] > k
          /\ rows' = SubSeq(rows, 1, i) \o <<k>> \o SubSeq(rows, i + 1, Len(rows))
    BY Zenon, <1>1 DEF AddRow
  <2>2. /\ rows \in Seq(Keys) /\ Len(rows) \in Nat /\ DOMAIN rows = 1 .. Len(rows)
        /\ \A j \in 1 .. Len(rows) : rows[j] \in Int
        /\ k \in Int
    <3>1. rows \in Seq(Keys)
      BY <1>t DEF TypeOK
    <3>2. /\ Len(rows) \in Nat /\ DOMAIN rows = 1 .. Len(rows)
          /\ \A j \in 1 .. Len(rows) : rows[j] \in Keys
      BY <3>1, LenProperties, ElementOfSeq
    <3>3. Keys \subseteq Int
      BY MaxKeyAssumption DEF Keys
    <3> QED
      BY Zenon, <3>1, <3>2, <3>3
  <2>3. /\ Len(rows') = Len(rows) + 1
        /\ \A j \in 1 .. Len(rows) + 1 :
             rows'[j] = IF j <= i THEN rows[j] ELSE IF j = i + 1 THEN k ELSE rows[j - 1]
    <3>1. rows \in Seq(Keys)
      BY <2>2
    <3>2. rows' = SubSeq(rows, 1, i) \o <<k>> \o SubSeq(rows, i + 1, Len(rows))
      BY <2>1
    <3>3. IsInserted(rows', rows, i, k)
      BY Zenon, <3>1, <3>2, Inserted
    <3> QED
      BY <3>3 DEF IsInserted
  <2>4. Increasing(rows)'
    <3> SUFFICES ASSUME NEW a \in 1 .. Len(rows) + 1, NEW b \in 1 .. Len(rows) + 1, a < b
                 PROVE  rows'[a] < rows'[b]
      BY <2>3 DEF Increasing
    <3>1. /\ rows'[a] = IF a <= i THEN rows[a] ELSE IF a = i + 1 THEN k ELSE rows[a - 1]
          /\ rows'[b] = IF b <= i THEN rows[b] ELSE IF b = i + 1 THEN k ELSE rows[b - 1]
      BY <2>3
    <3>2. \A x, y \in 1 .. Len(rows) : x < y => rows[x] < rows[y]
      BY DEF SweepInv, Increasing
    <3>3. \A x \in 1 .. Len(rows) : (x <= i => rows[x] < k) /\ (x > i => rows[x] > k)
      BY SMTT(30), <2>1, <2>2
    <3>4. CASE b <= i
      BY <2>2, <3>1, <3>2, <3>4
    <3>5. CASE b = i + 1
      <4>1. a <= i /\ a \in 1 .. Len(rows)
        BY <2>2, <3>5
      <4> QED
        BY SMTT(30), <2>2, <3>1, <3>3, <3>5, <4>1
    <3>6. CASE b > i + 1
      <4>1. b - 1 \in 1 .. Len(rows) /\ b - 1 > i /\ rows'[b] = rows[b - 1]
        BY <2>2, <3>1, <3>6
      <4>2. CASE a <= i
        <5>1. a \in 1 .. Len(rows) /\ a < b - 1 /\ rows'[a] = rows[a]
          BY <2>2, <3>1, <3>6, <4>2
        <5> QED
          BY <3>2, <4>1, <5>1
      <4>3. CASE a = i + 1
        BY <2>2, <3>1, <3>3, <4>1, <4>3
      <4>4. CASE a > i + 1
        <5>1. a - 1 \in 1 .. Len(rows) /\ a - 1 < b - 1 /\ rows'[a] = rows[a - 1]
          BY <2>2, <3>1, <3>6, <4>4
        <5> QED
          BY Zenon, <3>2, <4>1, <5>1
      <4> QED
        BY <2>2, <4>2, <4>3, <4>4
    <3> QED
      BY <2>2, <3>4, <3>5, <3>6
  <2>5. ASSUME NEW x \in base
        PROVE  \E j \in 1 .. Len(rows') : rows'[j] = x
    <3>1. PICK j \in 1 .. Len(rows) : rows[j] = x
      BY DEF SweepInv
    <3>2. CASE j <= i
      BY <2>2, <2>3, <3>1, <3>2
    <3>3. CASE j > i
      <4>1. j + 1 \in 1 .. Len(rows) + 1 /\ ~ (j + 1 <= i) /\ ~ (j + 1 = i + 1) /\ (j + 1) - 1 = j
        BY <2>2, <3>3
      <4>2. rows'[j + 1] = rows[(j + 1) - 1]
        BY <2>3, <4>1
      <4> QED
        BY Zenon, <2>3, <3>1, <4>1, <4>2
    <3> QED
      BY <2>2, <3>2, <3>3
  <2>6. UNCHANGED <<lastRand, mu, pc, slice, base, shown>>
    BY <1>1 DEF AddRow
  <2> QED
    BY <1>t, <2>4, <2>5, <2>6 DEF SweepInv, Inside, NoGap, SweepComplete
<1>2. ASSUME NEW c \in Callers, Call(c)
      PROVE  SweepInv'
  <2>1. \A d \in Callers : pc[d] = "idle"
    BY <1>2, CallersAssumption DEF Call, SweepInv, Inside
  <2>2. /\ mu' = c /\ pc' = [pc EXCEPT ![c] = "user"]
        /\ UNCHANGED <<rows, lastRand, slice, base, shown>>
    BY <1>2 DEF Call, CallUnlocked
  <2>3. Inside' /\ \A d \in Callers : pc'[d] # "fill" /\ slice'[d] = << >>
    BY Zenon, <1>t, <2>1, <2>2 DEF SweepInv, Inside, TypeOK
  <2> QED
    BY Zenon, <1>t, <2>2, <2>3 DEF SweepInv, SweepComplete, Increasing
<1>3. ASSUME NEW c \in Callers, ReadUser(c) \/ PickForTag(c) \/ PickedAll(c)
      PROVE  SweepInv'
  <2>1. /\ pc[c] \in {"user", "tags"}
        /\ \E l \in {"random", "fail", "tags"} : pc' = [pc EXCEPT ![c] = l]
        /\ UNCHANGED <<rows, lastRand, mu, slice, base, shown>>
    BY ZenonT(30), <1>3, <1>t DEF ReadUser, PickForTag, PickedAll, TypeOK
  <2>2. /\ pc' \in [Callers -> {"idle", "user", "tags", "random", "rescan", "fill", "return", "fail"}]
        /\ pc'[c] \in {"random", "fail", "tags"} /\ \A d \in Callers : d # c => pc'[d] = pc[d]
    BY Zenon, <1>t, <2>1 DEF TypeOK
  <2>3. Inside'
    BY Zenon, <2>1, <2>2 DEF SweepInv, Inside
  <2>4. \A d \in Callers :
          pc'[d] \in {"idle", "user", "tags", "random", "rescan"} => slice'[d] = << >>
    BY Zenon, <2>1, <2>2 DEF SweepInv
  <2>5. \A d \in Callers : pc'[d] = "fill" => NoGap(slice'[d])
    BY Zenon, <2>1, <2>2 DEF SweepInv
  <2> QED
    BY SMTT(30), <1>t, <2>1, <2>3, <2>4, <2>5 DEF SweepInv, SweepComplete, Increasing, NoGap
<1>4. ASSUME NEW c \in Callers, pc[c] \in {"random", "rescan"},
             NEW s, NoGap(s), slice' = [slice EXCEPT ![c] = s], pc' = [pc EXCEPT ![c] = "fill"],
             UNCHANGED <<rows, lastRand, mu, base, shown>>
      PROVE  SweepInv'
  <2>1. pc'[c] = "fill" /\ slice'[c] = s /\ \A d \in Callers : d # c => pc'[d] = pc[d] /\ slice'[d] = slice[d]
    BY Zenon, <1>4, <1>t DEF TypeOK
  <2>2. Inside'
    BY Zenon, <1>4, <2>1 DEF SweepInv, Inside
  <2>3. \A d \in Callers :
          pc'[d] \in {"idle", "user", "tags", "random", "rescan"} => slice'[d] = << >>
    BY Zenon, <2>1 DEF SweepInv
  <2>4. \A d \in Callers : pc'[d] = "fill" => NoGap(slice'[d])
    BY Zenon, <1>4, <2>1 DEF SweepInv
  <2> QED
    BY SMTT(30), <1>4, <1>t, <2>2, <2>3, <2>4 DEF SweepInv, SweepComplete, Increasing, NoGap
<1>5. ASSUME NEW c \in Callers, ScanOn(c)
      PROVE  SweepInv'
  <2>1. CASE \E s \in ScanTrue(lastRand + 1) : slice' = [slice EXCEPT ![c] = s]
                                             /\ pc' = [pc EXCEPT ![c] = "fill"]
                                             /\ UNCHANGED <<lastRand, base, shown>>
    <3>1. PICK s \in ScanTrue(lastRand + 1) : slice' = [slice EXCEPT ![c] = s]
      BY Zenon, <2>1
    <3>2. NoGap(s)
      BY Zenon, <1>t, ScanNoGap DEF SweepInv
    <3>3. pc' = [pc EXCEPT ![c] = "fill"] /\ UNCHANGED <<rows, lastRand, mu, base, shown>>
      BY <1>5, <2>1 DEF ScanOn
    <3>4. pc[c] \in {"random", "rescan"}
      BY <1>5 DEF ScanOn
    <3> QED
      BY Zenon, <1>4, <3>1, <3>2, <3>3, <3>4
  <2>2. CASE /\ lastRand' = 0 /\ base' = Visible /\ shown' = {}
             /\ pc' = [pc EXCEPT ![c] = "rescan"] /\ slice' = slice
    <3>1. pc[c] = "random" /\ slice[c] = << >> /\ UNCHANGED <<rows, mu>>
      BY Zenon, <1>5 DEF ScanOn, SweepInv
    <3>2. \A d \in Callers : d # c => pc[d] = "idle"
      BY Zenon, <3>1 DEF SweepInv, Inside
    <3>3. pc'[c] = "rescan" /\ \A d \in Callers : d # c => pc'[d] = "idle"
      BY <1>t, <2>2, <3>2 DEF TypeOK
    <3>4. Inside'
      BY Zenon, <3>1, <3>3 DEF SweepInv, Inside
    <3>5. \A d \in Callers : pc'[d] # "fill" /\ slice'[d] = << >>
      BY <2>2, <3>1, <3>2, <3>3 DEF SweepInv
    <3>6. \A k \in base' : k \in Keys /\ \E j \in 1 .. Len(rows) : rows[j] = k
      BY SMTT(30), <1>t, <2>2, RangeEquality DEF Visible, TypeOK
    <3>7. SweepComplete'
      BY <2>2, <3>6, MaxKeyAssumption DEF SweepComplete, Keys
    <3> QED
      BY Zenon, <1>t, <2>2, <3>1, <3>4, <3>5, <3>6, <3>7 DEF SweepInv, Increasing
  <2> QED
    BY <1>5, <2>1, <2>2 DEF ScanOn
<1>6. ASSUME NEW c \in Callers, ScanAgain(c)
      PROVE  SweepInv'
  <2>1. pc[c] \in {"random", "rescan"} /\ pc' = [pc EXCEPT ![c] = "fill"]
        /\ UNCHANGED <<rows, lastRand, mu, base, shown>>
    BY Zenon, <1>6 DEF ScanAgain
  <2>2. CASE \E s \in ScanTrue(lastRand + 1) : slice' = [slice EXCEPT ![c] = s]
    <3>1. PICK s \in ScanTrue(lastRand + 1) : slice' = [slice EXCEPT ![c] = s]
      BY Zenon, <2>2
    <3>2. NoGap(s)
      BY <1>t, ScanNoGap DEF SweepInv
    <3> QED
      BY Zenon, <1>4, <2>1, <3>1, <3>2
  <2>3. CASE slice' = slice
    <3>1. slice[c] = << >> /\ slice' = [slice EXCEPT ![c] = << >>]
      BY SMTT(30), <1>t, <2>1, <2>3 DEF SweepInv, TypeOK
    <3>2. NoGap(<< >>)
      BY DEF NoGap, Increasing
    <3> QED
      BY Zenon, <1>4, <2>1, <3>1, <3>2
  <2> QED
    BY <1>6, <2>2, <2>3 DEF ScanAgain
<1>7. ASSUME NEW c \in Callers, Fill(c)
      PROVE  SweepInv'
  <2> DEFINE s == slice[c]
             got == TakenAtRandom(s, Num - Len(urls[c]))
  <2>1. /\ pc[c] = "fill" /\ pc' = [pc EXCEPT ![c] = "return"]
        /\ lastRand' = CursorAfter(s, got) /\ shown' = shown \cup Range(got)
        /\ UNCHANGED <<rows, mu, slice, base>>
    BY Zenon, <1>7 DEF Fill
  <2>2. s \in Seq(Keys) /\ Num - Len(urls[c]) \in Int
    BY <1>t, LenProperties, NumAssumption DEF TypeOK
  <2>3. /\ got \in Seq(Keys) /\ Len(got) \in Nat /\ Len(s) \in Nat /\ Len(got) <= Len(s)
        /\ \A j \in 1 .. Len(got) : got[j] = s[j]
    BY Zenon, <2>2, TakenAtRandomFacts, LenProperties
  <2>4. NoGap(s) /\ \A j \in 1 .. Len(s) : s[j] \in Int
    <3>1. \A j \in 1 .. Len(s) : s[j] \in Keys
      BY <2>2, ElementOfSeq
    <3>2. NoGap(s)
      BY Zenon, <2>1 DEF SweepInv
    <3> QED
      BY <3>1, <3>2, MaxKeyAssumption DEF Keys
  <2>5. Range(got) = {got[j] : j \in 1 .. Len(got)}
    BY Zenon, <2>3, RangeEquality
  <2> HIDE DEF s, got
  <2>6. \A d \in Callers : d # c => pc[d] = "idle"
    BY <2>1 DEF SweepInv, Inside
  <2>7. pc'[c] = "return" /\ \A d \in Callers : d # c => pc'[d] = "idle"
    BY Zenon, <1>t, <2>1, <2>6 DEF TypeOK
  <2>8. Inside'
    BY Zenon, <2>1, <2>7 DEF SweepInv, Inside
  <2>9. \A d \in Callers :
          /\ pc'[d] \in {"idle", "user", "tags", "random", "rescan"} => slice'[d] = << >>
          /\ pc'[d] # "fill"
    BY Zenon, <2>1, <2>6, <2>7 DEF SweepInv
  <2>10. (\A k \in shown' : k <= lastRand') /\ SweepComplete'
    <3>0. lastRand \in Int /\ \A k \in base \cup shown : k \in Int
      BY <1>t, MaxKeyAssumption DEF TypeOK, Keys
    <3>1. CASE got = << >>
      <4>1. lastRand' = lastRand /\ shown' = shown
        BY <2>1, <2>5, <3>1, EmptySeq DEF CursorAfter
      <4> QED
        BY Zenon, <2>1, <4>1 DEF SweepInv, SweepComplete
    <3>2. CASE got # << >>
      <4> DEFINE g == Len(got)
      <4>1. g \in 1 .. Len(s) /\ lastRand' = s[g] /\ g \in 1 .. Len(got)
        <5>1. Len(got) \in Nat \ {0}
          BY <2>3, <3>2, EmptySeq
        <5> QED
          BY <2>1, <2>3, <3>2, <5>1 DEF CursorAfter
      <4> HIDE DEF g
      <4>2. lastRand < s[g] /\ s[g] \in Int
        BY <2>4, <4>1 DEF NoGap
      <4>3. \A j \in 1 .. Len(s) : j <= g => s[j] <= s[g]
        BY <2>3, <2>4, <4>1 DEF NoGap, Increasing
      <4>4. \A j \in 1 .. Len(s) : s[j] <= s[g] => j \in 1 .. Len(got)
        <5> SUFFICES ASSUME NEW j \in 1 .. Len(s), s[j] <= s[g], g < j
                     PROVE  FALSE
          BY <2>3 DEF g
        <5>1. s[g] < s[j]
          BY <2>4, <4>1 DEF NoGap, Increasing
        <5> QED
          BY <2>4, <4>2, <5>1
      <4>5. ASSUME NEW k \in shown'
            PROVE  k <= lastRand'
        <5>1. CASE k \in shown
          BY SMTT(30), <3>0, <4>1, <4>2, <5>1 DEF SweepInv
        <5>2. CASE k \in Range(got)
          <6>1. PICK j \in 1 .. Len(got) : k = got[j]
            BY Zenon, <2>5, <5>2
          <6>2. k = s[j] /\ j \in 1 .. Len(s) /\ j <= g
            BY SMTT(30), <2>3, <6>1 DEF g
          <6> QED
            BY <4>1, <4>3, <6>2
        <5> QED
          BY <2>1, <5>1, <5>2
      <4>6. ASSUME NEW k \in base, k <= lastRand'
            PROVE  k \in shown'
        <5>1. CASE k <= lastRand
          BY Zenon, <2>1, <5>1 DEF SweepInv, SweepComplete
        <5>2. CASE lastRand < k
          <6>1. PICK j \in 1 .. Len(s) : s[j] = k
            BY Zenon, <2>4, <4>1, <4>6, <5>2 DEF NoGap
          <6>2. j \in 1 .. Len(got)
            BY Zenon, <4>1, <4>4, <4>6, <6>1
          <6>3. got[j] = k
            BY Zenon, <2>3, <6>1, <6>2
          <6> QED
            BY Zenon, <2>1, <2>5, <6>2, <6>3
        <5> QED
          BY <3>0, <5>1, <5>2
      <4> QED
        BY Zenon, <2>1, <4>5, <4>6 DEF SweepComplete
    <3> QED
      BY <3>1, <3>2
  <2> QED
    BY Zenon, <1>t, <2>1, <2>8, <2>9, <2>10 DEF SweepInv, Increasing
<1>8. ASSUME NEW c \in Callers, Return(c)
      PROVE  SweepInv'
  <2>1. /\ pc[c] \in {"return", "fail"} /\ mu' = NoCaller /\ pc' = [pc EXCEPT ![c] = "idle"]
        /\ slice' = [slice EXCEPT ![c] = << >>] /\ UNCHANGED <<rows, lastRand, base, shown>>
    BY <1>8 DEF Return
  <2>2. \A d \in Callers : d # c => pc[d] = "idle"
    BY <2>1 DEF SweepInv, Inside
  <2>3. \A d \in Callers : pc'[d] = "idle" /\ slice'[d] = << >>
    BY SMTT(30), <1>t, <2>1, <2>2 DEF SweepInv, TypeOK
  <2> QED
    BY Zenon, <1>t, <2>1, <2>3 DEF SweepInv, Inside, SweepComplete, Increasing
<1>9. CASE UNCHANGED vars
  BY SMTT(30), <1>t, <1>9 DEF vars, SweepInv, Inside, SweepComplete, Increasing, NoGap
<1> QED
  BY <1>1, <1>2, <1>3, <1>5, <1>6, <1>7, <1>8, <1>9 DEF Next, GetRecommend

(* GetRecommend: no row that was in TagTable when a sweep of               *)
(* RandomRecommend began is passed over, whatever the callers do, however  *)
(* long the slices are and whatever the page parser adds meanwhile.        *)
THEOREM NothingPassedOver == Spec => []SweepComplete
<1>1. SweepInv => SweepComplete
  BY DEF SweepInv
<1> QED
  BY SweepInit, SweepNext, <1>1, PTL DEF Spec

(* RandomRecommend: no row is given twice in one sweep, to any caller: the *)
(* rows given lie up to the cursor, those of a slice after it.             *)
THEOREM NoneRepeated == Spec => NoRepeatInSweep
<1> DEFINE Fresh == \A c \in Callers : pc[c] = "fill" /\ pc'[c] # "fill" =>
              \A i \in Len(urls[c]) + 1 .. Len(urls'[c]) : urls'[c][i] \notin shown
<1>1. SweepInv /\ [Next]_vars => [Fresh]_vars
  <2> SUFFICES ASSUME SweepInv, Next, NEW c \in Callers, pc[c] = "fill", pc'[c] # "fill",
                      NEW i \in Len(urls[c]) + 1 .. Len(urls'[c])
               PROVE  urls'[c][i] \notin shown
    BY Zenon DEF Fresh
  <2>t. TypeOK
    BY DEF SweepInv
  <2>1. Fill(c)
    <3>1. ASSUME NEW d \in Callers, Call(d) \/ GetRecommend(d), ~ Fill(c)
          PROVE  FALSE
      <4>1. d # c => pc'[c] = pc[c]
        BY Zenon, <2>t, <3>1 DEF Call, CallUnlocked, GetRecommend, ReadUser, PickForTag, PickedAll,
                          ScanOn, ScanAgain, Fill, Return, Goto, TypeOK
      <4>2. d = c
        BY Zenon, <4>1
      <4>3. pc[c] # "fill"
        BY Zenon, <3>1, <4>2 DEF Call, CallUnlocked, GetRecommend, ReadUser, PickForTag, PickedAll,
                          ScanOn, ScanAgain, Return
      <4> QED
        BY <4>3
    <3>2. ~ AddRow
      BY Zenon DEF AddRow
    <3> QED
      BY <3>1, <3>2 DEF Next
  <2> DEFINE s == slice[c]
             got == TakenAtRandom(s, Num - Len(urls[c]))
  <2>2. s \in Seq(Keys) /\ urls[c] \in Seq(Keys) /\ Num - Len(urls[c]) \in Int
    BY <2>t, LenProperties, NumAssumption DEF TypeOK
  <2>3. /\ got \in Seq(Keys) /\ Len(got) \in Nat /\ Len(s) \in Nat /\ Len(got) <= Len(s)
        /\ \A j \in 1 .. Len(got) : got[j] = s[j]
    BY Zenon, <2>2, TakenAtRandomFacts, LenProperties
  <2>4. NoGap(s)
    BY DEF SweepInv
  <2>5. urls'[c] = urls[c] \o got
    BY Zenon, <2>1, <2>t DEF Fill, TypeOK
  <2>6. \A j \in 1 .. Len(s) : s[j] \in Int
    BY <2>2, ElementOfSeq, MaxKeyAssumption DEF Keys
  <2> HIDE DEF s, got
  <2> DEFINE u == urls[c]
             v == u \o got
  <2>7. /\ Len(u) \in Nat /\ Len(v) = Len(u) + Len(got)
        /\ \A j \in 1 .. Len(u) + Len(got) : v[j] = IF j <= Len(u) THEN u[j] ELSE got[j - Len(u)]
    BY ZenonT(30), <2>2, <2>3, ConcatProperties, LenProperties
  <2>8. i \in Len(u) + 1 .. Len(v)
    BY Zenon, <2>5
  <2>9. urls'[c] = v
    BY <2>5
  <2> HIDE DEF u, v
  <2>10. i - Len(u) \in 1 .. Len(got) /\ v[i] = got[i - Len(u)]
    BY SMTT(30), <2>3, <2>7, <2>8
  <2>11. i - Len(u) \in 1 .. Len(s) /\ v[i] = s[i - Len(u)]
    BY <2>3, <2>10
  <2>12. lastRand < v[i] /\ v[i] \in Int
    BY <2>4, <2>6, <2>11 DEF NoGap
  <2>13. \A k \in shown : k <= lastRand /\ k \in Int
    BY <2>t, MaxKeyAssumption DEF SweepInv, TypeOK, Keys
  <2>14. lastRand \in Int
    BY <2>t DEF TypeOK
  <2> QED
    BY <2>9, <2>12, <2>13, <2>14
<1> QED
  BY SweepInit, SweepNext, <1>1, PTL DEF Spec, NoRepeatInSweep, Fresh
=============================================================================
