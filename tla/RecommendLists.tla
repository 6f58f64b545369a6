-------------------------- MODULE RecommendLists ---------------------------
(***************************************************************************)
(* Proofs about the vectors GetRecommend fills (module Recommend): the     *)
(* urls, descriptions and labels that the caller indexes together.  The    *)
(* lemmas on the steps of a call are those of RecommendProofs.             *)
(***************************************************************************)
EXTENDS RecommendProofs

(* The inductive invariant of the result vectors: every tag still to be    *)
(* looked up may add Cap rows, and until the vectors are stripped each     *)
(* label is the tag its row was found for.                                 *)
Collecting(p, u, t, n) ==
  /\ Len(u) + Cap * Len(p) <= Top * Cap
  /\ n = Len(u)
  /\ \A i \in 1 .. Len(u) : t[i] \in Tags /\ u[i] \in Finds[t[i]]

Labelled(u, t, n) ==
  /\ Len(u) <= Num
  /\ \A i \in 1 .. Len(t) :
       IF i > n THEN t[i] = KeyTag[u[i]]
       ELSE \E tag \in Tags : u[i] \in Finds[tag] /\ LabelOf(tag, t[i])

Lists(l, p, u, d, t, n) ==
  /\ l # "return" => Collecting(p, u, t, n)
  /\ l = "return" => Labelled(u, t, n)
  /\ l \in {"idle", "user"} => p = << >> /\ u = << >>
  /\ Len(d) = Len(u) /\ Len(t) = Len(u)

ListsInv ==
  /\ TypeOK
  /\ \A c \in Callers : Lists(pc[c], plan[c], urls[c], desc[c], tags[c], picked[c])
-----------------------------------------------------------------------------
(* The vector z is v with the elements of w pushed onto it.                *)
IsAppended(z, v, w) ==
  /\ Len(z) = Len(v) + Len(w)
  /\ \A j \in 1 .. Len(v) : z[j] = v[j]
  /\ \A j \in 1 .. Len(w) : z[Len(v) + j] = w[j]

(* push_back of several elements does that.                                *)
LEMMA Appended ==
  ASSUME NEW S, NEW v \in Seq(S), NEW w \in Seq(S), NEW z, z = v \o w
  PROVE  IsAppended(z, v, w)
<1>1. /\ Len(z) = Len(v) + Len(w) /\ Len(v) \in Nat /\ Len(w) \in Nat
      /\ \A j \in 1 .. Len(v) + Len(w) : z[j] = IF j <= Len(v) THEN v[j] ELSE w[j - Len(v)]
  BY ConcatProperties, LenProperties
<1>2. \A j \in 1 .. Len(v) : z[j] = v[j]
  BY <1>1
<1>3. ASSUME NEW j \in 1 .. Len(w)
      PROVE  z[Len(v) + j] = w[j]
  <2>1. Len(v) + j \in 1 .. Len(v) + Len(w) /\ ~ (Len(v) + j <= Len(v)) /\ (Len(v) + j) - Len(v) = j
    BY <1>1
  <2> QED
    BY <1>1, <2>1
<1> QED
  BY <1>1, <1>2, <1>3 DEF IsAppended

(* The vectors of a call that is not under way.                            *)
LEMMA EmptyLists == Lists("idle", << >>, << >>, << >>, << >>, 0)
<1>1. Len(<< >>) = 0 /\ Cap * 0 = 0 /\ 0 <= Top * Cap
  BY EmptySeq, NumAssumption
<1> QED
  BY <1>1 DEF Lists, Collecting, Labelled

(* A call that has not begun has empty vectors.                            *)
LEMMA ListsInit == Init => ListsInv
<1> SUFFICES ASSUME Init PROVE ListsInv
  OBVIOUS
<1>1. TypeOK
  BY TypeInit
<1>2. ASSUME NEW c \in Callers
      PROVE  Lists(pc[c], plan[c], urls[c], desc[c], tags[c], picked[c])
  <2>1. /\ pc[c] = "idle" /\ plan[c] = << >> /\ urls[c] = << >> /\ desc[c] = << >>
        /\ tags[c] = << >> /\ picked[c] = 0
    BY DEF Init
  <2> QED
    BY <2>1, EmptyLists
<1> QED
  BY <1>1, <1>2 DEF ListsInv

(* Every step of a call keeps its three vectors parallel and in bounds.    *)
LEMMA ListsNext == ListsInv /\ [Next]_vars => ListsInv'
<1> SUFFICES ASSUME ListsInv, [Next]_vars
             PROVE  ListsInv'
  BY Zenon
<1> USE DEF Goto, local
<1>t. TypeOK /\ TypeOK'
  BY TypeNext DEF ListsInv
<1> DEFINE Mine(c) == <<pc[c], plan[c], urls[c], desc[c], tags[c], picked[c]>>
           Good(c) == Lists(pc[c], plan[c], urls[c], desc[c], tags[c], picked[c])
<1>a. ASSUME NEW c \in Callers, Mine(c)' = Mine(c)
      PROVE  Good(c)'
  BY Zenon, <1>a DEF ListsInv
<1>b. ASSUME NEW c \in Callers, Good(c)', \A d \in Callers : d # c => Mine(d)' = Mine(d)
      PROVE  ListsInv'
  BY Zenon, <1>a, <1>b, <1>t DEF ListsInv
<1>n. Num \in Nat /\ Top \in Nat /\ Cap \in Nat /\ Top * Cap \in Nat /\ Top * Cap <= Num
  BY NumAssumption
<1>1. CASE AddRow
  BY Zenon, <1>1, <1>a, <1>t DEF AddRow, ListsInv
<1>2. ASSUME NEW c \in Callers, Call(c)
      PROVE  ListsInv'
  <2>1. \A d \in Callers : d # c => Mine(d)' = Mine(d)
    BY <1>2, <1>t DEF Call, CallUnlocked, TypeOK
  <2>2. pc[c] = "idle" /\ pc'[c] = "user" /\ UNCHANGED <<plan, urls, desc, tags, picked>>
    BY <1>2, <1>t DEF Call, CallUnlocked, TypeOK
  <2>3. Good(c)'
    BY Zenon, <2>2 DEF ListsInv, Lists
  <2> QED
    BY Zenon, <1>b, <2>1, <2>3
<1>3. ASSUME NEW c \in Callers, ReadUser(c)
      PROVE  ListsInv'
  <2>1. /\ pc[c] = "user" /\ pc'[c] \in {"random", "fail", "tags"}
        /\ UNCHANGED <<urls, desc, tags, picked>>
    BY Zenon, <1>3, <1>t DEF ReadUser, TypeOK
  <2>2. plan' = plan \/ \E q \in Seq(Tags \X (0 .. Cap)) : Len(q) <= Top /\ plan' = [plan EXCEPT ![c] = q]
    BY Zenon, <1>3, PlansFacts DEF ReadUser
  <2>3. \A d \in Callers : d # c => pc'[d] = pc[d]
    BY Zenon, <1>3, <1>t DEF ReadUser, TypeOK
  <2>4. \A d \in Callers : d # c => plan'[d] = plan[d]
    BY Zenon, <1>t, <2>2 DEF TypeOK
  <2>5. Good(c) /\ urls[c] = << >> /\ plan[c] = << >>
    BY <2>1 DEF ListsInv, Lists
  <2>6. Len(plan'[c]) \in Nat /\ Len(plan'[c]) <= Top
    BY SMTT(30), <1>n, <1>t, <2>2, <2>5, EmptySeq, LenProperties DEF TypeOK
  <2>7. Len(urls[c]) = 0 /\ Cap * Len(plan'[c]) <= Cap * Top
    BY SMTT(30), <1>n, <2>5, <2>6, EmptySeq
  <2>8. Len(urls[c]) + Cap * Len(plan'[c]) <= Top * Cap
    BY <1>n, <2>6, <2>7
  <2>9. Good(c)'
    BY <2>1, <2>5, <2>8 DEF Lists, Collecting
  <2> QED
    BY Zenon, <1>b, <2>1, <2>3, <2>4, <2>9
<1>4. ASSUME NEW c \in Callers, PickForTag(c)
      PROVE  ListsInv'
  <2> DEFINE t == Head(plan[c])[1]
             n == Head(plan[c])[2]
             u == urls[c]
  <2>1. /\ pc[c] = "tags" /\ pc' = pc /\ plan[c] # << >> /\ plan'[c] = Tail(plan[c])
        /\ plan[c] \in Seq(Tags \X (0 .. Cap)) /\ \A d \in Callers : d # c => plan'[d] = plan[d]
    BY Zenon, <1>4, <1>t DEF PickForTag, TypeOK
  <2>2. /\ Head(plan[c]) \in Tags \X (0 .. Cap)
        /\ Len(plan'[c]) = Len(plan[c]) - 1 /\ Len(plan[c]) \in Nat
    BY <2>1, HeadTailProperties, LenProperties
  <2>3. t \in Tags /\ n \in Nat /\ n <= Cap /\ TagPos[t] \in Int
    BY <2>2, <1>n, TagsAssumption
  <2>4. PICK s \in {<< >>} \cup Slices(TagPos[t]) :
          /\ urls' = [urls EXCEPT ![c] = @ \o TakenForTag(s, t, n)]
          /\ desc' = [desc EXCEPT ![c] = @ \o TakenForTag(s, t, n)]
          /\ tags' = [tags EXCEPT ![c] = @ \o Labels(t, Len(TakenForTag(s, t, n)))]
          /\ picked' = [picked EXCEPT ![c] = @ + Len(TakenForTag(s, t, n))]
    BY Zenon, <1>4 DEF PickForTag
  <2> HIDE DEF t, n
  <2> DEFINE got == TakenForTag(s, t, n)
             lab == Labels(t, Len(got))
  <2>5. s \in Seq(Keys)
    <3>1. rows \in Seq(Keys)
      BY <1>t DEF TypeOK
    <3>2. s \in Slices(TagPos[t]) => s \in Seq(Keys)
      BY <2>3, <3>1, SliceFacts
    <3>3. s = << >> => s \in Seq(Keys)
      BY EmptySeq
    <3> QED
      BY <3>2, <3>3
  <2>6. got \in Seq(Keys) /\ Len(got) \in Nat /\ Len(got) <= n /\ \A j \in 1 .. Len(got) : got[j] \in Finds[t]
    BY Zenon, <2>3, <2>5, TakenForTagFacts, LenProperties
  <2>7. \A d \in Callers : d # c => /\ urls'[d] = urls[d] /\ desc'[d] = desc[d]
                                   /\ tags'[d] = tags[d] /\ picked'[d] = picked[d]
    BY Zenon, <1>t, <2>4 DEF TypeOK
  <2>8. /\ urls'[c] = u \o got /\ desc'[c] = desc[c] \o got /\ tags'[c] = tags[c] \o lab
        /\ picked'[c] = picked[c] + Len(got)
    BY Zenon, <1>t, <2>4 DEF TypeOK
  <2> HIDE DEF got
  <2>9. lab \in [1 .. Len(got) -> Seq(Segment)] /\ \A j \in 1 .. Len(got) : lab[j] = t
    BY <2>3, TagsAssumption DEF Labels
  <2>10. lab \in Seq(Seq(Segment)) /\ Len(lab) = Len(got)
    BY <2>6, <2>9
  <2> HIDE DEF lab
  <2>11. /\ u \in Seq(Keys) /\ desc[c] \in Seq(Keys) /\ tags[c] \in Seq(Seq(Segment))
         /\ Len(u) \in Nat /\ Len(desc[c]) = Len(u) /\ Len(tags[c]) = Len(u)
         /\ Collecting(plan[c], u, tags[c], picked[c])
    BY Zenon, <1>t, <2>1, LenProperties DEF TypeOK, ListsInv, Lists
  <2> HIDE DEF u
  <2>12. /\ Len(urls'[c]) = Len(u) + Len(got)
         /\ \A j \in 1 .. Len(u) : urls'[c][j] = u[j]
         /\ \A j \in 1 .. Len(got) : urls'[c][Len(u) + j] = got[j]
    <3>1. IsAppended(urls'[c], u, got)
      BY Zenon, <2>6, <2>8, <2>11, Appended
    <3> QED
      BY Zenon, <3>1 DEF IsAppended
  <2>13. Len(desc'[c]) = Len(u) + Len(got)
    <3>1. IsAppended(desc'[c], desc[c], got)
      BY Zenon, <2>6, <2>8, <2>11, Appended
    <3> QED
      BY Zenon, <2>11, <3>1 DEF IsAppended
  <2>14. /\ Len(tags'[c]) = Len(u) + Len(got)
         /\ \A j \in 1 .. Len(u) : tags'[c][j] = tags[c][j]
         /\ \A j \in 1 .. Len(got) : tags'[c][Len(u) + j] = lab[j]
    <3>1. IsAppended(tags'[c], tags[c], lab)
      BY Zenon, <2>8, <2>10, <2>11, Appended
    <3> QED
      BY Zenon, <2>10, <2>11, <3>1 DEF IsAppended
  <2>15. Len(urls'[c]) + Cap * Len(plan'[c]) <= Top * Cap
    <3>1. Cap * (Len(plan[c]) - 1) = Cap * Len(plan[c]) - Cap /\ Cap * Len(plan[c]) \in Int
      BY <1>n, <2>2
    <3>2. Len(u) + Cap * Len(plan[c]) <= Top * Cap
      BY <2>11 DEF Collecting
    <3> DEFINE x == Cap * Len(plan[c])
               y == Top * Cap
    <3>3. Len(urls'[c]) = Len(u) + Len(got) /\ Cap * Len(plan'[c]) = x - Cap /\ x \in Int /\ y \in Int
          /\ Len(u) + x <= y
      BY <1>n, <2>2, <2>12, <3>1, <3>2
    <3> HIDE DEF x, y
    <3>4. Len(u) + Len(got) + (x - Cap) <= y
      BY SMTT(30), <1>n, <2>3, <2>6, <2>11, <3>3
    <3> QED
      BY Zenon, <3>3, <3>4 DEF y
  <2>16. ASSUME NEW j \in 1 .. Len(urls'[c])
         PROVE  tags'[c][j] \in Tags /\ urls'[c][j] \in Finds[tags'[c][j]]
    <3>1. CASE j <= Len(u)
      <4>1. j \in 1 .. Len(u)
        BY <2>6, <2>11, <2>12, <3>1
      <4> QED
        BY Zenon, <2>11, <2>12, <2>14, <4>1 DEF Collecting
    <3>2. CASE j > Len(u)
      <4>1. PICK k \in 1 .. Len(got) : j = Len(u) + k
        <5>1. j - Len(u) \in 1 .. Len(got) /\ j = Len(u) + (j - Len(u))
          BY <2>6, <2>11, <2>12, <3>2
        <5> QED
          BY Zenon, <5>1
      <4> QED
        BY ZenonT(30), <2>3, <2>6, <2>9, <2>12, <2>14, <4>1 DEF lab
    <3> QED
      BY <2>6, <2>11, <2>12, <3>1, <3>2
  <2>17. picked'[c] = Len(urls'[c])
    BY Zenon, <2>8, <2>11, <2>12 DEF Collecting
  <2>18. Collecting(plan[c], urls[c], tags[c], picked[c])'
    BY <2>15, <2>16, <2>17 DEF Collecting
  <2>19. Good(c)'
    BY Zenon, <2>1, <2>12, <2>13, <2>14, <2>18 DEF Lists
  <2> QED
    BY <1>b, <2>1, <2>7, <2>19
<1>5. ASSUME NEW c \in Callers, PickedAll(c)
      PROVE  ListsInv'
  <2>1. /\ pc[c] = "tags" /\ pc'[c] = "random" /\ \A d \in Callers : d # c => pc'[d] = pc[d]
        /\ UNCHANGED <<plan, urls, desc, tags, picked>>
    BY Zenon, <1>5, <1>t DEF PickedAll, TypeOK
  <2>2. Good(c)'
    BY <2>1 DEF ListsInv, Lists
  <2> QED
    BY Zenon, <1>b, <2>1, <2>2
<1>6. ASSUME NEW c \in Callers, ScanOn(c) \/ ScanAgain(c)
      PROVE  ListsInv'
  <2>1. /\ pc[c] \in {"random", "rescan"} /\ pc'[c] \in {"fill", "rescan"}
        /\ \A d \in Callers : d # c => pc'[d] = pc[d]
        /\ UNCHANGED <<plan, urls, desc, tags, picked>>
    BY Zenon, <1>6, <1>t DEF ScanOn, ScanAgain, TypeOK
  <2>2. Good(c)'
    BY Zenon, <2>1 DEF ListsInv, Lists
  <2> QED
    BY <1>b, <2>1, <2>2
<1>7. ASSUME NEW c \in Callers, Fill(c)
      PROVE  ListsInv'
  <2> DEFINE got == TakenAtRandom(slice[c], Num - Len(urls[c]))
             all == tags[c] \o [i \in DOMAIN got |-> RowKey(got[i])]
             u == urls[c]
  <2>1. /\ pc[c] = "fill" /\ pc'[c] = "return" /\ \A d \in Callers : d # c => pc'[d] = pc[d]
        /\ plan' = plan /\ picked' = picked
    BY Zenon, <1>7, <1>t DEF Fill, TypeOK
  <2>2. \A d \in Callers : d # c => urls'[d] = urls[d] /\ desc'[d] = desc[d] /\ tags'[d] = tags[d]
    BY Zenon, <1>7, <1>t DEF Fill, TypeOK
  <2>3. /\ urls'[c] = u \o got /\ desc'[c] = desc[c] \o got
        /\ tags'[c] = [i \in DOMAIN all |-> Strip(all[i])]
    BY Zenon, <1>7, <1>t DEF Fill, TypeOK
  <2>4. /\ u \in Seq(Keys) /\ desc[c] \in Seq(Keys) /\ tags[c] \in Seq(Seq(Segment))
        /\ Len(u) \in Nat /\ Len(desc[c]) = Len(u) /\ Len(tags[c]) = Len(u)
        /\ Collecting(plan[c], u, tags[c], picked[c]) /\ slice[c] \in Seq(Keys)
    BY Zenon, <1>t, <2>1, LenProperties DEF TypeOK, ListsInv, Lists
  <2>5. Len(u) <= Num /\ Num - Len(u) \in Int
    <3>1. Len(plan[c]) \in Nat
      BY <1>t, LenProperties DEF TypeOK
    <3>2. Cap * Len(plan[c]) \in Nat
      BY <1>n, <3>1
    <3>3. Len(u) + Cap * Len(plan[c]) <= Top * Cap
      BY <2>4 DEF Collecting
    <3> DEFINE x == Cap * Len(plan[c])
               y == Top * Cap
    <3>4. x \in Nat /\ y \in Nat /\ y <= Num /\ Len(u) + x <= y
      BY Zenon, <1>n, <3>2, <3>3
    <3> HIDE DEF x, y
    <3> QED
      BY <1>n, <2>4, <3>4
  <2>6. /\ got \in Seq(Keys) /\ Len(got) \in Nat /\ Len(got) <= Num - Len(u)
        /\ \A j \in 1 .. Len(got) : got[j] \in Keys
    <3>1. Num - Len(u) >= 0
      BY <1>n, <2>4, <2>5
    <3>2. got \in Seq(Keys) /\ Len(got) <= Num - Len(u)
      BY Zenon, <2>4, <2>5, <3>1, TakenAtRandomFacts
    <3> QED
      BY Zenon, <3>2, LenProperties, ElementOfSeq
  <2> HIDE DEF got
  <2>7. /\ all \in Seq(Seq(Segment)) /\ Len(all) = Len(tags[c]) + Len(got)
        /\ \A i \in 1 .. Len(all) :
             all[i] = IF i <= Len(tags[c]) THEN tags[c][i] ELSE RowKey(got[i - Len(tags[c])])
    BY ZenonT(30), <1>t, <2>6, FillType
  <2> HIDE DEF all
  <2>8. DOMAIN all = 1 .. Len(all) /\ Len(all) = Len(u) + Len(got) /\ Len(all) \in Nat
    BY Zenon, <2>4, <2>6, <2>7, LenProperties
  <2>9. Len(tags'[c]) = Len(u) + Len(got) /\ \A i \in 1 .. Len(u) + Len(got) : tags'[c][i] = Strip(all[i])
    BY SMTT(30), <2>3, <2>8
  <2> HIDE DEF u
  <2>10. /\ Len(urls'[c]) = Len(u) + Len(got)
         /\ \A j \in 1 .. Len(u) : urls'[c][j] = u[j]
         /\ \A j \in 1 .. Len(got) : urls'[c][Len(u) + j] = got[j]
    <3>1. IsAppended(urls'[c], u, got)
      BY Zenon, <2>3, <2>4, <2>6, Appended
    <3> QED
      BY Zenon, <3>1 DEF IsAppended
  <2>11. Len(desc'[c]) = Len(u) + Len(got)
    <3>1. IsAppended(desc'[c], desc[c], got)
      BY Zenon, <2>3, <2>4, <2>6, Appended
    <3> QED
      BY Zenon, <2>4, <3>1 DEF IsAppended
  <2>12. Len(urls'[c]) <= Num
    BY SMTT(30), <1>n, <2>4, <2>5, <2>6, <2>10
  <2>13. picked'[c] = Len(u)
    BY Zenon, <2>1, <2>4 DEF Collecting
  <2>14. ASSUME NEW i \in 1 .. Len(tags'[c])
         PROVE  IF i > picked'[c] THEN tags'[c][i] = KeyTag[urls'[c][i]]
                ELSE \E tag \in Tags : urls'[c][i] \in Finds[tag] /\ LabelOf(tag, tags'[c][i])
    <3>1. i \in 1 .. Len(u) + Len(got) /\ i \in Int /\ tags'[c][i] = Strip(all[i])
      BY <2>4, <2>6, <2>9
    <3>2. CASE i > Len(u)
      <4>1. PICK k \in 1 .. Len(got) : i = Len(u) + k
        <5>1. i - Len(u) \in 1 .. Len(got) /\ i = Len(u) + (i - Len(u))
          BY <2>4, <2>6, <3>1, <3>2
        <5> QED
          BY Zenon, <5>1
      <4>2. ~ (i <= Len(tags[c])) /\ i - Len(tags[c]) = k /\ i \in 1 .. Len(all)
        BY <2>4, <2>8, <3>1, <4>1
      <4>3. all[i] = RowKey(got[k])
        BY Zenon, <2>7, <4>2
      <4>4. tags'[c][i] = KeyTag[got[k]]
        BY Zenon, <2>6, <3>1, <4>3, StripFacts
      <4>5. urls'[c][i] = got[k]
        BY Zenon, <2>10, <4>1
      <4> QED
        BY Zenon, <2>13, <3>2, <4>4, <4>5
    <3>3. CASE ~ (i > Len(u))
      <4>1. i \in 1 .. Len(u) /\ i <= Len(tags[c]) /\ i \in 1 .. Len(all)
        BY <2>4, <2>8, <3>1, <3>3
      <4>2. all[i] = tags[c][i] /\ urls'[c][i] = u[i]
        BY Zenon, <2>7, <2>10, <4>1
      <4>3. tags[c][i] \in Tags /\ u[i] \in Finds[tags[c][i]]
        BY Zenon, <2>4, <4>1 DEF Collecting
      <4>4. LabelOf(tags[c][i], Strip(tags[c][i]))
        BY Zenon, <4>3, StripFacts, TagsAssumption
      <4>5. urls'[c][i] \in Finds[tags[c][i]] /\ LabelOf(tags[c][i], tags'[c][i])
        BY Zenon, <3>1, <4>2, <4>3, <4>4
      <4> QED
        BY Zenon, <2>13, <3>3, <4>3, <4>5
    <3> QED
      BY <3>2, <3>3
  <2>15. Labelled(urls[c], tags[c], picked[c])'
    BY Zenon, <2>12, <2>14 DEF Labelled
  <2>16. Good(c)'
    BY Zenon, <2>1, <2>9, <2>10, <2>11, <2>15 DEF Lists
  <2> QED
    BY Zenon, <1>b, <2>1, <2>2, <2>16
<1>8. ASSUME NEW c \in Callers, Return(c)
      PROVE  ListsInv'
  <2>1. /\ pc'[c] = "idle" /\ plan'[c] = << >> /\ urls'[c] = << >> /\ desc'[c] = << >>
        /\ tags'[c] = << >> /\ picked'[c] = 0
    BY <1>8, <1>t DEF Return, TypeOK
  <2>2. \A d \in Callers : d # c => Mine(d)' = Mine(d)
    BY <1>8, <1>t DEF Return, TypeOK
  <2>3. Good(c)'
    BY <2>1, EmptyLists
  <2> QED
    BY Zenon, <1>b, <2>2, <2>3
<1>9. CASE UNCHANGED vars
  BY Zenon, <1>9, <1>a, <1>t DEF vars, ListsInv
<1> QED
  BY <1>1, <1>2, <1>3, <1>4, <1>5, <1>6, <1>7, <1>8, <1>9 DEF Next, GetRecommend

(* GetRecommend: the vectors the handler indexes together have one length, *)
(* at most num.                                                            *)
THEOREM ListsParallel == Spec => []ParallelLists
<1>1. ListsInv => ParallelLists
  BY Zenon DEF ListsInv, Lists, Labelled, ParallelLists
<1> QED
  BY ListsInit, ListsNext, <1>1, PTL DEF Spec

(* GetRecommend: the label of a row given in turn is the whole keyword its *)
(* row key was made from; the label of a row picked by tag is what the cut *)
(* at dashes leaves of a tag in its key, the tag itself unless that is     *)
(* "-x" or has two dashes or more.                                         *)
THEOREM RowsLabelled == Spec => []LabelsFollowRows
<1>1. ListsInv => LabelsFollowRows
  BY Zenon DEF ListsInv, Lists, Labelled, LabelsFollowRows
<1> QED
  BY ListsInit, ListsNext, <1>1, PTL DEF Spec
=============================================================================
