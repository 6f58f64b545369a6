------------------------ MODULE RecordActionsProofs ------------------------
(***************************************************************************)
(* Proofs about RecordActions, for every set of workers, pages and tags,   *)
(* both meanings of Table::Write, every set of failures and every bound.   *)
(***************************************************************************)
EXTENDS RecordActions, FiniteSetTheorems, TLAPS

(* The number of occurrences of a tag in a vector of tags is a number.     *)
LEMMA OccurrencesType ==
  ASSUME NEW ts \in Seq(Tags), NEW t
  PROVE  Occurrences(ts, t) \in Nat
<1>1. IsFiniteSet(1..Len(ts))
  BY FS_Interval
<1>2. {i \in DOMAIN ts : ts[i] = t} \subseteq 1..Len(ts)
  OBVIOUS
<1>3. IsFiniteSet({i \in DOMAIN ts : ts[i] = t})
  BY <1>1, <1>2, FS_Subset
<1> QED
  BY <1>3, FS_CardinalityType DEF Occurrences

(* Wrapping an int never makes it larger, and does nothing in range.       *)
LEMMA WrapIntBound ==
  ASSUME NEW n \in Int
  PROVE  /\ WrapInt(n) \in Int
         /\ WrapInt(n) <= n
         /\ n <= IntMax => WrapInt(n) = n
BY IntMaxAssumption DEF WrapInt

(* The record a failed read leaves is a record.                            *)
LEMMA EmptyRecordType == EmptyRecord \in Row /\ EmptyRecord \in [Tags -> Nat]
BY DEF EmptyRecord, Row

(* The counting loop maps a user record to a user record.                  *)
LEMMA CountedType ==
  ASSUME NEW rec \in Row, NEW ts \in Seq(Tags)
  PROVE  Counted(rec, ts) \in Row
<1> SUFFICES ASSUME NEW t \in Tags
             PROVE  WrapInt(rec[t] + Occurrences(ts, t)) \in Int
  BY DEF Counted, Row
<1>1. rec[t] \in Int /\ Occurrences(ts, t) \in Nat
  BY OccurrencesType DEF Row
<1> DEFINE x == rec[t] + Occurrences(ts, t)
<1>2. x \in Int
  BY <1>1
<1> HIDE DEF x
<1>3. WrapInt(x) \in Int
  BY <1>2, WrapIntBound
<1> QED
  BY <1>3 DEF x

(* Every variable keeps its type.                                          *)
THEOREM TypeCorrect == Spec => []TypeOK
<1> USE ContentsAssumption, TagListsAssumption, MaxCallsAssumption
<1>1. Init => TypeOK
  <2> SUFFICES ASSUME Init PROVE TypeOK
    OBVIOUS
  <2>1. << >> \in Seq(Urls) /\ << >> \in Seq(Tags)
    OBVIOUS
  <2>2. EmptyRecord \in Row /\ EmptyRecord \in [Tags -> Nat]
    BY EmptyRecordType
  <2>3. webTag \in [Urls -> TagLists] /\ userTable \in Row /\ seen \in [Tags -> Nat]
    BY <2>2 DEF Init
  <2>4. /\ pc \in [Workers -> {"idle", "tags", "write", "return"}]
        /\ calls \in 0..MaxCalls
        /\ history \in {"serial", "disturbed"}
    BY DEF Init
  <2>5. /\ todo \in [Workers -> Seq(Urls)]
        /\ tags \in [Workers -> Seq(Tags)]
        /\ userRecord \in [Workers -> Row]
    BY <2>1, <2>2 DEF Init
  <2> QED
    BY <2>3, <2>4, <2>5 DEF TypeOK
<1>2. TypeOK /\ [Next]_vars => TypeOK'
  <2> SUFFICES ASSUME TypeOK, [Next]_vars PROVE TypeOK'
    OBVIOUS
  <2> USE DEF TypeOK
  <2>1. ASSUME NEW u \in Urls, TagPage(u) PROVE TypeOK'
    BY <2>1 DEF TagPage
  <2>2. ASSUME NEW w \in Workers, Call(w) PROVE TypeOK'
    BY <2>2 DEF Call
  <2>3. ASSUME NEW w \in Workers, ReadTags(w) PROVE TypeOK'
    <3>1. todo[w] \in Seq(Urls) /\ todo[w] # << >>
      BY <2>3 DEF ReadTags
    <3>2. Head(todo[w]) \in Urls /\ Tail(todo[w]) \in Seq(Urls)
      BY <3>1
    <3>3. webTag[Head(todo[w])] \in Seq(Tags)
      BY <3>2
    <3>4. tags[w] \o webTag[Head(todo[w])] \in Seq(Tags)
      BY <3>3
    <3> QED
      BY Zenon, <2>3, <3>2, <3>4 DEF ReadTags
  <2>4. ASSUME NEW w \in Workers, ReadUser(w) PROVE TypeOK'
    BY Zenon, <2>4, EmptyRecordType DEF ReadUser
  <2>5. ASSUME NEW w \in Workers, WriteUser(w) PROVE TypeOK'
    <3> DEFINE rec == Counted(userRecord[w], tags[w])
    <3>1. rec \in Row
      BY CountedType
    <3>2. Stored(userTable, rec) \in Row
      BY <3>1 DEF Stored, Row
    <3>3. \A t \in Tags : seen[t] + Occurrences(tags[w], t) \in Nat
      BY OccurrencesType
    <3> HIDE DEF rec
    <3>4. userTable' \in Row
      BY <2>5, <3>2 DEF WriteUser, rec
    <3>5. seen' \in [Tags -> Nat]
      BY <2>5, <3>3 DEF WriteUser
    <3>6. userRecord' = [userRecord EXCEPT ![w] = rec]
      BY <2>5 DEF WriteUser, rec
    <3>7. /\ history' \in {"serial", "disturbed"}
          /\ pc' = [pc EXCEPT ![w] = "return"]
          /\ UNCHANGED <<webTag, todo, tags, calls>>
      BY <2>5 DEF WriteUser
    <3> QED
      BY <3>1, <3>4, <3>5, <3>6, <3>7
  <2>6. ASSUME NEW w \in Workers, Return(w) PROVE TypeOK'
    BY <2>6, EmptyRecordType DEF Return
  <2>7. ASSUME NEW w \in Workers, Crash(w) PROVE TypeOK'
    BY <2>7, EmptyRecordType DEF Crash
  <2>8. CASE UNCHANGED vars
    BY <2>8 DEF vars
  <2> QED
    BY <2>1, <2>2, <2>3, <2>4, <2>5, <2>6, <2>7, <2>8 DEF Next
<1> QED
  BY <1>1, <1>2, PTL DEF Spec

-----------------------------------------------------------------------------
(* A write adds at most what it counted, and never removes a counter.      *)
LEMMA CountedBounds ==
  ASSUME NEW rec \in Row, NEW ts \in Seq(Tags), NEW t \in Tags, NEW n \in Nat,
         rec[t] <= n
  PROVE  /\ Counted(rec, ts)[t] \in Int
         /\ n + Occurrences(ts, t) \in Nat
         /\ n <= n + Occurrences(ts, t)
         /\ Counted(rec, ts)[t] <= n + Occurrences(ts, t)
         /\ n + Occurrences(ts, t) <= IntMax =>
              Counted(rec, ts)[t] = rec[t] + Occurrences(ts, t)
<1>1. rec[t] \in Int /\ Occurrences(ts, t) \in Nat
  BY OccurrencesType DEF Row
<1>2. Counted(rec, ts)[t] = WrapInt(rec[t] + Occurrences(ts, t))
  BY DEF Counted
<1> DEFINE o == Occurrences(ts, t)
           r == rec[t]
<1>3. /\ WrapInt(r + o) \in Int
      /\ WrapInt(r + o) <= r + o
      /\ r + o <= IntMax => WrapInt(r + o) = r + o
  <2>1. r + o \in Int
    BY <1>1
  <2> HIDE DEF o, r
  <2> QED
    BY <2>1, WrapIntBound
<1>4. r \in Int /\ o \in Nat /\ r <= n /\ IntMax \in Nat
  BY <1>1, IntMaxAssumption
<1>5. Counted(rec, ts)[t] = WrapInt(r + o)
  BY <1>2
<1> HIDE DEF o, r
<1>6. /\ Counted(rec, ts)[t] \in Int
      /\ n + o \in Nat
      /\ n <= n + o
      /\ Counted(rec, ts)[t] <= n + o
      /\ n + o <= IntMax => Counted(rec, ts)[t] = r + o
  BY <1>3, <1>4, <1>5
<1> QED
  BY <1>6 DEF o, r

(* The inductive form of NoPhantomViews: the local copies a write may be   *)
(* computed from are bounded as well.                                      *)
CopiesBounded ==
  /\ NoPhantomViews
  /\ \A w \in Workers, t \in Tags : userRecord[w][t] <= seen[t]

LEMMA CopiesBoundedInvariant == Spec => []CopiesBounded
<1>1. Init => CopiesBounded
  BY DEF Init, CopiesBounded, NoPhantomViews, EmptyRecord
<1>2. TypeOK /\ CopiesBounded /\ [Next]_vars => CopiesBounded'
  <2> SUFFICES ASSUME TypeOK, CopiesBounded, [Next]_vars PROVE CopiesBounded'
    OBVIOUS
  <2> USE DEF CopiesBounded, NoPhantomViews
  <2>t. /\ userRecord \in [Workers -> Row] /\ userTable \in Row
        /\ seen \in [Tags -> Nat] /\ tags \in [Workers -> Seq(Tags)]
    BY DEF TypeOK
  <2>1. ASSUME NEW u \in Urls, TagPage(u) PROVE CopiesBounded'
    BY <2>1 DEF TagPage
  <2>2. ASSUME NEW w \in Workers, Call(w) PROVE CopiesBounded'
    BY <2>2 DEF Call
  <2>3. ASSUME NEW w \in Workers, ReadTags(w) PROVE CopiesBounded'
    BY <2>3 DEF ReadTags
  <2>4. ASSUME NEW w \in Workers, ReadUser(w) PROVE CopiesBounded'
    <3>1. userTable' = userTable /\ seen' = seen
      BY <2>4 DEF ReadUser
    <3>2. \A v \in Workers, t \in Tags :
            userRecord'[v][t] \in {userRecord[v][t], userTable[t], 0}
      BY ZenonT(30), <2>4, <2>t DEF ReadUser, EmptyRecord
    <3>3. \A t \in Tags : seen[t] \in Nat
      BY <2>t
    <3> QED
      BY <3>1, <3>2, <3>3
  <2>5. ASSUME NEW w \in Workers, WriteUser(w) PROVE CopiesBounded'
    <3> DEFINE rec == Counted(userRecord[w], tags[w])
    <3>1. \A t \in Tags : /\ seen'[t] = seen[t] + Occurrences(tags[w], t)
                          /\ seen[t] <= seen'[t]
                          /\ rec[t] <= seen'[t]
                          /\ seen'[t] \in Nat
      <4> TAKE t \in Tags
      <4>1. seen'[t] = seen[t] + Occurrences(tags[w], t)
        BY <2>5 DEF WriteUser
      <4>2. /\ userRecord[w] \in Row /\ tags[w] \in Seq(Tags) /\ seen[t] \in Nat
            /\ userRecord[w][t] <= seen[t]
        BY <2>t
      <4>3. /\ seen[t] + Occurrences(tags[w], t) \in Nat
            /\ seen[t] <= seen[t] + Occurrences(tags[w], t)
            /\ rec[t] <= seen[t] + Occurrences(tags[w], t)
        BY <4>2, CountedBounds
      <4> QED
        BY <4>1, <4>3
    <3>2. userTable' = Stored(userTable, rec) \/ userTable' = userTable
      BY <2>5 DEF WriteUser
    <3>3. userRecord' = [userRecord EXCEPT ![w] = rec]
      BY <2>5 DEF WriteUser
    <3>4. rec \in Row
      BY <2>t, CountedType
    <3> HIDE DEF rec
    <3>5. \A t \in Tags : userTable'[t] <= seen'[t]
      <4> TAKE t \in Tags
      <4>1. userTable'[t] \in {userTable[t], rec[t]}
        BY <3>2 DEF Stored
      <4>2. userTable[t] <= seen[t] /\ userTable[t] \in Int /\ seen[t] \in Nat
        BY <2>t DEF Row
      <4> QED
        BY <4>1, <4>2, <3>1
    <3>6. \A v \in Workers, t \in Tags : userRecord'[v][t] <= seen'[t]
      BY <3>1, <3>3, <3>4, <2>t DEF Row
    <3> QED
      BY <3>5, <3>6
  <2>6. ASSUME NEW w \in Workers, Return(w) PROVE CopiesBounded'
    BY <2>6, <2>t DEF Return, EmptyRecord
  <2>7. ASSUME NEW w \in Workers, Crash(w) PROVE CopiesBounded'
    BY <2>7, <2>t DEF Crash, EmptyRecord
  <2>8. CASE UNCHANGED vars
    BY <2>8 DEF vars
  <2> QED
    BY <2>1, <2>2, <2>3, <2>4, <2>5, <2>6, <2>7, <2>8 DEF Next
<1> QED
  BY <1>1, <1>2, TypeCorrect, PTL DEF Spec

(* The stored counters of RecordActions never exceed what was written for  *)
(* them, under every interleaving, failure, crash and overflow.            *)
THEOREM ProfileNeverInflated == Spec => []NoPhantomViews
BY CopiesBoundedInvariant, PTL DEF CopiesBounded
-----------------------------------------------------------------------------
(* The inductive form of SerialViewsExact: in a serial history at most one *)
(* call is recording, and the copy it is about to write back is current.   *)
SerialCopies ==
  history = "serial" =>
    /\ \A v, w \in Recording : v = w
    /\ \A w \in Workers : pc[w] = "write" => userRecord[w] = userTable
    /\ \A t \in Tags : seen[t] <= IntMax => userTable[t] = seen[t]

LEMMA SerialCopiesInvariant == Spec => []SerialCopies
<1>1. Init => SerialCopies
  BY DEF Init, SerialCopies, Recording, EmptyRecord
<1>2. TypeOK /\ CopiesBounded /\ SerialCopies /\ [Next]_vars => SerialCopies'
  <2> SUFFICES ASSUME TypeOK, CopiesBounded, SerialCopies, [Next]_vars,
                      history' = "serial"
               PROVE  SerialCopies'
    BY Zenon DEF SerialCopies
  <2> USE DEF SerialCopies, Recording
  <2>t. /\ userRecord \in [Workers -> Row] /\ userTable \in Row
        /\ seen \in [Tags -> Nat] /\ tags \in [Workers -> Seq(Tags)]
        /\ pc \in [Workers -> {"idle", "tags", "write", "return"}]
        /\ history \in {"serial", "disturbed"}
    BY DEF TypeOK
  <2>1. ASSUME NEW u \in Urls, TagPage(u) PROVE SerialCopies'
    BY <2>1 DEF TagPage
  <2>2. ASSUME NEW w \in Workers, Call(w) PROVE SerialCopies'
    BY <2>2, <2>t DEF Call
  <2>3. ASSUME NEW w \in Workers, ReadTags(w) PROVE SerialCopies'
    BY <2>3, <2>t DEF ReadTags
  <2>4. ASSUME NEW w \in Workers, ReadUser(w) PROVE SerialCopies'
    BY <2>4, <2>t DEF ReadUser
  <2>5. ASSUME NEW w \in Workers, WriteUser(w) PROVE SerialCopies'
    <3> DEFINE rec == Counted(userRecord[w], tags[w])
    <3>1. /\ userTable' = Stored(userTable, rec)
          /\ pc[w] = "write"
          /\ pc' = [pc EXCEPT ![w] = "return"]
          /\ userRecord' = [userRecord EXCEPT ![w] = rec]
          /\ seen' = [t \in Tags |-> seen[t] + Occurrences(tags[w], t)]
          /\ history = "serial"
      BY <2>5 DEF WriteUser
    <3>2. \A v \in Workers : pc'[v] \notin {"tags", "write"}
      BY <3>1, <2>t
    <3>3. ASSUME NEW t \in Tags, seen'[t] <= IntMax
          PROVE  userTable'[t] = seen'[t]
      <4> DEFINE o == Occurrences(tags[w], t)
      <4>1. seen'[t] = seen[t] + o /\ seen[t] \in Nat /\ o \in Nat /\ IntMax \in Nat
        BY <3>1, <2>t, OccurrencesType, IntMaxAssumption
      <4>2. seen[t] <= IntMax
        <5> HIDE DEF o
        <5> QED BY <4>1, <3>3
      <4>3. userRecord[w][t] = userTable[t] /\ userTable[t] = seen[t]
        BY <4>2, <3>1
      <4>4. rec[t] = seen[t] + o
        <5>1. /\ userRecord[w] \in Row /\ tags[w] \in Seq(Tags)
              /\ userRecord[w][t] <= seen[t]
          BY <4>1, <4>3, <2>t
        <5>2. seen[t] + o <= IntMax => rec[t] = userRecord[w][t] + o
          BY <5>1, <4>1, CountedBounds
        <5> QED
          BY <5>2, <4>1, <4>3, <3>3
      <4>5. userTable'[t] = IF MergeWrite /\ rec[t] = 0 THEN userTable[t] ELSE rec[t]
        BY <3>1 DEF Stored
      <4> HIDE DEF o, rec
      <4> QED
        BY <4>1, <4>3, <4>4, <4>5
    <3> QED
      BY <3>2, <3>3
  <2>6. ASSUME NEW w \in Workers, Return(w) PROVE SerialCopies'
    BY <2>6, <2>t DEF Return
  <2>7. ASSUME NEW w \in Workers, Crash(w) PROVE SerialCopies'
    BY <2>7, <2>t DEF Crash
  <2>8. CASE UNCHANGED vars
    BY <2>8 DEF vars
  <2> QED
    BY Zenon, <2>1, <2>2, <2>3, <2>4, <2>5, <2>6, <2>7, <2>8 DEF Next
<1> QED
  BY <1>1, <1>2, TypeCorrect, CopiesBoundedInvariant, PTL DEF Spec

(* RecordActions counts exactly while calls do not overlap and the calls   *)
(* on the user row succeed, whatever else fails.                           *)
THEOREM SerialCallsExact == Spec => []SerialViewsExact
<1>1. SerialCopies => SerialViewsExact
  BY DEF SerialCopies, SerialViewsExact
<1> QED
  BY <1>1, SerialCopiesInvariant, PTL
-----------------------------------------------------------------------------
(* Short of an overflow, no counter and no copy of one is negative.        *)
CountersNonNegative ==
  \A t \in Tags : seen[t] <= IntMax =>
    userTable[t] >= 0 /\ \A w \in Workers : userRecord[w][t] >= 0

(* A write that does not overflow is computed from non-negative counters.  *)
LEMMA WriteUserEffect ==
  ASSUME TypeOK, CopiesBounded, CountersNonNegative,
         NEW w \in Workers, WriteUser(w), NEW t \in Tags, seen'[t] <= IntMax
  PROVE  /\ seen[t] <= IntMax
         /\ Counted(userRecord[w], tags[w])[t] \in Int
         /\ Counted(userRecord[w], tags[w])[t] >= 0
<1> DEFINE o == Occurrences(tags[w], t)
           rec == Counted(userRecord[w], tags[w])
           r == userRecord[w][t]
<1>1. /\ userRecord[w] \in Row /\ tags[w] \in Seq(Tags) /\ seen[t] \in Nat
      /\ r <= seen[t]
  BY DEF TypeOK, CopiesBounded
<1>2. seen'[t] = seen[t] + o
  BY DEF WriteUser
<1>3. /\ rec[t] \in Int /\ seen[t] <= seen[t] + o
      /\ seen[t] + o <= IntMax => rec[t] = r + o
  BY <1>1, CountedBounds
<1>4. r \in Int /\ o \in Nat /\ IntMax \in Nat
  BY <1>1, OccurrencesType, IntMaxAssumption DEF Row
<1>5. seen[t] <= IntMax => r >= 0
  BY DEF CountersNonNegative
<1> HIDE DEF o, rec, r
<1>6. seen[t] <= IntMax /\ rec[t] \in Int /\ rec[t] >= 0
  BY <1>1, <1>2, <1>3, <1>4, <1>5
<1> QED
  BY <1>6 DEF rec

LEMMA CountersNonNegativeInvariant == Spec => []CountersNonNegative
<1>1. Init => CountersNonNegative
  BY DEF Init, CountersNonNegative, EmptyRecord
<1>2. TypeOK /\ CopiesBounded /\ CountersNonNegative /\ [Next]_vars
        => CountersNonNegative'
  <2> SUFFICES ASSUME TypeOK, CopiesBounded, CountersNonNegative, [Next]_vars
               PROVE  CountersNonNegative'
    OBVIOUS
  <2> USE DEF CountersNonNegative
  <2>t. /\ userRecord \in [Workers -> Row] /\ userTable \in Row
        /\ seen \in [Tags -> Nat] /\ tags \in [Workers -> Seq(Tags)]
    BY DEF TypeOK
  <2>1. ASSUME NEW u \in Urls, TagPage(u) PROVE CountersNonNegative'
    BY <2>1 DEF TagPage
  <2>2. ASSUME NEW w \in Workers, Call(w) PROVE CountersNonNegative'
    BY <2>2 DEF Call
  <2>3. ASSUME NEW w \in Workers, ReadTags(w) PROVE CountersNonNegative'
    BY <2>3 DEF ReadTags
  <2>4. ASSUME NEW w \in Workers, ReadUser(w) PROVE CountersNonNegative'
    <3>1. userTable' = userTable /\ seen' = seen
      BY <2>4 DEF ReadUser
    <3>2. \A v \in Workers, t \in Tags :
            userRecord'[v][t] \in {userRecord[v][t], userTable[t], 0}
      BY ZenonT(30), <2>4, <2>t DEF ReadUser, EmptyRecord
    <3> QED
      BY <3>1, <3>2
  <2>5. ASSUME NEW w \in Workers, WriteUser(w) PROVE CountersNonNegative'
    <3> DEFINE rec == Counted(userRecord[w], tags[w])
    <3> SUFFICES ASSUME NEW t \in Tags, seen'[t] <= IntMax
                 PROVE  /\ userTable'[t] >= 0
                        /\ \A v \in Workers : userRecord'[v][t] >= 0
      OBVIOUS
    <3>1. seen[t] <= IntMax /\ rec[t] >= 0 /\ rec[t] \in Int
      BY <2>5, WriteUserEffect
    <3>2. userTable'[t] \in {userTable[t], rec[t]}
      BY <2>5 DEF WriteUser, Stored
    <3>3. userRecord' = [userRecord EXCEPT ![w] = rec]
      BY <2>5 DEF WriteUser
    <3> HIDE DEF rec
    <3> QED
      BY <3>1, <3>2, <3>3, <2>t
  <2>6. ASSUME NEW w \in Workers, Return(w) PROVE CountersNonNegative'
    BY <2>6, <2>t DEF Return, EmptyRecord
  <2>7. ASSUME NEW w \in Workers, Crash(w) PROVE CountersNonNegative'
    BY <2>7, <2>t DEF Crash, EmptyRecord
  <2>8. CASE UNCHANGED vars
    BY <2>8 DEF vars
  <2> QED
    BY <2>1, <2>2, <2>3, <2>4, <2>5, <2>6, <2>7, <2>8 DEF Next
<1> QED
  BY <1>1, <1>2, TypeCorrect, CopiesBoundedInvariant, PTL DEF Spec

(* No step of RecordActions makes the engine forget a tag, as long as      *)
(* Table::Write keeps the columns a written record lacks.                  *)
THEOREM InterestNeverForgotten ==
  ASSUME MergeWrite PROVE Spec => InterestKept
<1>1. ASSUME TypeOK, CopiesBounded, CountersNonNegative, [Next]_vars,
             NEW t \in Tags, userTable[t] > 0, seen'[t] <= IntMax
      PROVE  userTable'[t] > 0
  <2>1. ASSUME NEW w \in Workers, WriteUser(w) PROVE userTable'[t] > 0
    <3> DEFINE rec == Counted(userRecord[w], tags[w])
    <3>1. rec[t] \in Int /\ rec[t] >= 0
      BY Zenon, <1>1, <2>1, WriteUserEffect
    <3>2. userTable'[t] \in {userTable[t], IF rec[t] = 0 THEN userTable[t] ELSE rec[t]}
      BY <2>1 DEF WriteUser, Stored
    <3> HIDE DEF rec
    <3> QED
      BY <1>1, <3>1, <3>2
  <2>2. ASSUME UNCHANGED userTable PROVE userTable'[t] > 0
    BY <1>1, <2>2
  <2> QED
    <3>1. \A w \in Workers : Call(w) \/ ReadTags(w) \/ ReadUser(w) \/ Return(w) \/ Crash(w)
            => UNCHANGED userTable
      BY Zenon DEF Call, ReadTags, ReadUser, Return, Crash
    <3>2. \A u \in Urls : TagPage(u) => UNCHANGED userTable
      BY DEF TagPage
    <3>3. UNCHANGED vars => UNCHANGED userTable
      BY DEF vars
    <3> QED
      BY <1>1, <2>1, <2>2, <3>1, <3>2, <3>3 DEF Next
<1>2. TypeOK /\ CopiesBounded /\ CountersNonNegative /\ [Next]_vars
        => [\A t \in Tags :
              userTable[t] > 0 /\ seen'[t] <= IntMax => userTable'[t] > 0]_vars
  BY <1>1
<1> QED
  BY <1>2, TypeCorrect, CopiesBoundedInvariant, CountersNonNegativeInvariant, PTL
  DEF Spec, InterestKept
-----------------------------------------------------------------------------
(* The counters RecordActions promises are those it stores, or its own     *)
(* account of the views once calls overlapped or failed.                   *)
LEMMA PromisedExact ==
  ASSUME TypeOK, SerialCopies
  PROVE  /\ Promised \in [Tags -> Int]
         /\ \A t \in Tags : seen[t] <= IntMax => Promised[t] = seen[t]
BY DEF TypeOK, SerialCopies, Promised, Row

(* No step of RecordActions takes a view back.                             *)
LEMMA SeenGrows ==
  ASSUME TypeOK, [Next]_vars, NEW t \in Tags
  PROVE  seen[t] <= seen'[t]
<1>t. seen \in [Tags -> Nat] /\ tags \in [Workers -> Seq(Tags)]
  BY DEF TypeOK
<1>1. ASSUME NEW w \in Workers, WriteUser(w) PROVE seen[t] <= seen'[t]
  <2> DEFINE o == Occurrences(tags[w], t)
  <2>1. seen'[t] = seen[t] + o /\ seen[t] \in Nat
    BY <1>1, <1>t DEF WriteUser
  <2>2. o \in Nat
    BY <1>t, OccurrencesType
  <2> HIDE DEF o
  <2> QED
    BY <2>1, <2>2
<1>2. seen' = seen => seen[t] <= seen'[t]
  BY <1>t
<1>3. \A w \in Workers : Call(w) \/ ReadTags(w) \/ ReadUser(w) \/ Return(w) \/ Crash(w)
        => seen' = seen
  BY Zenon DEF Call, ReadTags, ReadUser, Return, Crash
<1>4. \A u \in Urls : TagPage(u) => seen' = seen
  BY DEF TagPage
<1>5. UNCHANGED vars => seen' = seen
  BY DEF vars
<1> QED
  BY <1>1, <1>2, <1>3, <1>4, <1>5 DEF Next

(* RecordActions implements what re_engine.h promises: with any number of  *)
(* workers, a view takes effect at one instant and completely while calls  *)
(* neither overlap nor fail on the user row, worker deaths and unreadable  *)
(* pages included.                                                         *)
THEOREM ImplementsCounter == Spec => RecordsEveryView
<1>1. Init => Promise!Init
  BY DEF Init, Promise!Init, Promised, EmptyRecord
<1>2. ASSUME TypeOK, TypeOK', SerialCopies, SerialCopies', [Next]_vars
      PROVE  [Promise!Record]_<<Promised, seen>>
  <2>1. /\ seen' \in [Tags -> Nat] /\ seen \in [Tags -> Nat]
        /\ IntMax \in Nat
    BY <1>2, IntMaxAssumption DEF TypeOK
  <2>2. /\ Promised \in [Tags -> Int]
        /\ \A t \in Tags : seen[t] <= IntMax => Promised[t] = seen[t]
    BY <1>2, PromisedExact
  <2>3. /\ Promised' \in [Tags -> Int]
        /\ \A t \in Tags : seen'[t] <= IntMax => Promised'[t] = seen'[t]
    BY <1>2 DEF TypeOK, SerialCopies, Promised, Row
  <2>4. \A t \in Tags : seen[t] <= seen'[t]
    BY <1>2, SeenGrows
  <2>5. ASSUME NEW t \in Tags
        PROVE  /\ seen'[t] >= seen[t]
               /\ seen'[t] <= IntMax =>
                    Promised'[t] = Promised[t] + (seen'[t] - seen[t])
    BY <2>1, <2>2, <2>3, <2>4
  <2> QED
    BY <2>1, <2>3, <2>5 DEF Promise!Record
<1> QED
  BY <1>1, <1>2, TypeCorrect, SerialCopiesInvariant, PTL
  DEF Spec, RecordsEveryView, Promise!Spec
=============================================================================
