----------------------------- MODULE Recommend -----------------------------
(***************************************************************************)
(* ReEngine::GetRecommend, GetUrlForTag and RandomRecommend                *)
(* (nginx-1.4.7/src/aret/re_engine.cc), called by the threads that share   *)
(* one ReEngine, while the page parser adds rows to TagTable.              *)
(*                                                                         *)
(* The keys of TagTable ("keyword-timestamp-counter") are ranks in byte    *)
(* order, so `rows', the table, is an increasing sequence of numbers.  A   *)
(* scan stops at the key "~", so the rows from Tilde on are never seen.    *)
(* The cursor last_rand is 0 for "" and k for the key of rank k followed   *)
(* by a zero byte: a scan from it starts at the first rank above k.        *)
(* A tag is the sequence of its segments between dashes, since all that    *)
(* the code does to a tag is to cut it at dashes.                          *)
(***************************************************************************)
EXTENDS Integers, Sequences, FiniteSets, Functions

CONSTANTS
  Callers,        \* the threads that call GetRecommend
  MaxKey,         \* the ranks of TagTable keys are 1 .. MaxKey
  Tilde,          \* the rank of "~": keys of this rank and above follow it
  Tags,           \* keywords, as sequences of segments
  KeyTag,         \* KeyTag[k]: the keyword in the key of rank k
  TagPos,         \* TagPos[t]: the least rank that is not below the key t
  Finds,          \* Finds[t]: ranks whose key has t as a substring
  Profiles,       \* the tag columns the user row may have
  Num,            \* the argument num (10 in the handler)
  Top,            \* how many favourite tags are used (5 in the code)
  Cap,            \* most rows taken for one tag (2 in the code)
  MinBatch,       \* a scan gives at least so many rows, if the range has them
  EmptyScanFails, \* Scan returns false when the range holds no row
  ScanFaults      \* Scan may fail though the range holds rows

Keys == 1 .. MaxKey

(* What stands between dashes: in a keyword, and in the rest of a key.     *)
Segment == (UNION {Range(t) : t \in Tags}) \cup {"", "ts", "nt"}

ASSUME MaxKeyAssumption == MaxKey \in Nat
ASSUME TildeAssumption == Tilde \in 1 .. MaxKey + 1
ASSUME TagsAssumption ==
  /\ KeyTag \in [Keys -> Tags]
  /\ TagPos \in [Tags -> 1 .. MaxKey + 1]
  /\ Finds \in [Tags -> SUBSET Keys]
  /\ \A t \in Tags : t \in Seq(Segment) /\ t # << >>
ASSUME ProfilesAssumption ==
  \A p \in Profiles : DOMAIN p \subseteq Tags /\ IsFiniteSet(DOMAIN p) /\ p \in [DOMAIN p -> Int]
(* 5 tags of at most 2 rows each, of 10.                                   *)
ASSUME NumAssumption == Num \in Nat /\ Top \in Nat /\ Cap \in Nat /\ Top * Cap <= Num
ASSUME MinBatchAssumption == MinBatch \in Nat \ {0}
ASSUME SwitchesAssumption == EmptyScanFails \in BOOLEAN /\ ScanFaults \in BOOLEAN

VARIABLES
  rows,      \* TagTable
  lastRand,  \* RandomRecommend's static last_rand
  mu,        \* the holder of the engine's mutex, or NoCaller
  pc,        \* pc[c]: where caller c is
  plan,      \* plan[c]: the tags still to be looked up, with their tag_num
  slice,     \* slice[c]: RandomRecommend's slice
  urls,      \* urls[c], desc[c], tags[c]: the three result vectors, a url
  desc,      \*   and a title standing as the rank of the row they are in
  tags,
  picked,    \* history, picked[c]: how many results were picked by tag
  base,      \* history: the rows visible when the present sweep began
  shown      \* history: the rows RandomRecommend gave in the present sweep

vars == <<rows, lastRand, mu, pc, plan, slice, urls, desc, tags, picked, base, shown>>
local == <<plan, slice, urls, desc, tags, picked>>

NoCaller == "none"
ASSUME CallersAssumption == NoCaller \notin Callers

Visible == {k \in Range(rows) : k < Tilde}
-----------------------------------------------------------------------------
(* Table::Scan(from, "~"): the rows in the range that fit the buffer, so   *)
(* some number of them from the first on.                                  *)
Slices(from) ==
  {SubSeq(rows, p[1], p[2]) : p \in {q \in (DOMAIN rows) \X (DOMAIN rows) :
     /\ q[1] <= q[2]
     /\ rows[q[1]] >= from /\ rows[q[2]] < Tilde
     /\ q[1] > 1 => rows[q[1] - 1] < from
     /\ \/ q[2] - q[1] + 1 >= MinBatch
        \/ q[2] = Len(rows) \/ rows[q[2] + 1] >= Tilde}}

(* Scan returns true, and with which slices: an empty range is reported as *)
(* a failure or as an empty slice.                                         *)
ScanTrue(from) == IF Slices(from) # {} THEN Slices(from)
                  ELSE IF EmptyScanFails THEN {} ELSE {<< >>}
ScanFalse(from) == ScanFaults \/ (EmptyScanFails /\ Slices(from) = {})

(* The loop of GetUrlForTag over the slice.                                *)
TakenForTag(s, t, n) ==
  LET good == {m \in 0 .. Len(s) : m <= n /\ \A i \in 1 .. m : s[i] \in Finds[t]}
  IN  SubSeq(s, 1, CHOOSE m \in good : \A k \in good : k <= m)

(* The orders std::sort may leave the tag items in: ties fall either way.  *)
Sorted(p) ==
  LET n == Cardinality(DOMAIN p)
  IN  {s \in [1 .. n -> DOMAIN p] :
         /\ \A i, j \in 1 .. n : i # j => s[i] # s[j]
         /\ \A i, j \in 1 .. n : i < j => p[s[i]] >= p[s[j]]}

AllPrio(p, best) == SumFunction([i \in DOMAIN best |-> p[best[i]]])

(* static_cast<int>(prios[i] * di * num * recommend_radio), di = 1/all:    *)
(* where the exact value is a whole number, rounding may bring the product *)
(* just below it.  Zero stands for the negative values too: no row is      *)
(* taken for either.                                                       *)
Share(prio, all) ==
  LET a == (IF prio < 0 THEN 0 - prio ELSE prio) * Num * 7
      b == (IF all < 0 THEN 0 - all ELSE all) * 10
  IN  IF prio * all <= 0 THEN {0}
      ELSE IF a % b = 0 THEN {(a \div b) - 1, a \div b} ELSE {a \div b}

Capped(n) == IF n > Cap THEN Cap ELSE n

(* What the two loops over the best tags are going to look up.             *)
Plans(p, best) ==
  {q \in [DOMAIN best -> Tags \X (0 .. Cap)] : \A i \in DOMAIN best :
     /\ q[i][1] = best[i]
     /\ \E n \in Share(p[best[i]], AllPrio(p, best)) : q[i][2] = Capped(n)}

(* Mutant: only the last segment goes.                                     *)
StripOne(s) == IF Len(s) >= 2 THEN SubSeq(s, 1, Len(s) - 1) ELSE s

(* The two rfind("-") and the resize: the last two segments go.  With one  *)
(* dash the second rfind starts before it and finds nothing, except when   *)
(* the dash comes first: pos - 1 is then npos, and it finds it again.      *)
Strip(s) == IF Len(s) >= 3 THEN SubSeq(s, 1, Len(s) - 2)
            ELSE IF Len(s) = 2 /\ s[1] = "" THEN <<"">> ELSE s

RowKey(k) == KeyTag[k] \o <<"ts", "nt">>
-----------------------------------------------------------------------------
Init ==
  /\ rows = << >> /\ lastRand = 0 /\ mu = NoCaller
  /\ pc = [c \in Callers |-> "idle"]
  /\ plan = [c \in Callers |-> << >>]
  /\ slice = [c \in Callers |-> << >>]
  /\ urls = [c \in Callers |-> << >>]
  /\ desc = [c \in Callers |-> << >>]
  /\ tags = [c \in Callers |-> << >>]
  /\ picked = [c \in Callers |-> 0]
  /\ base = {} /\ shown = {}

Goto(c, l) == pc' = [pc EXCEPT ![c] = l]

(* The page parser writes a row of TagTable (ec.cc).                       *)
AddRow ==
  /\ \E k \in Keys, i \in 0 .. Len(rows) :
       /\ \A j \in DOMAIN rows : IF j <= i THEN rows[j] < k ELSE rows[j] > k
       /\ rows' = SubSeq(rows, 1, i) \o <<k>> \o SubSeq(rows, i + 1, Len(rows))
  /\ UNCHANGED <<lastRand, mu, pc, local, base, shown>>

(* Mutant: the mutex is not taken.                                         *)
CallUnlocked(c) ==
  /\ pc[c] = "idle"
  /\ mu' = c
  /\ Goto(c, "user")
  /\ UNCHANGED <<rows, lastRand, local, base, shown>>

(* The handler calls GetRecommend with three empty vectors, and MutexLock  *)
(* waits for the mutex.                                                    *)
Call(c) == mu = NoCaller /\ CallUnlocked(c)

(* _usertable->Read(user) and the choice of tags and quotas from the row.  *)
(* No row, or a failed read: only the random part is left.  A sum of zero, *)
(* of wrapped counters or of no tag column: the call fails.                *)
ReadUser(c) ==
  /\ pc[c] = "user"
  /\ \/ Goto(c, "random") /\ UNCHANGED plan
     \/ \E p \in Profiles : \E s \in Sorted(p) :
          LET best == SubSeq(s, 1, IF Len(s) < Top THEN Len(s) ELSE Top)
          IN  IF AllPrio(p, best) = 0
              THEN Goto(c, "fail") /\ UNCHANGED plan
              ELSE /\ \E q \in Plans(p, best) : plan' = [plan EXCEPT ![c] = q]
                   /\ Goto(c, "tags")
  /\ UNCHANGED <<rows, lastRand, mu, slice, urls, desc, tags, picked, base, shown>>

(* Mutant: the tag is recorded once however many rows were found.          *)
LabelOnce(t, n) == <<t>>

(* tags->push_back(tag), n times.                                          *)
Labels(t, n) == [i \in 1 .. n |-> t]

(* One turn of the loop over the best tags: GetUrlForTag and the push of   *)
(* the tag for each row it found.  A failed scan finds none.               *)
PickForTag(c) ==
  /\ pc[c] = "tags"
  /\ plan[c] # << >>
  /\ LET t == Head(plan[c])[1]
     IN  \E s \in {<< >>} \cup Slices(TagPos[t]) :
           /\ s = << >> => ScanFaults \/ Slices(TagPos[t]) = {}
           /\ LET got == TakenForTag(s, t, Head(plan[c])[2])
              IN  /\ urls' = [urls EXCEPT ![c] = @ \o got]
                  /\ desc' = [desc EXCEPT ![c] = @ \o got]
                  /\ tags' = [tags EXCEPT ![c] = @ \o Labels(t, Len(got))]
                  /\ picked' = [picked EXCEPT ![c] = @ + Len(got)]
  /\ plan' = [plan EXCEPT ![c] = Tail(@)]
  /\ UNCHANGED <<rows, lastRand, mu, pc, slice, base, shown>>

PickedAll(c) ==
  /\ pc[c] = "tags"
  /\ plan[c] = << >>
  /\ Goto(c, "random")
  /\ UNCHANGED <<rows, lastRand, mu, local, base, shown>>

(* Mutant: the cursor stays at the end of the table.                       *)
ScanOnStays(c) ==
  /\ pc[c] = "random"
  /\ \/ /\ \E s \in ScanTrue(lastRand + 1) : slice' = [slice EXCEPT ![c] = s]
        /\ Goto(c, "fill")
     \/ ScanFalse(lastRand + 1) /\ Goto(c, "rescan") /\ UNCHANGED slice
  /\ UNCHANGED <<rows, lastRand, mu, plan, urls, desc, tags, picked, base, shown>>

(* RandomRecommend's first scan; if it fails the cursor starts over.       *)
ScanOn(c) ==
  /\ pc[c] = "random"
  /\ \/ /\ \E s \in ScanTrue(lastRand + 1) : slice' = [slice EXCEPT ![c] = s]
        /\ Goto(c, "fill")
        /\ UNCHANGED <<lastRand, base, shown>>
     \/ /\ ScanFalse(lastRand + 1)
        /\ lastRand' = 0 /\ base' = Visible /\ shown' = {}
        /\ Goto(c, "rescan")
        /\ UNCHANGED slice
  /\ UNCHANGED <<rows, mu, plan, urls, desc, tags, picked>>

(* The second scan, whose result is ignored.                               *)
ScanAgain(c) ==
  /\ pc[c] = "rescan"
  /\ \/ \E s \in ScanTrue(lastRand + 1) : slice' = [slice EXCEPT ![c] = s]
     \/ ScanFalse(lastRand + 1) /\ UNCHANGED slice
  /\ Goto(c, "fill")
  /\ UNCHANGED <<rows, lastRand, mu, plan, urls, desc, tags, picked, base, shown>>

(* Mutants: the cursor goes to the end of the slice; it is lost when the   *)
(* slice is empty.                                                         *)
CursorToEnd(s, got) == IF s = << >> THEN lastRand ELSE s[Len(s)]
(* The loop over the slice: the rows taken, and where the cursor ends.     *)
TakenAtRandom(s, n) == SubSeq(s, 1, IF Len(s) < n THEN Len(s) ELSE n)
CursorAfter(s, got) == IF got = << >> THEN lastRand ELSE got[Len(got)]

(* The rest of RandomRecommend and of GetRecommend: the rows of the slice  *)
(* are pushed, the key of each as its tag, then every tag is stripped.     *)
Fill(c) ==
  /\ pc[c] = "fill"
  /\ LET got == TakenAtRandom(slice[c], Num - Len(urls[c]))
         all == tags[c] \o [i \in DOMAIN got |-> RowKey(got[i])]
     IN  /\ urls' = [urls EXCEPT ![c] = @ \o got]
         /\ desc' = [desc EXCEPT ![c] = @ \o got]
         /\ tags' = [tags EXCEPT ![c] = [i \in DOMAIN all |-> Strip(all[i])]]
         /\ lastRand' = CursorAfter(slice[c], got)
         /\ shown' = shown \cup Range(got)
  /\ Goto(c, "return")
  /\ UNCHANGED <<rows, mu, plan, slice, picked, base>>

(* The return, with true or with false: ~MutexLock gives the mutex back,   *)
(* and the handler, once it has used them, drops its vectors.              *)
Return(c) ==
  /\ pc[c] \in {"return", "fail"}
  /\ mu' = NoCaller
  /\ Goto(c, "idle")
  /\ plan' = [plan EXCEPT ![c] = << >>]
  /\ slice' = [slice EXCEPT ![c] = << >>]
  /\ urls' = [urls EXCEPT ![c] = << >>]
  /\ desc' = [desc EXCEPT ![c] = << >>]
  /\ tags' = [tags EXCEPT ![c] = << >>]
  /\ picked' = [picked EXCEPT ![c] = 0]
  /\ UNCHANGED <<rows, lastRand, base, shown>>

GetRecommend(c) ==
  \/ ReadUser(c) \/ PickForTag(c) \/ PickedAll(c)
  \/ ScanOn(c) \/ ScanAgain(c) \/ Fill(c) \/ Return(c)

Next == AddRow \/ \E c \in Callers : Call(c) \/ GetRecommend(c)

Spec == Init /\ [][Next]_vars

(* A call that has the mutex goes on, and requests keep coming.            *)
FairSpec == Spec /\ \A c \in Callers : WF_vars(GetRecommend(c)) /\ WF_vars(Call(c))
-----------------------------------------------------------------------------
TypeOK ==
  /\ rows \in Seq(Keys) /\ lastRand \in 0 .. MaxKey
  /\ mu \in Callers \cup {NoCaller}
  /\ pc \in [Callers -> {"idle", "user", "tags", "random", "rescan", "fill",
                         "return", "fail"}]
  /\ plan \in [Callers -> Seq(Tags \X (0 .. Cap))]
  /\ slice \in [Callers -> Seq(Keys)]
  /\ urls \in [Callers -> Seq(Keys)] /\ desc \in [Callers -> Seq(Keys)]
  /\ tags \in [Callers -> Seq(Seq(Segment))]
  /\ picked \in [Callers -> Nat]
  /\ base \subseteq Keys /\ shown \subseteq Keys

(* The handler indexes titles and tags by the positions of urls, so the    *)
(* three vectors have one length whenever GetRecommend returns true, and   *)
(* that length is at most num.                                             *)
ParallelLists ==
  \A c \in Callers : pc[c] = "return" =>
    /\ Len(desc[c]) = Len(urls[c]) /\ Len(tags[c]) = Len(urls[c])
    /\ Len(urls[c]) <= Num

(* The label l of a row that was picked for tag t: t itself when it has    *)
(* one segment, or two and does not begin with a dash.  The cut that is    *)
(* meant for row keys shortens every other tag as well: "a-b-c" is shown   *)
(* as "a", and "-a" as "".                                                 *)
Plain(t) == Len(t) = 1 \/ (Len(t) = 2 /\ t[1] # "")
LabelOf(t, l) ==
  /\ Plain(t) => l = t
  /\ Len(t) = 2 /\ t[1] = "" => l = <<"">>
  /\ Len(t) >= 3 => l = SubSeq(t, 1, Len(t) - 2)

(* The label GetRecommend gives with a row of RandomRecommend is the whole *)
(* keyword the row is stored under, dashes included; the label of a row    *)
(* that was picked by tag is what the cut leaves of a tag that the row's   *)
(* key contains, which is not the tag itself when that has more dashes.    *)
LabelsFollowRows ==
  \A c \in Callers : pc[c] = "return" => \A i \in 1 .. Len(tags[c]) :
    IF i > picked[c] THEN tags[c][i] = KeyTag[urls[c][i]]
    ELSE \E t \in Tags : urls[c][i] \in Finds[t] /\ LabelOf(t, tags[c][i])

(* In one sweep of RandomRecommend over TagTable no row is given twice, to *)
(* any caller ...                                                          *)
NoRepeatInSweep ==
  [][\A c \in Callers : pc[c] = "fill" /\ pc'[c] # "fill" =>
       \A i \in Len(urls[c]) + 1 .. Len(urls'[c]) : urls'[c][i] \notin shown]_vars

(* ... and no row that was there when the sweep began is passed over.      *)
SweepComplete == \A k \in base : k <= lastRand => k \in shown

(* Every visible row of TagTable is recommended, again and again, as long  *)
(* as requests keep coming, no scan fails and an empty range is a failure. *)
EveryRowShown ==
  \A k \in Keys : k \in Visible ~>
    \E c \in Callers : pc[c] = "return" /\ k \in Range(urls[c])
=============================================================================
