--------------------------- MODULE RecordActions ---------------------------
(***************************************************************************)
(* ReEngine::RecordActions (nginx-1.4.7/src/aret/re_engine.cc), executed   *)
(* by several nginx worker processes against the same row of WebUserTable. *)
(*                                                                         *)
(* Every worker is one process with one thread (a handler runs to the end  *)
(* before the worker's event loop takes another request), so what can      *)
(* interleave are the table calls of different workers: the reads of       *)
(* WebTable, the read of the user row, and the write of the user row.  The *)
(* engine's mutex is not taken here, and would not help: every process     *)
(* has its own.                                                            *)
(*                                                                         *)
(* Both handlers pass the literal user "user", so there is one user row.   *)
(* Its tag columns are a function from tags to 32-bit counters, in which   *)
(* 0 stands for a column that does not exist.                              *)
(***************************************************************************)
EXTENDS Integers, Sequences, FiniteSets

CONSTANTS
  Workers,      \* the nginx worker processes
  Urls,         \* urls RecordActions is asked about, the empty one included
  Pages,        \* the urls that are rows of WebTable
  Tags,         \* keywords
  TagLists,     \* the values record["tag"] of a page may have
  Contents,     \* the vectors `content' RecordActions is called with
  IntMax,       \* largest value of the C++ type int
  MergeWrite,   \* Table::Write keeps the columns the written record lacks
  Faults,       \* which of the failures below can happen
  MaxCalls      \* bound: number of calls explored

ActionType == {"AT_VIEW", "AT_IGNORE", "AT_LIKE", "AT_DISLIKE", "AT_ARRIVE"}
FaultKinds == {"web_read", "user_read", "user_write", "crash"}

ASSUME ContentsAssumption == Contents \subseteq Seq(Urls)
ASSUME TagListsAssumption == TagLists \subseteq Seq(Tags) /\ << >> \in TagLists
ASSUME IntMaxAssumption == IntMax \in Nat \ {0}
ASSUME MergeWriteAssumption == MergeWrite \in BOOLEAN
ASSUME FaultsAssumption == Faults \subseteq FaultKinds
ASSUME PagesAssumption == Pages \subseteq Urls
ASSUME MaxCallsAssumption == MaxCalls \in Nat

VARIABLES
  webTag,     \* webTag[u]: the values of column "tag" of row u of WebTable
  userTable,  \* userTable[t]: column "tag:t" of the user row, 0 if absent
  pc,         \* pc[w]: where worker w is
  todo,       \* todo[w]: the part of `content' not yet looked up
  tags,       \* tags[w]: the vector of tags found so far
  userRecord, \* userRecord[w]: the local copy of the user row
  calls,      \* number of calls so far
  seen,       \* history, seen[t]: increments of t asked for by issued writes
  history     \* "disturbed" once calls overlapped or a call on the user row failed

vars == <<webTag, userTable, pc, todo, tags, userRecord, calls, seen, history>>

Row == [Tags -> Int]
EmptyRecord == [t \in Tags |-> 0]

(* The calls that are between their start and their write.                 *)
Recording == {w \in Workers : pc[w] \in {"tags", "write"}}
-----------------------------------------------------------------------------
(* The C++ int the counter is parsed into wraps at IntMax.                 *)
WrapInt(n) == IF n > IntMax THEN n - 2 * (IntMax + 1) ELSE n

Occurrences(ts, t) == Cardinality({i \in DOMAIN ts : ts[i] = t})

(* Mutant: duplicates of a tag counted once.                               *)
CountedDistinct(rec, ts) ==
  [t \in Tags |-> rec[t] + (IF Occurrences(ts, t) > 0 THEN 1 ELSE 0)]

(* The loop over tags: each occurrence of a tag adds one to its column.    *)
Counted(rec, ts) == [t \in Tags |-> WrapInt(rec[t] + Occurrences(ts, t))]

(* Mutant: the row is replaced.                                            *)
StoredWhole(row, rec) == rec
(* Table::Write of the user row.                                           *)
Stored(row, rec) ==
  [t \in Tags |-> IF MergeWrite /\ rec[t] = 0 THEN row[t] ELSE rec[t]]
-----------------------------------------------------------------------------
Init ==
  /\ webTag = [u \in Urls |-> << >>]
  /\ userTable = EmptyRecord
  /\ pc = [w \in Workers |-> "idle"]
  /\ todo = [w \in Workers |-> << >>]
  /\ tags = [w \in Workers |-> << >>]
  /\ userRecord = [w \in Workers |-> EmptyRecord]
  /\ calls = 0
  /\ seen = EmptyRecord
  /\ history = "serial"

(* The page parser gives a page its tags (ec.cc, the write of the row).    *)
TagPage(u) ==
  /\ u \in Pages
  /\ \E ts \in TagLists : webTag' = [webTag EXCEPT ![u] = ts]
  /\ UNCHANGED <<userTable, pc, todo, tags, userRecord, calls, seen, history>>

(* The call; an action other than AT_VIEW returns at once.                 *)
Call(w) ==
  /\ pc[w] = "idle"
  /\ calls < MaxCalls
  /\ calls' = calls + 1
  /\ \E action \in ActionType, content \in Contents :
       /\ pc' = [pc EXCEPT ![w] = IF action = "AT_VIEW" THEN "tags" ELSE "return"]
       /\ todo' = [todo EXCEPT ![w] = content]
       /\ history' = IF action = "AT_VIEW" /\ Recording # {}
                     THEN "disturbed" ELSE history
  /\ tags' = [tags EXCEPT ![w] = << >>]
  /\ UNCHANGED <<webTag, userTable, userRecord, seen>>

(* _webtable->Read(content[i]); the result is ignored, and a failed read   *)
(* leaves the record, and so its "tag" column, empty.                      *)
ReadTags(w) ==
  /\ pc[w] = "tags"
  /\ todo[w] # << >>
  /\ todo' = [todo EXCEPT ![w] = Tail(@)]
  /\ \/ tags' = [tags EXCEPT ![w] = @ \o webTag[Head(todo[w])]]
     \/ "web_read" \in Faults /\ UNCHANGED tags
  /\ UNCHANGED <<webTag, userTable, pc, userRecord, calls, seen, history>>

(* _usertable->Read(user); the result is ignored here as well.             *)
ReadUser(w) ==
  /\ pc[w] = "tags"
  /\ todo[w] = << >>
  /\ \/ /\ userRecord' = [userRecord EXCEPT ![w] = userTable]
        /\ UNCHANGED history
     \/ /\ "user_read" \in Faults
        /\ userRecord' = [userRecord EXCEPT ![w] = EmptyRecord]
        /\ history' = "disturbed"
  /\ pc' = [pc EXCEPT ![w] = "write"]
  /\ UNCHANGED <<webTag, userTable, todo, tags, calls, seen>>

(* The counting loop and _usertable->Write(user), whose result is ignored. *)
WriteUser(w) ==
  LET rec == Counted(userRecord[w], tags[w])
  IN  /\ pc[w] = "write"
      /\ \/ /\ userTable' = Stored(userTable, rec)
            /\ UNCHANGED history
         \/ /\ "user_write" \in Faults
            /\ history' = "disturbed"
            /\ UNCHANGED userTable
      /\ seen' = [t \in Tags |-> seen[t] + Occurrences(tags[w], t)]
      /\ userRecord' = [userRecord EXCEPT ![w] = rec]
      /\ pc' = [pc EXCEPT ![w] = "return"]
      /\ UNCHANGED <<webTag, todo, tags, calls>>

(* return true, on every path; the locals are gone.                        *)
Return(w) ==
  /\ pc[w] = "return"
  /\ pc' = [pc EXCEPT ![w] = "idle"]
  /\ todo' = [todo EXCEPT ![w] = << >>]
  /\ tags' = [tags EXCEPT ![w] = << >>]
  /\ userRecord' = [userRecord EXCEPT ![w] = EmptyRecord]
  /\ UNCHANGED <<webTag, userTable, calls, seen, history>>

(* The worker process dies in the middle of the call; the master spawns    *)
(* another one in its place, which starts with nothing.                    *)
Crash(w) ==
  /\ "crash" \in Faults
  /\ pc[w] # "idle"
  /\ pc' = [pc EXCEPT ![w] = "idle"]
  /\ todo' = [todo EXCEPT ![w] = << >>]
  /\ tags' = [tags EXCEPT ![w] = << >>]
  /\ userRecord' = [userRecord EXCEPT ![w] = EmptyRecord]
  /\ UNCHANGED <<webTag, userTable, calls, seen, history>>

Next ==
  \/ \E u \in Urls : TagPage(u)
  \/ \E w \in Workers :
       Call(w) \/ ReadTags(w) \/ ReadUser(w) \/ WriteUser(w) \/ Return(w) \/ Crash(w)

Spec == Init /\ [][Next]_vars
-----------------------------------------------------------------------------
TypeOK ==
  /\ webTag \in [Urls -> TagLists]
  /\ userTable \in Row
  /\ pc \in [Workers -> {"idle", "tags", "write", "return"}]
  /\ todo \in [Workers -> Seq(Urls)]
  /\ tags \in [Workers -> Seq(Tags)]
  /\ userRecord \in [Workers -> Row]
  /\ calls \in 0..MaxCalls
  /\ seen \in [Tags -> Nat]
  /\ history \in {"serial", "disturbed"}

(* No phantom interest: whatever overlaps, fails, crashes or overflows,    *)
(* the stored counter of a tag never exceeds the increments RecordActions  *)
(* wrote for it.  Lost updates can only make the profile too small.        *)
NoPhantomViews == \A t \in Tags : userTable[t] <= seen[t]

(* While no two calls overlapped and no call on the user row failed, the   *)
(* read-modify-write of RecordActions is exact, whichever workers made the *)
(* calls and wherever workers died.                                        *)
SerialViewsExact ==
  history = "serial" => \A t \in Tags : seen[t] <= IntMax => userTable[t] = seen[t]

(* A tag the user showed interest in is never forgotten, even by a write   *)
(* computed from a stale or unreadable copy of the row: such a write       *)
(* resets counters it knows and leaves alone those it does not.            *)
InterestKept ==
  [][\A t \in Tags :
       userTable[t] > 0 /\ seen'[t] <= IntMax => userTable'[t] > 0]_vars

(* When no call is under way, every view whose write was issued is         *)
(* counted.  re_engine.h says so: "records one user action".               *)
EveryViewCounted ==
  Recording = {} => \A t \in Tags : seen[t] <= IntMax => userTable[t] = seen[t]

(* What RecordActions promises, with the user row for its counters while   *)
(* calls neither overlapped nor failed, and no promise about the row after *)
(* that.                                                                   *)
Promised == IF history = "serial" THEN userTable ELSE seen
Promise == INSTANCE ViewCounter WITH counts <- Promised, asked <- seen

(* RecordActions implements its promise: a view takes effect at one        *)
(* instant and completely, worker deaths and unreadable pages included.    *)
RecordsEveryView == Promise!Spec
=============================================================================
