---------------------------- MODULE ViewCounter ----------------------------
(***************************************************************************)
(* What re_engine.h promises of RecordActions, "records one user action":  *)
(* the user's counters are the views asked to be recorded, and a view      *)
(* takes effect at one instant.                                            *)
(***************************************************************************)
EXTENDS Integers

CONSTANTS Tags, IntMax

VARIABLES
  counts,  \* counts[t]: what the engine knows of the user's interest in t
  asked    \* asked[t]: the views of pages tagged t it was asked to record

Init ==
  /\ counts = [t \in Tags |-> 0]
  /\ asked = [t \in Tags |-> 0]

(* Some views are recorded, at once and completely.  The counters are C++  *)
(* ints: nothing is promised of a tag viewed more than IntMax times.       *)
Record ==
  /\ asked' \in [Tags -> Nat]
  /\ counts' \in [Tags -> Int]
  /\ \A t \in Tags :
       /\ asked'[t] >= asked[t]
       /\ asked'[t] <= IntMax => counts'[t] = counts[t] + (asked'[t] - asked[t])

Spec == Init /\ [][Record]_<<counts, asked>>
=============================================================================
