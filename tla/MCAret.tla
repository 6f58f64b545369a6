-------------------------------- MODULE MCAret --------------------------------
(***************************************************************************)
(* Three components, each explored by itself: two connections of a worker, *)
(* a caller of the recommender whose scans fail, and two page parsers.     *)
(* focus names the one a behaviour is about; the others stay as they are.  *)
(***************************************************************************)
EXTENDS HttpRequest, TLC

CONSTANTS Parsers

VARIABLES focus, pc, tags, slice, base, rows, lastRand, mu, plan, urls, desc, picked,
          shown, web, tagTable, clock, lastKey, row, kws, i, runs, lastNt, visited

recommend == <<rows, lastRand, mu, plan, urls, desc, picked, shown, tags>>
parse == <<web, tagTable, clock, lastKey, row, kws, i, runs, lastNt, visited>>
both == <<pc, slice, base>>
allVars == <<focus, vars, both, recommend, parse>>

\* TagTable has five keys: a-1-1, a-b-c-1-1, ab-1-1, b-1-1 and one that starts with a byte
\* above "~".
A == <<"a">>
ABC == <<"a", "b", "c">>
AB == <<"ab">>
B == <<"b">>
Z == <<"z">>

AllTags == {A, ABC, AB, B, Z}
TagOrder == A :> 1 @@ ABC :> 2 @@ AB :> 3 @@ B :> 4 @@ Z :> 5
Found == A :> {1, 2, 3} @@ ABC :> {2} @@ AB :> {3} @@ B :> {2, 3, 4} @@ Z :> {5}

\* Profiles with counters that have wrapped around among them, in one to a sum of zero.
UserProfiles == {A :> 1 @@ AB :> 1, ABC :> 2 @@ B :> 1, Z :> 1,
                 A :> 2 @@ B :> -1, A :> 1 @@ B :> -1}

R == INSTANCE Recommend WITH
         Callers <- {"c1"}, MaxKey <- 5, Tilde <- 5, Tags <- AllTags,
         KeyTag <- <<A, ABC, AB, B, Z>>, TagPos <- TagOrder, Finds <- Found,
         Profiles <- UserProfiles, Num <- 4, Top <- 2, Cap <- 2, MinBatch <- 1,
         EmptyScanFails <- FALSE, ScanFaults <- TRUE

P == INSTANCE PageParser WITH
         Parsers <- Parsers, MaxRow <- 2, Tilde <- 3, Wanted <- {2},
         Keywords <- {"a"}, Docs <- {"d1"},
         KwsOf <- "d1" :> <<"a">>, MaxTs <- 2, MaxMarks <- 1,
         MergeWrite <- TRUE, Faults <- {}, MaxRuns <- 2

OffBoth == pc = "off" /\ slice = "off" /\ base = "off"
OffRecommend ==
    /\ rows = "off" /\ lastRand = "off" /\ mu = "off" /\ plan = "off" /\ urls = "off"
    /\ desc = "off" /\ picked = "off" /\ shown = "off" /\ tags = "off"
OffParse ==
    /\ web = "off" /\ tagTable = "off" /\ clock = "off" /\ lastKey = "off" /\ row = "off"
    /\ kws = "off" /\ i = "off" /\ runs = "off" /\ lastNt = "off" /\ visited = "off"

InHttp == focus = "http" /\ UNCHANGED <<focus, both, recommend, parse>>
InRecommend == focus = "recommend" /\ UNCHANGED <<focus, vars, parse>>
InParse == focus = "parse" /\ UNCHANGED <<focus, vars, recommend>>

AllInit ==
    /\ Init
    /\ \/ focus = "http" /\ OffRecommend /\ OffParse /\ OffBoth
       \/ focus = "recommend" /\ R!Init /\ OffParse
       \/ focus = "parse" /\ P!Init /\ OffRecommend

AllNext == \/ InHttp /\ Next
           \/ InRecommend /\ R!Next
           \/ InParse /\ P!Next

AllSpec == AllInit /\ [][AllNext]_allVars

-----------------------------------------------------------------------------
\* The labels GetRecommend gives with its links, whatever scans fail, end early or report
\* an empty range as success: the keyword of the row, or what the cut at dashes leaves of
\* the tag the row was picked for.
LabelsFollowRows == focus = "recommend" => R!LabelsFollowRows

\* Two parsers on the same rows: a run that comes to its end has visited every row that
\* was there when it began, and each such page has its keywords as tags (main of ec.cc).
RunComplete == focus = "parse" => P!RunComplete

Symmetry == Permutations(Parsers)
=============================================================================
