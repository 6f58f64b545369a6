---------------------------- MODULE MCRecommend ----------------------------
(* Recommend with a TagTable of six keys: a-1-1, a-b-c-1-1, ab-1-1, b-1-1, *)
(* c-1-1 and one that starts with a byte above "~"; the first MaxKey exist. *)
EXTENDS Recommend, TLC

A == <<"a">>
ABC == <<"a", "b", "c">>
AB == <<"ab">>
B == <<"b">>
C == <<"c">>
Z == <<"z">>

MCTags == {A, ABC, AB, B, C, Z}
MCKeyTag == SubSeq(<<A, ABC, AB, B, C, Z>>, 1, MaxKey)
MCTagPos == A :> 1 @@ ABC :> 2 @@ AB :> 3 @@ B :> 4 @@ C :> 5 @@ Z :> 6
MCFinds ==
  LET finds == A :> {1, 2, 3} @@ ABC :> {2} @@ AB :> {3} @@ B :> {2, 3, 4}
                 @@ C :> {2, 5} @@ Z :> {6}
  IN  [t \in MCTags |-> finds[t] \cap Keys]

(* One user with two tags, and one whose counter of AB has wrapped around. *)
MCPair == {A :> 1 @@ AB :> 1, A :> 2 @@ AB :> -1}
=============================================================================
