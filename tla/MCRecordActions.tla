-------------------------- MODULE MCRecordActions --------------------------
(* Instances of RecordActions for TLC. *)
EXTENDS RecordActions, TLC

CONSTANTS a, b, u1, u2

(* A page without keywords, with one, with two, and with the same keyword  *)
(* twice: the page parser's std::unique runs before the keywords exist.    *)
MCTagLists == {<< >>, <<a>>, <<a, b>>, <<a, a>>}
MCContents == {<<u1>>, <<u2>>}
Symmetry == Permutations(Workers)
=============================================================================
