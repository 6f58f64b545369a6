---------------------------- MODULE MCPageParser ----------------------------
(* PageParser with two kinds of page, one of which names a keyword twice.  *)
EXTENDS PageParser, TLC

CONSTANTS a, b, d1, d2
MCKwsOf == d1 :> <<a, b>> @@ d2 :> <<a, a>>
=============================================================================
