--------------------------- MODULE MCAsyncFetcher ---------------------------
(***************************************************************************)
(* Instances of AsyncFetcher for TLC.  chan and cache are bounded by their *)
(* capacities and refreshes are unbounded in number and length: the state  *)
(* space is finite without any further bound.  Two names, two values and   *)
(* capacities of two are enough for a name to be reported twice with       *)
(* different values inside a chunk, across chunks and across refreshes.    *)
(***************************************************************************)
EXTENDS AsyncFetcher

TwoValues == {1, 2}
OneValue == {1}
=============================================================================
