---------------------------- MODULE Subsequences ----------------------------
(***************************************************************************)
(* Parts of a sequence: what filter and retain leave of a list, and what   *)
(* truncate and slice leave.                                               *)
(***************************************************************************)
EXTENDS Naturals, Sequences, FiniteSets

\* The items of seq at the given places, in the order they have in seq.
AtPlaces(seq, places) ==
  LET Rank(i) == Cardinality({j \in places : j <= i})
  IN  [n \in 1..Cardinality(places) |-> seq[CHOOSE i \in places : Rank(i) = n]]

\* The first n items of seq, or all when there are fewer.
FirstN(seq, n) == SubSeq(seq, 1, IF Len(seq) < n THEN Len(seq) ELSE n)
=============================================================================
