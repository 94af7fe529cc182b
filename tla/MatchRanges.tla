----------------------------- MODULE MatchRanges -----------------------------
(***************************************************************************)
(* What the page highlights (matching.rs): UTF-16 ranges of the original   *)
(* name, computed from a match in the folded one. A character folds to one *)
(* or several, and is one or two UTF-16 units wide; names are sequences of *)
(* such characters, and a folded query is matched character by character.  *)
(***************************************************************************)
EXTENDS Naturals, Sequences
LOCAL INSTANCE SequencesExt
LOCAL INSTANCE FiniteSetsExt

CONSTANTS
  Chars,         \* [fold: its folded characters, units: its UTF-16 width, sep, upper, lower: BOOLEAN]
  MaxName,       \* longest name
  Seps,          \* folded separators
  MaxQuery,      \* longest query
  Stride         \* INITIALS_STRIDE

ASSUME RangesAssumption ==
  /\ \A c \in Chars : c.fold # <<>> /\ c.units \in 1..2
  /\ MaxName \in Nat /\ MaxQuery \in Nat /\ Stride \in Nat

SeqsUpTo(S, n) == UNION {[1..k -> S] : k \in 1..n}
FoldChars == UNION {{c.fold[i] : i \in DOMAIN c.fold} : c \in Chars}

-----------------------------------------------------------------------------
(* fold_with_map and its helpers; offsets count from zero, as in the code. *)

UnitsBefore(name, i) == FoldLeft(LAMBDA n, c : n + c.units, 0, SubSeq(name, 1, i - 1))
Utf16Len(name) == UnitsBefore(name, Len(name) + 1)

FoldName(name) == FlattenSeq([i \in DOMAIN name |-> name[i].fold])
FoldMap(name) ==
  FlattenSeq([i \in DOMAIN name |-> [j \in DOMAIN name[i].fold |-> UnitsBefore(name, i)]])

\* Exclusive end of the character that folded to position last.
Utf16EndNext(map, total, last) ==   \* mutant: the character is taken to be one unit wide
  map[last] + 1
Utf16End(map, total, last) ==
  LET later == {map[i] : i \in {j \in (last + 1)..Len(map) : map[j] > map[last]}}
  IN  IF later = {} THEN total ELSE Min(later)

Finds(text, q) == {p \in 1..Len(text) : p + Len(q) - 1 <= Len(text) /\ SubSeq(text, p, p + Len(q) - 1) = q}

\* merge_ranges: touching ranges are one. The ranges arrive in order.
MergeRanges(ranges) ==
  FoldLeft(LAMBDA out, r : IF out # <<>> /\ r[1] <= Last(out)[2]
                           THEN [out EXCEPT ![Len(out)][2] = Max({@, r[2]})] ELSE Append(out, r),
           <<>>, ranges)

\* for_each_segment_start: after a separator, and where the camel rises.
SegmentStarts(name) ==
  {i \in DOMAIN name : /\ ~name[i].sep
                       /\ i = 1 \/ name[i - 1].sep \/ (name[i - 1].lower /\ name[i].upper)}
StartSeq(name) == SetToSortSeq(SegmentStarts(name), <)

\* initials_lane: an initial that does not fit ends the lane.
InitialsLane(name) ==
  FoldLeft(LAMBDA lane, i : IF lane.full \/ Len(lane.text) + Len(name[i].fold) > Stride
                            THEN [lane EXCEPT !.full = TRUE] ELSE [lane EXCEPT !.text = @ \o name[i].fold],
           [text |-> <<>>, full |-> FALSE], StartSeq(name)).text

-----------------------------------------------------------------------------
(* compute_ranges.                                                         *)

SpanOf(name, first, last) ==
  <<<<FoldMap(name)[first], Utf16End(FoldMap(name), Utf16Len(name), last)>>>>

\* From the match at a boundary, if there is one, to the end of its segment.
BoundaryRange(name, q) ==
  LET text == FoldName(name)
      finds == Finds(text, q)
      bound == {p \in finds : p > 1 /\ text[p - 1] \in Seps}
      p == IF bound # {} THEN Min(bound) ELSE Min(finds)
      sep == {i \in p..Len(text) : text[i] \in Seps}
      segEnd == IF sep = {} THEN Len(text) ELSE Min(sep) - 1
  IN  SpanOf(name, p, Max({segEnd, p + Len(q) - 1}))

\* initials_ranges: the initials are derived again, and not cut to a lane.
InitialsRanges(name, q) ==
  LET starts == StartSeq(name)
      before(k) == Len(FlattenSeq([j \in 1..(k - 1) |-> name[starts[j]].fold]))
      text == FlattenSeq([j \in DOMAIN starts |-> name[starts[j]].fold])
      p == Min(Finds(text, q))
      Overlaps(k) == before(k) < p + Len(q) - 1 /\ before(k) + Len(name[starts[k]].fold) > p - 1
      marks == SelectSeq([j \in DOMAIN starts |-> j], Overlaps)
  IN  MergeRanges([j \in DOMAIN marks |->
        LET s == UnitsBefore(name, starts[marks[j]]) IN <<s, s + name[starts[marks[j]]].units>>])

\* fuzzy_ranges: greedily forward, one range per matched character.
FuzzyRanges(name, q) ==
  LET text == FoldName(name)
      Take(st, i) == IF st.qi <= Len(q) /\ text[i] = q[st.qi]
                     THEN [qi |-> st.qi + 1, out |-> st.out \o SpanOf(name, i, i)] ELSE st
  IN  MergeRanges(FoldLeft(Take, [qi |-> 1, out |-> <<>>], [i \in DOMAIN text |-> i]).out)

ComputeRanges(name, q, tier) ==
  CASE tier = "exact" -> <<<<0, Utf16Len(name)>>>>
    [] tier \in {"prefix", "inner"} ->
         LET p == Min(Finds(FoldName(name), q)) IN SpanOf(name, p, p + Len(q) - 1)
    [] tier = "boundary" -> BoundaryRange(name, q)
    [] tier = "initials" -> InitialsRanges(name, q)
    [] tier = "fuzzy" -> FuzzyRanges(name, q)

-----------------------------------------------------------------------------
(* The tiers a name has for a query, and what its ranges should show.      *)

Subseq(q, text) == \E f \in [DOMAIN q -> DOMAIN text] :
  /\ \A i \in DOMAIN q : text[f[i]] = q[i]
  /\ \A i, j \in DOMAIN q : i < j => f[i] < f[j]

TiersOf(name, q) ==
  LET text == FoldName(name)
      finds == Finds(text, q)
  IN  (IF text = q THEN {"exact"} ELSE IF 1 \in finds THEN {"prefix"} ELSE {})
      \cup (IF finds \ {1} # {} THEN {"inner"} ELSE {})
      \cup (IF \E p \in finds \ {1} : text[p - 1] \in Seps THEN {"boundary"} ELSE {})
      \cup (IF Finds(InitialsLane(name), q) # {} THEN {"initials"} ELSE {})
      \cup (IF Subseq(q, text) THEN {"fuzzy"} ELSE {})

\* The characters a row highlights.
Lit(name, ranges) ==
  SelectSeq([i \in DOMAIN name |-> i],
            LAMBDA i : \E r \in DOMAIN ranges :
                         ranges[r][1] <= UnitsBefore(name, i) /\ UnitsBefore(name, i) < ranges[r][2])

\* Ranges of whole characters, in order and apart.
WellFormed(name, ranges) ==
  LET edges == {UnitsBefore(name, i) : i \in 1..(Len(name) + 1)}
  IN  /\ \A r \in DOMAIN ranges : ranges[r][1] < ranges[r][2] /\ {ranges[r][1], ranges[r][2]} \subseteq edges
      /\ \A r \in 1..(Len(ranges) - 1) : ranges[r][2] < ranges[r + 1][1]

\* Whatever a character folds to and however wide it is, the highlighted
\* characters are the match: the query is found in what they fold to, at a
\* segment's start for a boundary match, in initials only for an initials match,
\* and no more characters than the query has for a scattered one.
RangesAreTheMatch ==
  \A name \in SeqsUpTo(Chars, MaxName), q \in SeqsUpTo(FoldChars, MaxQuery) :
    \A tier \in TiersOf(name, q) :
      LET ranges == ComputeRanges(name, q, tier)
          lit == Lit(name, ranges)
          text == FlattenSeq([i \in DOMAIN lit |-> name[lit[i]].fold])
      IN  /\ WellFormed(name, ranges)
          /\ IF tier = "fuzzy" THEN Subseq(q, text) /\ Len(lit) <= Len(q) ELSE Finds(text, q) # {}
          /\ tier \notin {"fuzzy", "initials"} => Len(ranges) = 1
          /\ tier = "boundary" => lit[1] > 1 /\ name[lit[1] - 1].sep
          /\ tier = "initials" => {lit[i] : i \in DOMAIN lit} \subseteq SegmentStarts(name)
=============================================================================
