------------------------------ MODULE RowMerge ------------------------------
(***************************************************************************)
(* The root list's merge (src/apps/shell/src/lib/merge.ts), as functions   *)
(* on sequences of rows. A row is [key, kind, name, score, order]: `name`  *)
(* is the place of the lower-cased name in localeCompare's order, `order`  *)
(* a built-in's declaration position.                                      *)
(***************************************************************************)
EXTENDS Integers, SequencesExt, Subsequences

CONSTANTS KindCap,  \* KIND_CAPS
          InlineCap \* INLINE_FILE_CAP

NoKey == "none"
ListRow == [key : STRING, kind : DOMAIN KindCap, name : Nat, score : Int, order : Nat]
KeysOf(rows) == {rows[i].key : i \in DOMAIN rows}

\* byScore, as "a comes before b".
FileSide(r) == r.kind = "file"
Before(a, b) ==
  \/ a.score > b.score
  \/ /\ a.score = b.score
     /\ IF a.kind = "command" /\ b.kind = "command" /\ a.order # b.order THEN a.order < b.order
        ELSE \/ ~FileSide(a) /\ FileSide(b)
             \/ FileSide(a) = FileSide(b) /\ a.name < b.name

\* sort(byScore), one row after another. Where commands meet other rows of their
\* score byScore is no order, and what sort makes of them is the engine's choice.
Placed(list, r) ==
  LET above == {n \in 0..Len(list) : \A i \in 1..n : ~Before(r, list[i])}
      n     == CHOOSE m \in above : \A k \in above : k <= m
  IN  FirstN(list, n) \o <<r>> \o SubSeq(list, n + 1, Len(list))
Sorted(list) ==
  LET upto[k \in 0..Len(list)] == IF k = 0 THEN <<>> ELSE Placed(upto[k - 1], list[k])
  IN  upto[Len(list)]

\* capByKind keeps the first KindCap rows of each kind and every exempt row,
\* which still counts against its kind.
CapByKind(rows, exempt) ==
  LET Nth(i) == Cardinality({j \in 1..i : rows[j].kind = rows[i].kind})
      kept   == {i \in DOMAIN rows : Nth(i) <= KindCap[rows[i].kind] \/ rows[i].key \in exempt}
  IN  AtPlaces(rows, kept)

\* collapseSameName: of the files of one name the first of the best score, and
\* of those the InlineCap best.
CollapseSameName(files, cap) ==
  LET Best(i) == \A j \in DOMAIN files : files[j].name = files[i].name =>
                   files[j].score < files[i].score \/ (files[j].score = files[i].score /\ i <= j)
  IN  FirstN(Sorted(AtPlaces(files, {i \in DOMAIN files : Best(i)})), cap)

MergePlain(apps, files, frozen, selectedKey) ==   \* mutant: nothing is frozen
  CapByKind(Sorted(apps \o files), {selectedKey} \ {NoKey})
\* mergeRows: a plain merge, or the frozen rows in their places, each in the
\* last copy byKey was given, and everything new below them.
MergeRows(apps, files, frozen, selectedKey) ==
  LET all     == Sorted(apps \o files)
      Copy(r) == {i \in DOMAIN all : all[i].key = r.key}
      Kept(r) == IF Copy(r) = {} THEN r ELSE all[CHOOSE i \in Copy(r) : \A j \in Copy(r) : j <= i]
      below   == AtPlaces(all, {i \in DOMAIN all : all[i].key \notin KeysOf(frozen)})
  IN  CapByKind([i \in DOMAIN frozen |-> Kept(frozen[i])] \o below,
                KeysOf(frozen) \cup ({selectedKey} \ {NoKey}))

\* selectionIndex, from 1.
SelectionIndex(rows, selectedKey) ==
  LET its == {i \in DOMAIN rows : rows[i].key = selectedKey}
  IN  IF selectedKey = NoKey \/ its = {} THEN 1 ELSE CHOOSE i \in its : \A j \in its : i <= j
=============================================================================
