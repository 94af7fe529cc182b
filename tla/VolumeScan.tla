------------------------------ MODULE VolumeScan ------------------------------
(***************************************************************************)
(* How a volume's files are first found: which volumes there are           *)
(* (volumes.rs), the packed records of a journal or MFT answer and the     *)
(* loop over the MFT (mft.rs), and the directory walk of a build without   *)
(* the privilege (walk.rs). Pure functions of what Windows answers.        *)
(***************************************************************************)
EXTENDS Integers, SequencesExt

CONSTANTS
  Header,        \* USN_RECORD_V2_HEADER
  Alignment,     \* of records
  Records,       \* [len, version, nameOff, nameLen, number]: what an answer may hold
  MaxRecords,    \* records of one answer
  FirstUser,     \* FIRST_USER_FILE_NUMBER
  Numbers,       \* file numbers of a volume
  Batch,         \* records the kernel returns at a time
  Nodes          \* files and directories of a walked tree, 1..n

ASSUME ScanAssumption ==
  /\ Header \in Nat /\ Header >= 4   \* it begins with the record's length
  /\ Alignment \in Nat \ {0} /\ Batch \in Nat \ {0} /\ FirstUser \in Nat
  /\ MaxRecords \in Nat /\ Numbers \subseteq Nat
  /\ IsFiniteSet(Nodes) /\ Nodes \subseteq Nat \ {0}
  /\ \A r \in Records : r.len \in Nat /\ r.nameOff \in Nat /\ r.nameLen \in Nat

\* The items of seq that are in wanted, in their order.
Keep(kept, item, wanted) == IF item \in wanted THEN Append(kept, item) ELSE kept
Kept(seq, wanted) ==
  LET upto[i \in 0..Len(seq)] == IF i = 0 THEN <<>> ELSE Keep(upto[i - 1], seq[i], wanted)
  IN  upto[Len(seq)]

-----------------------------------------------------------------------------
(* for_each_record and parse_v2_record. A buffer: the records at their     *)
(* offsets, and its size.                                                  *)

Aligned(n) == ((n + Alignment - 1) \div Alignment) * Alignment

NameIsBad(r) == r.nameOff < Header \/ r.nameLen % 2 # 0 \/ r.nameOff + r.nameLen > r.len
WellFormed == {r \in Records : r.version = 2 /\ ~NameIsBad(r)}

NextPacked(off, r) == off + r.len   \* mutant: records follow each other without padding
NextOffset(off, r) == Aligned(off + r.len)

\* far: one past the last byte read.
ReadRecord(buf, s) ==
  LET r == buf.at[s.off]
  IN  IF r.len < Header \/ r.len > buf.size - s.off   \* 0 ends the answer
      THEN [s EXCEPT !.done = TRUE, !.far = Max({@, s.off + 4})]
      ELSE [s EXCEPT !.off = NextOffset(s.off, r),
                     !.far = Max({@, s.off + IF r \in WellFormed THEN r.nameOff + r.nameLen ELSE Header}),
                     !.out = IF r \in WellFormed THEN Append(@, r) ELSE @]

NextRecord(buf, s) ==
  IF s.done \/ s.off + Header > buf.size THEN s
  ELSE IF s.off \in DOMAIN buf.at THEN ReadRecord(buf, s)
  ELSE [s EXCEPT !.done = TRUE, !.far = Max({@, s.off + 4})]   \* bytes of no record: a zero length

ForEachRecord(buf) ==
  LET walk[i \in 0..(MaxRecords + 1)] ==
        IF i = 0 THEN [off |-> 0, far |-> 0, out |-> <<>>, done |-> FALSE]
        ELSE NextRecord(buf, walk[i - 1])
  IN  walk[MaxRecords + 1]

\* What the kernel packs: each record at the next aligned offset (external).
Offsets(rs) ==
  LET at[i \in 0..Len(rs)] == IF i = 0 THEN 0 ELSE Aligned(at[i - 1] + rs[i].len)
  IN  [i \in 1..(Len(rs) + 1) |-> at[i - 1]]
Packed(rs) ==
  LET o == Offsets(rs)
  IN  [at   |-> [off \in {o[i] : i \in DOMAIN rs} |-> rs[CHOOSE i \in DOMAIN rs : o[i] = off
                                                         /\ \A j \in 1..(i - 1) : o[j] # off]],
       size |-> IF rs = <<>> THEN 0 ELSE o[Len(rs)] + rs[Len(rs)].len]

-----------------------------------------------------------------------------
(* enumerate: the MFT from record 0 until the kernel has no more.          *)

Ascending(S) ==
  CHOOSE s \in [1..Cardinality(S) -> S] : \A i, j \in DOMAIN s : i < j => s[i] < s[j]

\* FSCTL_ENUM_USN_DATA (external): the next batch of in-use numbers from start on.
Answer(mft, start, stall) ==
  LET rest == {n \in mft : n >= start}
      got  == {n \in rest : Cardinality({m \in rest : m < n}) < Batch}
  IN  [eof |-> rest = {}, records |-> Ascending(got),
       next |-> IF rest = {} \/ start = stall THEN start ELSE Max(got) + 1]

EnumerateFrom(mft, stall, scan) ==
  LET got == Answer(mft, scan.start, stall)
  IN  IF scan.done THEN scan
      ELSE IF got.eof THEN [scan EXCEPT !.done = TRUE]
      ELSE [start |-> got.next, done |-> got.next = scan.start,   \* no forward progress
            added |-> scan.added \o Kept(got.records, {n \in Numbers : n >= FirstUser})]
Enumerate(mft, stall) ==
  LET scan[i \in 0..(Cardinality(mft) + 1)] ==
        IF i = 0 THEN [start |-> 0, added |-> <<>>, done |-> FALSE]
        ELSE EnumerateFrom(mft, stall, scan[i - 1])
  IN  scan[Cardinality(mft) + 1]

-----------------------------------------------------------------------------
(* walk and scan_dir. A tree: [parent, kind, readable]; node 0 is the root, *)
(* a link is a reparse point, which is an entry and never a directory to    *)
(* enter; a node whose metadata cannot be read is not an entry.             *)

\* In the order the directory lists them, which nothing promises.
Children(t, d) == SetToSeq({n \in Nodes : t.parent[n] = d /\ t.readable[n] # "no_metadata"})

Enters(t, n) == t.kind[n] = "dir"

AddEntry(t, w, dir, n) ==
  [next  |-> w.next + 1,
   added |-> Append(w.added, [frn |-> w.next, parent |-> dir.frn, node |-> n]),
   stack |-> IF Enters(t, n) THEN Append(w.stack, [node |-> n, frn |-> w.next]) ELSE w.stack]
ScanDir(t, w, dir) ==
  LET listed == Children(t, dir.node)
      scan[i \in 0..Len(listed)] == IF i = 0 THEN w ELSE AddEntry(t, scan[i - 1], dir, listed[i])
  IN  scan[Len(listed)]

\* The last directory pushed is the next one read; one that cannot be read is skipped.
WalkNext(t, w) ==
  IF w.stack = <<>> THEN w
  ELSE LET dir == w.stack[Len(w.stack)]
           rest == [w EXCEPT !.stack = SubSeq(@, 1, Len(@) - 1)]
       IN  IF dir.node # 0 /\ t.readable[dir.node] # "yes" THEN rest ELSE ScanDir(t, rest, dir)
WalkTree(t) ==
  LET walk[i \in 0..(Cardinality(Nodes) + 1)] ==
        IF i = 0 THEN [next |-> 100, added |-> <<>>, stack |-> <<[node |-> 0, frn |-> 0]>>]
        ELSE WalkNext(t, walk[i - 1])
  IN  walk[Cardinality(Nodes) + 1]

-----------------------------------------------------------------------------
(* discover. A volume: the answers of the three calls it is asked for.     *)

\* A mount list that does not fit is asked for once more.
Mounts(answers) == IF answers[1] = "more_data" THEN answers[2] ELSE answers[1]
ProbeVolume(v) == Mounts(v.mounts) = "ok" /\ v.fs # "error"
FixedNtfs(v) == v.drive = "fixed" /\ v.fs = "NTFS"
Volume == [mounts : [1..2 -> {"ok", "more_data", "error"}], fs : {"NTFS", "other", "error"},
           drive : {"fixed", "removable"}]
Discover(vs) == Kept(vs, {v \in Volume : ProbeVolume(v)})

-----------------------------------------------------------------------------
(* Properties.                                                             *)

RecordSeqs == UNION {[1..n -> Records] : n \in 0..MaxRecords}

\* Every well-formed record before the first bad length is delivered, once and in
\* order, whether or not its length was rounded up; a bad name loses only itself; and
\* no byte outside the answer is read.
RecordsAreRead ==
  \A rs \in RecordSeqs :
    LET buf == Packed(rs)
        walk == ForEachRecord(buf)
        stops == {i \in DOMAIN rs : rs[i].len < Header}
        upto == IF stops = {} THEN rs ELSE SubSeq(rs, 1, Min(stops) - 1)
    IN  /\ walk.out = Kept(upto, WellFormed)
        /\ walk.far <= buf.size
        \* the answer cut short inside its last record: the others still arrive
        /\ rs # <<>> /\ stops = {} =>
             LET cut == [buf EXCEPT !.size = @ - 1]
             IN  /\ ForEachRecord(cut).out = Kept(SubSeq(rs, 1, Len(rs) - 1), WellFormed)
                 /\ ForEachRecord(cut).far <= cut.size

\* The scan of the MFT adds every user file once and no metafile, however the kernel
\* cuts it up; one that makes no progress ends it, with what it had.
AddedBelow(mft, added, below) ==
  /\ ToSet(added) = {n \in mft : n >= FirstUser /\ n < below}
  /\ \A i, j \in DOMAIN added : i < j => added[i] < added[j]
ScanIsWhole ==
  \A mft \in SUBSET Numbers : IsFiniteSet(mft) =>
    \A stall \in Numbers \cup {-1} :   \* -1: the kernel never fails to get on
      LET scan == Enumerate(mft, stall)
      IN  /\ scan.done
          /\ \E below \in {0} \cup {n + 1 : n \in mft} :
                /\ AddedBelow(mft, scan.added, below)
                /\ stall = -1 => \A n \in mft : n < below

\* The directory trees, their nodes numbered with each parent before its children.
Trees ==
  {t \in [parent : [Nodes -> {0} \cup Nodes], kind : [Nodes -> {"file", "dir", "link"}],
          readable : [Nodes -> {"yes", "denied", "no_metadata"}]] :
     \A n \in Nodes : t.parent[n] < n}
\* The nodes that can be read, of those under the root or a directory in S.
Under(t, S) ==
  {n \in Nodes : /\ t.readable[n] # "no_metadata"
                 /\ \/ t.parent[n] = 0
                    \/ /\ t.parent[n] \in S
                       /\ t.kind[t.parent[n]] = "dir" /\ t.readable[t.parent[n]] = "yes"}
\* As parents come first, only one set is what lies under it.
Reachable(t) == CHOOSE S \in SUBSET Nodes : S = Under(t, S)

\* The walk adds exactly what can be reached through directories that can be read,
\* each once, under a parent it has already added; it ends even when a link leads
\* back into the tree.
WalkReachesAll ==
  \A t \in Trees :
    LET w == WalkTree(t)
    IN  /\ w.stack = <<>>
        /\ {w.added[i].node : i \in DOMAIN w.added} = Reachable(t)
        /\ \A i, j \in DOMAIN w.added :
             w.added[i].node = w.added[j].node \/ w.added[i].frn = w.added[j].frn => i = j
        /\ \A i \in DOMAIN w.added :
             \/ t.parent[w.added[i].node] = 0 /\ w.added[i].parent = 0
             \/ \E j \in 1..(i - 1) : /\ w.added[j].node = t.parent[w.added[i].node]
                                      /\ w.added[j].frn = w.added[i].parent

\* A volume that cannot be probed costs no other volume its index.
VolumesStandAlone ==
  \A vs \in [1..2 -> Volume] :
    \A i \in 1..2 :
      (\E k \in DOMAIN Discover(vs) : Discover(vs)[k] = vs[i] /\ FixedNtfs(vs[i]))
        <=> /\ vs[i].fs = "NTFS" /\ vs[i].drive = "fixed"
            /\ vs[i].mounts[1] = "ok" \/ (vs[i].mounts[1] = "more_data" /\ vs[i].mounts[2] = "ok")
=============================================================================
