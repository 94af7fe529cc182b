------------------------------ MODULE ArenaScan ------------------------------
(***************************************************************************)
(* How one query is looked for in a byte column (crates/yspot-index/src/   *)
(* matching.rs): the windowed substring scan of Pass A, the lane scan of   *)
(* Pass B, the class of a hit by the two bytes that fence it, and the      *)
(* presence gate in front of both.  A column is a sequence of bytes, 0 the *)
(* fence; offsets count from 0, as in the code.                            *)
(***************************************************************************)
EXTENDS Naturals, Sequences, FiniteSets, SequencesExt

CONSTANTS PollChunk,   \* SCAN_POLL_CHUNK: bytes scanned between two cancel polls
          LaneWidth    \* INITIALS_STRIDE

Fence == 0

At(col, off) == col[off + 1]
Bytes(col, off, len) == SubSeq(col, off + 1, off + len)

\* The presence sets hold n-grams of names: windows of one, two or three bytes.
Windows(s, k) == {SubSeq(s, i, i + k - 1) : i \in 1..(Len(s) + 1 - k)}
Occurs(q, s) == q \in Windows(s, Len(q))
Subsequence(q, s) ==
    LET taken[i \in 0..Len(s)] ==
            IF i = 0 THEN 0
            ELSE IF taken[i - 1] < Len(q) /\ s[i] = q[taken[i - 1] + 1]
                 THEN taken[i - 1] + 1 ELSE taken[i - 1]
    IN  taken[Len(s)] = Len(q)

\* A query passes the gate when every window of it has been seen.
MayContain(grams, q, widest) ==
    \A k \in 1..widest : Windows(q, k) \subseteq grams

\* finder.find: the first occurrence wholly inside col[lo..hi), or -1 as hi.
Occurrences(col, q, lo, hi) ==
    {h \in lo..(hi - 1) : h + Len(q) <= hi /\ Bytes(col, h, Len(q)) = q}

\* The non-overlapping hits of one window, from its start to its end.
HitsIn(col, q, lo, hi) ==
    LET found[cursor \in lo..hi] ==
            LET hs == Occurrences(col, q, cursor, hi)
            IN  IF hs = {} THEN {} ELSE {Min(hs)} \union found[Min(hs) + Len(q)]
    IN  found[lo]

\* Mutant: the next window starts where the last one ended.
ScanHitsDisjoint(col, q) ==
    LET len == Len(col)
        qlen == Len(q)
        from[pos \in 0..len] ==
            IF pos + qlen > len THEN {}
            ELSE LET end == Min({pos + PollChunk + qlen, len})
                 IN  HitsIn(col, q, pos, end) \union from[end]
    IN  from[0]

\* Pass A's scan: windows of PollChunk bytes plus the needle, each resumed
\* where the next hit may start.
ScanHits(col, q) ==
    LET len == Len(col)
        qlen == Len(q)
        from[pos \in 0..len] ==
            IF pos + qlen > len THEN {}
            ELSE LET end == Min({pos + PollChunk + qlen, len})
                     hs == HitsIn(col, q, pos, end)
                     cursor == IF hs = {} THEN pos ELSE Max(hs) + qlen
                     next == IF end = len THEN len ELSE Max({cursor, end - (qlen - 1)})
                 IN  hs \union from[next]
    IN  from[0]

\* classify: what the bytes on either side of a hit say of it.  Word-boundary
\* and plain substring hits rank differently but are found alike: "inner".
Classify(before, after) ==
    IF before # Fence THEN "inner" ELSE IF after = Fence THEN "exact" ELSE "prefix"

\* Pass B's scan of the lanes laid end to end: a hit that straddles two lanes
\* is dropped and the scan resumes one byte on.
LaneHits(col, q) ==
    LET len == Len(col)
        from[cursor \in 0..len] ==
            LET hs == Occurrences(col, q, cursor, len)
                hit == Min(hs)
            IN  IF hs = {} THEN {}
                ELSE IF (hit % LaneWidth) + Len(q) > LaneWidth THEN from[hit + 1]
                ELSE {(hit \div LaneWidth) + 1} \union from[hit + Len(q)]
    IN  from[0]
==============================================================================
