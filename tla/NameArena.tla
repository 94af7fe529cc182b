------------------------------ MODULE NameArena ------------------------------
(***************************************************************************)
(* The name arenas of the index and the columns search reads, over the     *)
(* entry table of SlotTable: crates/yspot-index/src/index.rs, with the     *)
(* passes of crates/yspot-index/src/matching.rs as state functions.        *)
(*                                                                         *)
(* Names are appended, never moved, until compaction; a delete or rename   *)
(* fences over the folded bytes it leaves behind.  Every column below is   *)
(* written only by Register, Unregister and CompactArena.  The passes      *)
(* check no liveness of their own, so a stale byte in any column is a      *)
(* wrong or a missing answer.                                              *)
(***************************************************************************)
EXTENDS SlotTable, ArenaScan

CONSTANTS Orig,        \* usable name -> its bytes in the name arena
          Folded,      \* usable name -> its bytes once folded
          Initials,    \* usable name -> the folded initials that fit a lane
          OwnerBlock,  \* OWNER_BLOCK: arena bytes per owner entry
          TriMin,      \* TRI_PRESENT_MIN_ARENA
          MaxArena,    \* the offset space of an arena (u32::MAX in the code)
          Query        \* folded queries; none holds a fence

\* A usable name has a byte and a folded byte at least, and no control byte, which
\* is what a fence is; intern refuses any other.
ASSUME ArenaAssumption ==
    /\ {LaneWidth, OwnerBlock, PollChunk} \subseteq Nat \ {0} /\ {TriMin, MaxArena} \subseteq Nat
    /\ \A n \in Name \ BadName :
           /\ Orig[n] \in Seq(Nat) /\ Folded[n] \in Seq(Nat \ {Fence}) /\ Folded[n] # <<>>
           /\ Initials[n] \in Seq(Nat \ {Fence}) /\ Len(Initials[n]) <= LaneWidth
    /\ \A q \in Query : q \in Seq(Nat \ {Fence}) /\ q # <<>>

VARIABLE cols          \* the arenas and the slot-keyed columns
VARIABLE arena_settled \* settled: finalize has run

arenaVars == <<slotVars, cols, arena_settled>>

Rows(c) == Len(c.folded_off)
Blank == [i \in 1..LaneWidth |-> Fence]
Lane(n) == [i \in 1..LaneWidth |-> IF i <= Len(Initials[n]) THEN Initials[n][i] ELSE Fence]
HeadPair(n) == <<Folded[n][1], IF Len(Folded[n]) > 1 THEN Folded[n][2] ELSE Fence>>
Mask(bytes) == {bytes[i] : i \in DOMAIN bytes}
Grams(s, widest) == UNION {Windows(s, k) : k \in 1..widest}

FoldedLen(s) == Len(Folded[entries[s].name])
OrigLen(s) == Len(Orig[entries[s].name])
\* The initials column is one stretch of bytes, a lane to each slot.
Lanes(c) == [i \in 1..(LaneWidth * Len(c.initials)) |->
                c.initials[((i - 1) \div LaneWidth) + 1][((i - 1) % LaneWidth) + 1]]

\* Writing row s of a column: in place, or appended for a new slot.
SetRow(col, s, v) == IF s = Len(col) + 1 THEN Append(col, v) ELSE [col EXCEPT ![s] = v]
Fill(col, off, len) ==
    [i \in DOMAIN col |-> IF i - 1 \in off..(off + len - 1) THEN Fence ELSE col[i]]

-----------------------------------------------------------------------------
(* The two arenas and the two choke points. *)

Fits(c, n) ==
    /\ Len(c.names) + Len(Orig[n]) <= MaxArena
    /\ Len(c.folded) + Len(Folded[n]) + (IF c.folded = <<>> THEN 2 ELSE 1) <= MaxArena

Intern(c, n) ==
    [c EXCEPT !.names = @ \o Orig[n],
              !.folded = (IF @ = <<>> THEN <<Fence>> ELSE @) \o Folded[n] \o <<Fence>>]

\* push_arena_rec claims for the newest record every block not yet owned.
Owners(c, ri) ==
    LET blocks == (Len(c.folded) + OwnerBlock - 1) \div OwnerBlock
    IN  [b \in 1..blocks |-> IF b <= Len(c.owner) THEN c.owner[b] ELSE ri]

\* register_slot for the name Intern has just appended.
Register(c, s, n) ==
    LET off == Len(c.folded) - Len(Folded[n]) - 1
        wide == IF c.tri THEN 3 ELSE 2
    IN  [c EXCEPT !.name_off = SetRow(@, s, Len(c.names) - Len(Orig[n])),
                  !.folded_off = SetRow(@, s, off),
                  !.head = SetRow(@, s, HeadPair(n)),
                  !.initials = SetRow(@, s, Lane(n)),
                  !.classes = SetRow(@, s, Mask(Folded[n]) \union
                                           (IF s > Len(@) THEN {} ELSE @[s])),
                  !.grams = @ \union Grams(Folded[n], wide),
                  !.lane_grams = @ \union Grams(Lane(n), 2),
                  !.recs = Append(@, [off |-> off, slot |-> s]),
                  !.owner = Owners(c, Len(c.recs) + 1)]

\* unregister_slot: the class mask is read from the record before it is erased.
Unregister(c, s) ==
    [c EXCEPT !.classes[s] = @ \ Mask(Bytes(c.folded, c.folded_off[s], FoldedLen(s))),
              !.folded = Fill(@, c.folded_off[s], FoldedLen(s)),
              !.head[s] = <<Fence, Fence>>,
              !.initials[s] = Blank,
              !.dead_bytes = @ + OrigLen(s) + FoldedLen(s)]

\* Only the trigrams are ever dropped: an arena too small does without them.
ResizeTri(c, live) ==
    LET want == Len(c.folded) >= TriMin
        thin == {g \in c.grams : Len(g) < 3}
    IN  IF want = c.tri THEN c
        ELSE [c EXCEPT !.tri = want,
                       !.grams = IF want THEN thin \union UNION {Windows(Folded[n], 3) : n \in live}
                                         ELSE thin]

-----------------------------------------------------------------------------
(* Compaction, in place. *)

CopyWithin(col, from, len, to) ==
    [i \in DOMAIN col |-> IF i - 1 \in to..(to + len - 1) THEN col[from + i - to] ELSE col[i]]

\* Mutant: the folded name is copied over its length in the other arena.
MoveOneOrigLen(st, rec, ns) ==
    LET fl == FoldedLen(rec.slot)
        nl == OrigLen(rec.slot)
        copied == CopyWithin(st.folded, rec.off, nl, st.fw)
    IN  [folded |-> [copied EXCEPT ![st.fw + fl + 1] = Fence],
         names |-> CopyWithin(st.names, st.name_off[ns], nl, st.nw),
         folded_off |-> [st.folded_off EXCEPT ![ns] = st.fw],
         name_off |-> [st.name_off EXCEPT ![ns] = st.nw],
         recs |-> Append(st.recs, [off |-> st.fw, slot |-> ns]),
         fw |-> st.fw + fl + 1,
         nw |-> st.nw + nl]

\* One record to the write positions fw and nw, and the fence after it.
MoveOne(st, rec, ns) ==
    LET fl == FoldedLen(rec.slot)
        nl == OrigLen(rec.slot)
        copied == CopyWithin(st.folded, rec.off, fl, st.fw)
    IN  [folded |-> [copied EXCEPT ![st.fw + fl + 1] = Fence],
         names |-> CopyWithin(st.names, st.name_off[ns], nl, st.nw),
         folded_off |-> [st.folded_off EXCEPT ![ns] = st.fw],
         name_off |-> [st.name_off EXCEPT ![ns] = st.nw],
         recs |-> Append(st.recs, [off |-> st.fw, slot |-> ns]),
         fw |-> st.fw + fl + 1,
         nw |-> st.nw + nl]

\* A record is its slot's own when the slot survives and its offset, as rewritten
\* so far, still names the record.
MoveRecord(st, rec, keep) ==
    LET ns == CHOOSE i \in DOMAIN keep : keep[i] = rec.slot
    IN  IF (\E i \in DOMAIN keep : keep[i] = rec.slot) /\ st.folded_off[ns] = rec.off
        THEN MoveOne(st, rec, ns) ELSE st

\* Pass 3: the surviving records move left in arena order.
MoveRecords(c, keep) ==
    LET start == [folded |-> c.folded, names |-> c.names,
                  folded_off |-> [i \in DOMAIN keep |-> c.folded_off[keep[i]]],
                  name_off |-> [i \in DOMAIN keep |-> c.name_off[keep[i]]],
                  recs |-> <<>>, fw |-> 1, nw |-> 0]
        moved[k \in 0..Len(c.recs)] ==
            IF k = 0 THEN start ELSE MoveRecord(moved[k - 1], c.recs[k], keep)
    IN  moved[Len(c.recs)]

\* Blocks that start before a record belong to the one before it.
RebuildOwners(recs, len) ==
    [b \in 1..((len + OwnerBlock - 1) \div OwnerBlock) |->
        LET later == {r \in DOMAIN recs : recs[r].off > (b - 1) * OwnerBlock}
        IN  IF later = {} THEN Len(recs) ELSE Max({Min(later) - 1, 1})]

\* The presence sets are rebuilt from the names that moved.
Regrammed(moved, keep, tri) ==
    UNION {Grams(Bytes(moved.folded, moved.folded_off[i], FoldedLen(keep[i])),
                 IF tri THEN 3 ELSE 2) : i \in DOMAIN keep}

CompactArena(c, keep) ==
    LET moved == MoveRecords(c, keep)
        len == IF moved.recs = <<>> THEN 0 ELSE moved.fw
        kept == {entries[keep[i]].name : i \in DOMAIN keep}
        tri == len >= TriMin
        lanes == [i \in DOMAIN keep |-> c.initials[keep[i]]]
    IN  [names |-> SubSeq(moved.names, 1, moved.nw),
         folded |-> SubSeq(moved.folded, 1, len),
         name_off |-> moved.name_off,
         folded_off |-> moved.folded_off,
         recs |-> moved.recs,
         owner |-> RebuildOwners(moved.recs, len),
         head |-> [i \in DOMAIN keep |-> c.head[keep[i]]],
         initials |-> lanes,
         classes |-> [i \in DOMAIN keep |->
             Mask(Bytes(moved.folded, moved.folded_off[i], FoldedLen(keep[i])))],
         grams |-> Regrammed(moved, keep, tri),
         lane_grams |-> UNION {Grams(lanes[i], 2) : i \in DOMAIN keep},
         tri |-> tri,
         dead_bytes |-> 0]

-----------------------------------------------------------------------------
(* The actions: SlotTable's, each with what it writes here. *)

ArenaInit ==
    /\ SlotInit
    /\ arena_settled = FALSE
    /\ cols = [names |-> <<>>, folded |-> <<>>, name_off |-> <<>>, folded_off |-> <<>>,
               recs |-> <<>>, owner |-> <<>>, head |-> <<>>, initials |-> <<>>,
               classes |-> <<>>, grams |-> {}, lane_grams |-> {}, tri |-> TRUE,
               dead_bytes |-> 0]

\* add_entry: interned first, then the slot's old name torn down, if it had one.
AddEntry(f, p, n) ==
    LET interned == Intern(cols, n)
        vacated == IF Known(f) THEN Unregister(interned, frn_map[f]) ELSE interned
    IN  /\ SlotAdd(f, p, n)
        /\ Fits(cols, n)
        /\ cols' = Register(vacated, SlotFor(f), n)
        /\ UNCHANGED arena_settled

ArenaLoad(f, p, n) == ~arena_settled /\ ~Known(f) /\ AddEntry(f, p, n)

ArenaFinalize ==
    /\ ~arena_settled
    /\ arena_settled' = TRUE
    /\ cols' = ResizeTri(cols, {entries[s].name : s \in LiveSlot})
    /\ UNCHANGED slotVars

ArenaCreate(f, p, n) == arena_settled /\ AddEntry(f, p, n)

ArenaDelete(f) ==
    /\ arena_settled
    /\ SlotRemove(f)
    /\ cols' = Unregister(cols, frn_map[f])
    /\ UNCHANGED arena_settled

ArenaRename(f, p, n) ==
    /\ arena_settled
    /\ SlotRename(f, p, n)
    /\ Fits(cols, n)
    /\ cols' = Register(Unregister(Intern(cols, n), frn_map[f]), frn_map[f], n)
    /\ UNCHANGED arena_settled

ArenaCompact(keep) ==
    /\ arena_settled
    /\ SlotCompact(keep)
    /\ cols' = CompactArena(cols, keep)
    /\ UNCHANGED arena_settled

ArenaNext ==
    \/ \E f \in Frn, p \in Parent, n \in Name :
           ArenaLoad(f, p, n) \/ ArenaCreate(f, p, n) \/ ArenaRename(f, p, n)
    \/ \E f \in Frn : ArenaDelete(f)
    \/ \E keep \in Renumbering : ArenaCompact(keep)
    \/ ArenaFinalize

ArenaSpec == ArenaInit /\ [][ArenaNext]_arenaVars

-----------------------------------------------------------------------------
(* The passes of a search, which reads the columns under the read lock. *)

\* slot_at: from the owner of the hit's block, forward to the last record that
\* starts at or before the hit; 0 when that record is nobody's any more.
SlotAt(c, hit) ==
    LET ri == c.owner[(hit \div OwnerBlock) + 1]
        walked == {r \in (ri + 1)..Len(c.recs) :
                      \A j \in (ri + 1)..r : c.recs[j].off <= hit}
        rec == c.recs[Max({ri} \union walked)]
    IN  IF rec.off = c.folded_off[rec.slot] /\ ~entries[rec.slot].dead THEN rec.slot ELSE 0

\* Pass A, behind its gate: slot and class of every hit.
ArenaPass(q) ==
    LET hits == ScanHits(cols.folded, q)
        Class(h) == Classify(At(cols.folded, h - 1), At(cols.folded, h + Len(q)))
    IN  IF MayContain(cols.grams, q, IF cols.tri THEN 3 ELSE 2)
        THEN {<<SlotAt(cols, h), Class(h)>> : h \in hits}
        ELSE {}

\* The head pass answers a one-byte query's exact and prefix tiers.
HeadPass(q) ==
    {<<s, IF cols.head[s][2] = Fence THEN "exact" ELSE "prefix">> :
        s \in {t \in 1..Rows(cols) : cols.head[t][1] = q[1]}}

\* Every offer to the page: a one-byte query takes its upper tiers from the
\* head column and only inner hits from the arena.
NameOffers(q) ==
    {o \in ArenaPass(q) : o[1] # 0 /\ (Len(q) = 1 => o[2] = "inner")}
        \union (IF Len(q) = 1 THEN HeadPass(q) ELSE {})

InitialsPass(q) ==
    IF Len(q) <= LaneWidth /\ MayContain(cols.lane_grams, q, 2)
    THEN LaneHits(Lanes(cols), q) ELSE {}

\* Pass C verifies each slot whose classes cover the query's.
FuzzyPass(q) ==
    {s \in 1..Rows(cols) :
        /\ Mask(q) \subseteq cols.classes[s]
        /\ Subsequence(q, Bytes(cols.folded, cols.folded_off[s], FoldedLen(s)))}

-----------------------------------------------------------------------------
(* Properties. *)

ArenaTypeOK ==
    /\ SlotTypeOK
    /\ arena_settled \in BOOLEAN
    /\ Len(cols.names) <= MaxArena /\ Len(cols.folded) <= MaxArena
    /\ Rows(cols) = Len(entries) /\ Len(cols.name_off) = Len(entries)
    /\ Len(cols.head) = Len(entries) /\ Len(cols.initials) = Len(entries)
    /\ Len(cols.classes) = Len(entries)
    /\ cols.dead_bytes \in Nat

\* A live entry's offsets spell its own name in both arenas, with a fence on
\* either side of the folded one, however often the arenas were compacted in
\* place: the matcher reads those fences unchecked.
LiveNamesIntact == \A s \in LiveSlot :
    /\ Bytes(cols.names, cols.name_off[s], OrigLen(s)) = Orig[entries[s].name]
    /\ Bytes(cols.folded, cols.folded_off[s] - 1, FoldedLen(s) + 2)
           = <<Fence>> \o Folded[entries[s].name] \o <<Fence>>

\* The tier a live name deserves for a query it contains.
TierOf(q, name) ==
    IF name = q THEN "exact" ELSE IF IsPrefix(q, name) THEN "prefix" ELSE "inner"

\* The best tier offered for a slot is what the caller sees.
BestOf(offers, s) ==
    IF <<s, "exact">> \in offers THEN "exact"
    ELSE IF <<s, "prefix">> \in offers THEN "prefix" ELSE "inner"

\* A search by name offers each live file whose name contains the query, with
\* its right tier, and nothing else: no erased name, no recycled slot's former
\* owner, no hit charged to the neighbouring record, no gate that says no to a
\* name that is there.
NameSearchExact == \A q \in Query :
    LET offers == NameOffers(q)
        offered == {o[1] : o \in offers}
    IN  /\ offered = {s \in LiveSlot : Occurs(q, Folded[entries[s].name])}
        /\ \A s \in offered : BestOf(offers, s) = TierOf(q, Folded[entries[s].name])

\* The two passes that look at columns only.  A camel-case search offers exactly
\* the live files whose initials contain the query: a tombstone's lane is inert
\* and no hit spans two lanes.  The fuzzy pass offers exactly those the query is
\* a subsequence of, and its prefilter never degrades: a slot's class bits are
\* its present name's, and none once it is dead.
ColumnSearchExact ==
    /\ \A q \in Query :
           /\ InitialsPass(q) = {s \in LiveSlot : Occurs(q, Initials[entries[s].name])}
           /\ FuzzyPass(q) = {s \in LiveSlot : Subsequence(q, Folded[entries[s].name])}
    /\ \A s \in Slot : cols.classes[s] =
           IF entries[s].dead THEN {} ELSE Mask(Folded[entries[s].name])

\* The compaction trigger counts what compaction would free: every byte of the
\* arenas is a live name's, a fence, or charged to dead_bytes.
Total(weights) ==
    LET upto[k \in 0..Len(weights)] == IF k = 0 THEN 0 ELSE upto[k - 1] + weights[k]
    IN  upto[Len(weights)]
DeadBytesExact ==
    Len(cols.names) + Len(cols.folded) =
        Total([s \in Slot |-> IF entries[s].dead THEN 0 ELSE OrigLen(s) + FoldedLen(s)])
        + cols.dead_bytes
        + (IF cols.folded = <<>> THEN 0 ELSE Len(cols.recs) + 1)

\* After any number of creates, deletes, renames and compactions in place, the
\* arenas spell the live names, both searches over them find exactly those, and
\* the garbage in them is accounted for; no offset leaves the arena.
ArenaExact == ArenaTypeOK /\ LiveNamesIntact /\ NameSearchExact /\ ColumnSearchExact /\ DeadBytesExact
==============================================================================
