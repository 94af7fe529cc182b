----------------------------- MODULE DepthRepair -----------------------------
(***************************************************************************)
(* The ranking depth the index caches for every slot (rank_key), and the   *)
(* writer-side repair that brings the cache back after a directory moved:  *)
(* crates/yspot-index/src/index.rs.  A move or a removal of a directory    *)
(* arms the repair; slices of the sweep then run under their own write     *)
(* locks, so any mutation may land between two of them.  The 500 ms        *)
(* debounce only delays a slice and is left out: an armed repair may run   *)
(* its next slice at any moment.                                           *)
(***************************************************************************)
EXTENDS SlotTable, DepthSweep

CONSTANT SliceSize     \* DEPTH_REPAIR_SLICE: slots visited per write lock

\* Only a directory is a parent, and a reference never changes its kind: it holds
\* the sequence number of its MFT record.
ASSUME DepthAssumption ==
    MaxDepth \in Nat \ {0} /\ SliceSize \in Nat \ {0} /\ Parent \cap Frn \subseteq DirFrn

VARIABLES rank,       \* slot -> cached depth; MaxDepth for a tombstone
          settled,    \* the bulk load has finished
          armed,      \* a depth repair is outstanding
          cursor,     \* slots below it have been visited by the repair
          swept       \* slots the repair has marked done

repairVars == <<armed, cursor, swept>>
depthVars == <<slotVars, rank, settled, repairVars>>

UpLinks(es, map) ==
    [s \in DOMAIN es |->
        LET p == es[s].parent
        IN  IF p \in Frn THEN (IF map[p] # s THEN map[p] ELSE 0) ELSE 0]

Up == UpLinks(entries, frn_map)

\* register_slot's rule: one more than what the parent's slot has cached.
RegisterDepth(s, f, p) ==
    IF p \in Frn \ {f} /\ frn_map[p] \notin {0, s} THEN Clamp(rank[frn_map[p]] + 1)
                                                   ELSE 0

SetRank(s, d) == IF s = Len(rank) + 1 THEN Append(rank, d)
                                      ELSE [rank EXCEPT ![s] = d]

Arm == armed' = TRUE /\ cursor' = 0 /\ swept' = {}
Disarm == armed' = FALSE /\ cursor' = 0 /\ swept' = {}

\* note_reparent: a known directory is about to get another parent.
Reparents(f, p) ==
    /\ Known(f)
    /\ entries[frn_map[f]].dir
    /\ entries[frn_map[f]].parent # p

-----------------------------------------------------------------------------
DepthInit ==
    /\ SlotInit
    /\ rank = <<>>
    /\ settled = FALSE
    /\ armed = FALSE
    /\ cursor = 0
    /\ swept = {}

\* add_entry.  resweep_recycled rewinds the cursor to a slot it has passed.
DepthAdd(f, p, n) ==
    /\ SlotAdd(f, p, n)
    /\ rank' = SetRank(SlotFor(f), RegisterDepth(SlotFor(f), f, p))
    /\ IF Reparents(f, p) THEN Arm
       ELSE /\ cursor' = IF armed /\ SlotFor(f) <= cursor THEN SlotFor(f) - 1
                                                          ELSE cursor
            /\ UNCHANGED <<armed, swept>>
    /\ UNCHANGED settled

\* The bulk load adds records in MFT order, each reference once, and settles.
BulkAdd(f, p, n) == ~settled /\ ~Known(f) /\ DepthAdd(f, p, n)

FullSweep(es, map, rk) ==
    LET live == {s \in DOMAIN es : ~es[s].dead}
    IN  Sweep(UpLinks(es, map), live, 1, Len(es), [rank |-> rk, done |-> {}]).rank

Finalize ==
    /\ ~settled
    /\ settled' = TRUE
    /\ rank' = FullSweep(entries, frn_map, rank)
    /\ Disarm
    /\ UNCHANGED slotVars

ApplyCreate(f, p, n) == settled /\ DepthAdd(f, p, n)

\* Mutant: a directory's removal arms nothing.
ApplyDeleteUnarmed(f) ==
    /\ settled
    /\ SlotRemove(f)
    /\ rank' = [rank EXCEPT ![frn_map[f]] = MaxDepth]
    /\ UNCHANGED <<settled, repairVars>>

ApplyDelete(f) ==
    /\ settled
    /\ SlotRemove(f)
    /\ rank' = [rank EXCEPT ![frn_map[f]] = MaxDepth]
    /\ IF entries[frn_map[f]].dir THEN Arm ELSE UNCHANGED repairVars
    /\ UNCHANGED settled

\* rename_entry re-registers like add_entry but never rewinds the cursor.
ApplyRename(f, p, n) ==
    /\ settled
    /\ SlotRename(f, p, n)
    /\ rank' = [rank EXCEPT ![frn_map[f]] = RegisterDepth(frn_map[f], f, p)]
    /\ IF Reparents(f, p) THEN Arm ELSE UNCHANGED repairVars
    /\ UNCHANGED settled

\* Mutant: the repair starts over at the table's end.
RepairSliceEndless ==
    LET end == IF cursor + SliceSize < Len(entries) THEN cursor + SliceSize
                                                    ELSE Len(entries)
        st == Sweep(Up, LiveSlot, cursor + 1, end, [rank |-> rank, done |-> swept])
    IN  /\ armed
        /\ rank' = st.rank
        /\ cursor' = IF end < Len(entries) THEN end ELSE 0
        /\ swept' = IF end < Len(entries) THEN st.done ELSE {}
        /\ UNCHANGED <<slotVars, settled, armed>>

\* One slice: visit the next SliceSize slots, and disarm at the table's end.
RepairSlice ==
    LET end == IF cursor + SliceSize < Len(entries) THEN cursor + SliceSize
                                                    ELSE Len(entries)
        st == Sweep(Up, LiveSlot, cursor + 1, end, [rank |-> rank, done |-> swept])
    IN  /\ armed
        /\ rank' = st.rank
        /\ IF end < Len(entries)
           THEN cursor' = end /\ swept' = st.done /\ UNCHANGED armed
           ELSE Disarm
        /\ UNCHANGED <<slotVars, settled>>

Compact(keep) ==
    /\ settled
    /\ SlotCompact(keep)
    /\ rank' = FullSweep(entries', frn_map', [i \in DOMAIN keep |-> rank[keep[i]]])
    /\ Disarm
    /\ UNCHANGED settled

\* A directory is never its own parent: the volume root, the one that is on the
\* volume, gets no entry (mft.rs:71).
Mutation ==
    \/ \E f \in Frn, p \in Parent, n \in Name :
           (p # f) /\ (BulkAdd(f, p, n) \/ ApplyCreate(f, p, n) \/ ApplyRename(f, p, n))
    \/ \E f \in Frn : ApplyDelete(f)
    \/ \E keep \in Renumbering : Compact(keep)
    \/ Finalize

DepthNext == Mutation \/ RepairSlice

DepthSpec == DepthInit /\ [][DepthNext]_depthVars

-----------------------------------------------------------------------------
(* Three kinds of event disturb a repair; a history variable remembers     *)
(* them, so that the depths are claimed exact whenever none came between.  *)

\* A create of a directory some live entry already names as its parent.
Adopts(f) == settled /\ ~Known(f) /\ \E s \in LiveSlot : entries[s].parent = f

\* A create that takes a slot the outstanding repair has already marked.
RecyclesSwept(f) == Recycles(f) /\ SlotFor(f) \in swept

\* A known entry is re-registered in a slot the repair has already marked,
\* and nothing arms the repair anew.
MovesSwept(f, p) == Known(f) /\ frn_map[f] \in swept /\ ~Reparents(f, p)

VARIABLE disturbed  \* one of them since the repair was last armed or all was swept
histVars == <<depthVars, disturbed>>

Disturbs(f, p) == Adopts(f) \/ RecyclesSwept(f) \/ MovesSwept(f, p)
StartsOver == cursor' = 0 /\ swept' = {} /\ (armed' \/ ~settled)
Noted(d) == disturbed' = (~StartsOver /\ (disturbed \/ d))

\* An event that names a parent, and every other step.
Follow(f, p, n) ==
    /\ p # f
    /\ BulkAdd(f, p, n) \/ ApplyCreate(f, p, n) \/ ApplyRename(f, p, n)
    /\ Noted(Disturbs(f, p))

Rest ==
    \/ \E f \in Frn : ApplyDelete(f) /\ Noted(FALSE)
    \/ \E keep \in Renumbering : Compact(keep) /\ disturbed' = FALSE
    \/ Finalize /\ Noted(FALSE)
    \/ RepairSlice /\ UNCHANGED disturbed

HistInit == DepthInit /\ disturbed = FALSE
HistNext == (\E f \in Frn, p \in Parent, n \in Name : Follow(f, p, n)) \/ Rest
HistSpec == HistInit /\ [][HistNext]_histVars

-----------------------------------------------------------------------------
(* Any client may pause the indexing of the whole machine.  Neither the    *)
(* housekeeper nor the tail loop begins a repair then; a drain or a batch  *)
(* either has begun goes on, so no step is barred, only none is owed.      *)

VARIABLE paused
pausableVars == <<histVars, paused>>

\* PauseIndexing and ResumeIndexing.
Pausing == paused' = ~paused /\ UNCHANGED histVars

PausableInit == HistInit /\ paused = FALSE
PausableNext == (HistNext /\ UNCHANGED paused) \/ Pausing

\* The housekeeper polls at every tick it does not find the indexing paused.
Polls == WF_pausableVars(RepairSlice /\ ~paused /\ UNCHANGED <<disturbed, paused>>)
PausableSpec == PausableInit /\ [][PausableNext]_pausableVars /\ Polls

-----------------------------------------------------------------------------
(* Properties. *)

Exact(s) == rank[s] = TrueDepth(Up, s)

DepthTypeOK ==
    /\ SlotTypeOK
    /\ rank \in Seq(0..MaxDepth) /\ Len(rank) = Len(entries)
    /\ settled \in BOOLEAN /\ armed \in BOOLEAN
    /\ cursor \in 0..Len(entries) /\ swept \subseteq Slot

\* With no repair outstanding every cached depth is the walked one: what the
\* tests assert after a finalize and after a drained repair, and what "bounded
\* staleness" means.
SettledDepths == settled /\ ~armed => \A s \in LiveSlot : Exact(s)

\* While a repair is outstanding, a slot it has marked done has its exact
\* depth, whatever was applied between the slices: the marks are memo bases
\* for every later walk, so one wrong mark spreads.
MarksAreExact == armed => \A s \in swept \cap LiveSlot : Exact(s)

\* The repair leaves nothing behind it: a live slot below the cursor is done,
\* even one that was a tombstone when the cursor passed and was recycled since.
NothingSkipped == armed => \A s \in LiveSlot : s <= cursor => s \in swept

\* Outside those three histories no cached depth is wrong once the repair has
\* ended, nor after a full sweep (finalize, compact): cycles of a replayed
\* journal, reused references, deletes and moves of directories between any two
\* slices included; while it runs a mark is never stale, however many mutations
\* its slices are interleaved with; it leaves no slot behind it; and a depth is
\* never past its cap.
RepairedDepths == DepthTypeOK /\ NothingSkipped /\ (~disturbed => SettledDepths /\ MarksAreExact)

\* Once the journal is quiet an armed repair runs to its end, no slice loses
\* the cursor or re-arms itself, unless the indexing is paused for ever or time
\* and again, in which case no one need begin the repair.
RepairCompletes == <>[][RepairSlice]_depthVars /\ <>[](~paused) => []<>(~armed)
==============================================================================
