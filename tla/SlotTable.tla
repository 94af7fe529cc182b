------------------------------ MODULE SlotTable ------------------------------
(***************************************************************************)
(* The entry table of yspot-index's VolumeIndex (crates/yspot-index/src/   *)
(* index.rs): slots, the FRN map, the freelist and the live count, with    *)
(* every mutation that reaches them.  Deletes tombstone a slot in place,   *)
(* creates take the newest tombstone back, compaction renumbers.           *)
(*                                                                         *)
(* NameArena adds the two name arenas and the search columns to these      *)
(* actions, DepthRepair adds the ranking depths; both EXTEND this module   *)
(* and conjoin their own part of each handler.  Slots count from 1.        *)
(***************************************************************************)
EXTENDS Naturals, Sequences, FiniteSets

CONSTANTS Frn,       \* file reference numbers
          DirFrn,    \* the references that name directories
          Parent,    \* parent references: indexed directories and Outside ones
          Name,      \* names in use, unusable ones included
          BadName,   \* names `intern` rejects: empty, or a control byte once folded
          MaxSlots,  \* the slot index space (u32::MAX in the code)
          Absent     \* what a reader gets for a reference the table lacks

ASSUME SlotTableAssumption ==
    /\ IsFiniteSet(Frn)
    /\ DirFrn \subseteq Frn
    /\ BadName \subseteq Name
    /\ MaxSlots \in Nat
    /\ Absent \notin [parent : Parent, name : Name, dir : BOOLEAN]

VARIABLES entries,     \* slot -> the file it holds, or its tombstone
          frn_map,     \* FRN -> slot, 0 when the index does not hold it
          free_slots,  \* tombstoned slots, the newest last
          live_count   \* what len() answers

slotVars == <<entries, frn_map, free_slots, live_count>>

Entry == [frn: Frn, parent: Parent, name: Name, dir: BOOLEAN, dead: BOOLEAN]

Slot == 1..Len(entries)
LiveSlot == {s \in Slot : ~entries[s].dead}
Known(f) == frn_map[f] # 0
Usable(n) == n \in Name \ BadName

LiveEntry(f, p, n, d) ==
    [frn |-> f, parent |-> p, name |-> n, dir |-> d, dead |-> FALSE]

\* The entry a delete leaves in its slot: only its flags change.
Tombstone(e) ==
    [frn |-> e.frn, parent |-> e.parent, name |-> e.name, dir |-> e.dir, dead |-> TRUE]

\* Writing slot s, which is either in the table or the next one to append.
Bound(s, e) ==
    IF s = Len(entries) + 1 THEN Append(entries, e)
                            ELSE [entries EXCEPT ![s] = e]

-----------------------------------------------------------------------------
SlotInit ==
    /\ entries = <<>>
    /\ frn_map = [f \in Frn |-> 0]
    /\ free_slots = <<>>
    /\ live_count = 0

\* Where add_entry puts f: the slot it has, the newest tombstone, a new slot.
Recycles(f) == ~Known(f) /\ free_slots # <<>>
\* Mutant: takes the freelist's length for its last element.
SlotForLength(f) ==
    IF Known(f) THEN frn_map[f]
    ELSE IF free_slots # <<>> THEN Len(free_slots)
    ELSE Len(entries) + 1

SlotFor(f) ==
    IF Known(f) THEN frn_map[f]
    ELSE IF free_slots # <<>> THEN free_slots[Len(free_slots)]
    ELSE Len(entries) + 1

\* A create: dropped when the name is unusable or the table is full.
SlotAdd(f, p, n) ==
    /\ Usable(n)
    /\ Known(f) \/ free_slots # <<>> \/ Len(entries) < MaxSlots
    /\ entries' = Bound(SlotFor(f), LiveEntry(f, p, n, f \in DirFrn))
    /\ frn_map' = [frn_map EXCEPT ![f] = SlotFor(f)]
    /\ free_slots' = IF Recycles(f) THEN SubSeq(free_slots, 1, Len(free_slots) - 1)
                                    ELSE free_slots
    /\ live_count' = IF Known(f) THEN live_count ELSE live_count + 1

\* A delete tombstones the slot where it is and offers it to the next create.
SlotRemove(f) ==
    /\ Known(f)
    /\ entries' = [entries EXCEPT ![frn_map[f]] = Tombstone(entries[frn_map[f]])]
    /\ frn_map' = [frn_map EXCEPT ![f] = 0]
    /\ free_slots' = Append(free_slots, frn_map[f])
    /\ live_count' = live_count - 1

\* A rename re-registers the slot it tore down, with the entry's own flags.
SlotRename(f, p, n) ==
    /\ Known(f)
    /\ Usable(n)
    /\ entries' = [entries EXCEPT ![frn_map[f]] =
                      LiveEntry(f, p, n, entries[frn_map[f]].dir)]
    /\ UNCHANGED <<frn_map, free_slots, live_count>>

\* keep lists the surviving slots in slot order: keep[i] is renumbered to i.
Survivors(keep) ==
    /\ \A i, j \in DOMAIN keep : i < j => keep[i] < keep[j]
    /\ \A s \in LiveSlot : \E i \in DOMAIN keep : keep[i] = s

\* Mutant: the freelist survives the slots it lists.
SlotCompactListed(keep) ==
    /\ Survivors(keep)
    /\ entries' = [i \in DOMAIN keep |-> entries[keep[i]]]
    /\ frn_map' = [f \in Frn |-> IF Known(f)
                                 THEN CHOOSE i \in DOMAIN keep : keep[i] = frn_map[f]
                                 ELSE 0]
    /\ UNCHANGED <<free_slots, live_count>>

SlotCompact(keep) ==
    /\ Survivors(keep)
    /\ entries' = [i \in DOMAIN keep |-> entries[keep[i]]]
    /\ frn_map' = [f \in Frn |-> IF Known(f)
                                 THEN CHOOSE i \in DOMAIN keep : keep[i] = frn_map[f]
                                 ELSE 0]
    /\ free_slots' = <<>>
    /\ UNCHANGED live_count

\* The candidates for keep: one number per surviving slot.
Renumbering == UNION {[1..n -> LiveSlot] : n \in {Cardinality(LiveSlot)}}

SlotNext ==
    \/ \E f \in Frn, p \in Parent, n \in Name : SlotAdd(f, p, n)
    \/ \E f \in Frn : SlotRemove(f)
    \/ \E f \in Frn, p \in Parent, n \in Name : SlotRename(f, p, n)
    \/ \E keep \in Renumbering : SlotCompact(keep)

SlotSpec == SlotInit /\ [][SlotNext]_slotVars

-----------------------------------------------------------------------------
(* Properties. *)

\* The table's variables have the shape the code's types give them.
SlotTypeOK ==
    /\ entries \in Seq(Entry)
    /\ frn_map \in [Frn -> Nat]
    /\ free_slots \in Seq(Nat)
    /\ live_count \in Nat

\* The FRN map and the live entries are the same relation read both ways: a
\* lookup never reaches a tombstone or another file's slot, and no live slot
\* is unreachable.  register_slot and unregister_slot are the two choke points
\* that are meant to keep it.
FrnMapExact ==
    /\ \A f \in Frn : Known(f) => /\ frn_map[f] \in LiveSlot
                                  /\ entries[frn_map[f]].frn = f
    /\ \A s \in LiveSlot : frn_map[entries[s].frn] = s

\* The freelist holds every tombstone exactly once and no live slot, so a
\* create can neither overwrite a file nor strand a slot (unregister_slot's
\* "that slot must never appear in free_slots while it is live").
FreelistExact ==
    /\ \A i \in DOMAIN free_slots :
           free_slots[i] \in Slot /\ entries[free_slots[i]].dead
    /\ \A i, j \in DOMAIN free_slots : free_slots[i] = free_slots[j] => i = j
    /\ \A s \in Slot : entries[s].dead => \E i \in DOMAIN free_slots : free_slots[i] = s

\* Recycling and renumbering lose no slot and share none: both at once.
TableExact == SlotTypeOK /\ FrnMapExact /\ FreelistExact

\* len() is maintained, not derived, and answers the number of files held.
LiveCountExact == live_count = Cardinality({f \in Frn : Known(f)})

\* The files the table holds, as its readers see them through the FRN map.
heldFiles == [f \in Frn |->
    IF Known(f)
    THEN [parent |-> entries[frn_map[f]].parent,
          name |-> entries[frn_map[f]].name,
          dir |-> entries[frn_map[f]].dir]
    ELSE Absent]

Files == INSTANCE FileSet WITH files <- heldFiles

\* Every mutation, recycling and compaction included, is one change of one
\* file or no change at all to a reader: no event touches a second file.
ImplementsFileSet == Files!FSSpec
==============================================================================
