----------------------------- MODULE IndexProofs -----------------------------
(***************************************************************************)
(* Proofs about the index, for any set of files, names and parents and any *)
(* table size. The FRN map and the freelist of SlotTable stay exact under  *)
(* every mutation and under compaction, and the table implements FileSet;  *)
(* what hangs on it, the cached depths with their repair and the arenas    *)
(* with their columns, leaves the table alone; and the repair, slice by    *)
(* slice between any mutations, leaves every cached depth the walked one.  *)
(***************************************************************************)
EXTENDS DepthRepair, NameArena, FiniteSetTheorems, NaturalsInduction, SequenceTheorems, TLAPS

\* The inductive invariant: the four invariants are inductive only together,
\* since each mutation of one structure relies on the exactness of another.
SlotInv == SlotTypeOK /\ FrnMapExact /\ FreelistExact /\ LiveCountExact

KnownFrn == {f \in Frn : Known(f)}

-----------------------------------------------------------------------------
\* Initially the table is empty, and so are the map and the freelist.
LEMMA InitSlotInv == SlotInit => SlotInv
<1> SUFFICES ASSUME SlotInit PROVE SlotInv
    OBVIOUS
<1> USE DEF SlotInit, Known, LiveSlot, Slot
<1>1. SlotTypeOK
  BY DEF SlotTypeOK
<1>2. FrnMapExact
  BY DEF FrnMapExact
<1>3. FreelistExact
  BY DEF FreelistExact
<1>4. {f \in Frn : Known(f)} = {}
  OBVIOUS
<1>5. LiveCountExact
  BY <1>4, FS_EmptySet DEF LiveCountExact
<1> QED
  BY <1>1, <1>2, <1>3, <1>5 DEF SlotInv

\* The slot a create takes is the file's own, a tombstone, or the next new one.
LEMMA SlotForFacts ==
  ASSUME SlotInv, NEW f \in Frn
  PROVE  /\ SlotFor(f) \in 1..(Len(entries) + 1)
         /\ SlotFor(f) \in Nat
         /\ Known(f) => SlotFor(f) = frn_map[f] /\ SlotFor(f) \in LiveSlot
         /\ Recycles(f) => /\ SlotFor(f) = free_slots[Len(free_slots)]
                           /\ Len(free_slots) \in DOMAIN free_slots
                           /\ SlotFor(f) \in Slot
                           /\ entries[SlotFor(f)].dead
         /\ (~Known(f) /\ ~Recycles(f)) => SlotFor(f) = Len(entries) + 1
<1> USE DEF SlotInv, SlotTypeOK, FrnMapExact, FreelistExact, SlotFor, Recycles,
            Slot, LiveSlot
<1>1. CASE Known(f)
  BY <1>1
<1>2. CASE Recycles(f)
  <2>1. Len(free_slots) \in DOMAIN free_slots
    BY <1>2
  <2> QED
    BY <1>2, <2>1
<1>3. CASE ~Known(f) /\ ~Recycles(f)
  BY <1>3
<1> QED
  BY <1>1, <1>2, <1>3

\* Every slot of the table holds an entry of the declared shape.
LEMMA EntryAt ==
  ASSUME SlotTypeOK, NEW t \in Slot
  PROVE  /\ entries[t] \in Entry
         /\ entries[t].frn \in Frn /\ entries[t].parent \in Parent
         /\ entries[t].name \in Name /\ entries[t].dir \in BOOLEAN
         /\ entries[t].dead \in BOOLEAN
         /\ Tombstone(entries[t]) \in Entry
         /\ Tombstone(entries[t]).dead = TRUE
<1>1. entries[t] \in Entry
  BY DEF SlotTypeOK, Slot
<1> QED
  BY <1>1 DEF Entry, Tombstone

\* What a create writes: one slot of the table, everything else as it was.
LEMMA BoundFacts ==
  ASSUME SlotInv, NEW s \in 1..(Len(entries) + 1), NEW e \in Entry
  PROVE  /\ Bound(s, e) \in Seq(Entry)
         /\ Bound(s, e)[s] = e
         /\ \A t \in Slot : t # s => Bound(s, e)[t] = entries[t]
         /\ Slot \subseteq 1..Len(Bound(s, e))
         /\ 1..Len(Bound(s, e)) = Slot \union {s}
         /\ Len(Bound(s, e)) \in Nat
<1> USE DEF SlotInv, SlotTypeOK, Bound, Slot
<1>1. CASE s = Len(entries) + 1
  BY <1>1
<1>2. CASE s # Len(entries) + 1
  BY <1>2
<1> QED
  BY <1>1, <1>2

\* Adding one reference to the known ones counts one more, dropping one fewer.
LEMMA CountFacts ==
  ASSUME SlotInv, NEW f \in Frn
  PROVE  /\ IsFiniteSet(KnownFrn)
         /\ Cardinality(KnownFrn) \in Nat
         /\ Cardinality(KnownFrn \union {f}) =
                IF Known(f) THEN live_count ELSE live_count + 1
         /\ Known(f) => Cardinality(KnownFrn \ {f}) = live_count - 1
<1>1. IsFiniteSet(KnownFrn)
  BY SlotTableAssumption, FS_Subset DEF KnownFrn
<1>2. Cardinality(KnownFrn) = live_count
  BY DEF SlotInv, LiveCountExact, KnownFrn
<1>3. f \in KnownFrn <=> Known(f)
  BY DEF KnownFrn
<1> QED
  BY <1>1, <1>2, <1>3, FS_AddElement, FS_RemoveElement, FS_CardinalityType

-----------------------------------------------------------------------------
\* A create keeps the invariant: SlotFor is nobody else's slot.
LEMMA AddKeepsInv ==
  ASSUME SlotInv, NEW f \in Frn, NEW p \in Parent, NEW n \in Name, SlotAdd(f, p, n)
  PROVE  SlotInv'
<1> DEFINE s == SlotFor(f)
           e == LiveEntry(f, p, n, f \in DirFrn)
<1>1. /\ SlotTypeOK /\ FrnMapExact /\ FreelistExact /\ LiveCountExact
      /\ entries' = Bound(s, e)
      /\ frn_map' = [frn_map EXCEPT ![f] = s]
      /\ free_slots' = IF Recycles(f) THEN SubSeq(free_slots, 1, Len(free_slots) - 1)
                                      ELSE free_slots
      /\ live_count' = IF Known(f) THEN live_count ELSE live_count + 1
  BY DEF SlotInv, SlotAdd
<1>2. e \in Entry /\ e.frn = f /\ e.dead = FALSE
  BY DEF LiveEntry, Entry
<1>3. /\ s \in 1..(Len(entries) + 1) /\ s \in Nat
      /\ Known(f) => s = frn_map[f] /\ s \in LiveSlot
      /\ Recycles(f) => /\ s = free_slots[Len(free_slots)]
                        /\ Len(free_slots) \in DOMAIN free_slots
                        /\ s \in Slot /\ entries[s].dead
      /\ (~Known(f) /\ ~Recycles(f)) => s = Len(entries) + 1
  BY SlotForFacts
<1> HIDE DEF s, e
<1>4. /\ entries' \in Seq(Entry)
      /\ entries'[s] = e
      /\ \A t \in Slot : t # s => entries'[t] = entries[t]
      /\ Slot' = Slot \union {s}
  <2>1. /\ Bound(s, e) \in Seq(Entry)
        /\ Bound(s, e)[s] = e
        /\ \A t \in Slot : t # s => Bound(s, e)[t] = entries[t]
        /\ 1..Len(Bound(s, e)) = Slot \union {s}
    BY <1>2, <1>3, BoundFacts
  <2>2. Slot' = 1..Len(entries')
    BY DEF Slot
  <2> QED
    BY <1>1, <2>1, <2>2
<1>5. SlotTypeOK'
  <2>1. frn_map' \in [Frn -> Nat]
    BY <1>1, <1>3 DEF SlotTypeOK
  <2>2. live_count' \in Nat
    BY <1>1 DEF SlotTypeOK
  <2>3. free_slots' \in Seq(Nat)
    <3>1. free_slots \in Seq(Nat) /\ (Recycles(f) => Len(free_slots) \in DOMAIN free_slots)
      BY <1>1, <1>3 DEF SlotTypeOK
    <3>2. CASE Recycles(f)
      <4> DEFINE k == Len(free_slots) - 1
      <4>1. k \in 0..Len(free_slots)
        BY <3>1, <3>2
      <4>2. SubSeq(free_slots, 1, k) \in Seq(Nat)
        <5>1. \A i \in 1..k : free_slots[i] \in Nat
          BY <3>1, <4>1
        <5>2. 1 \in Int /\ k \in Int
          BY <4>1
        <5> HIDE DEF k
        <5> QED
          BY <5>1, <5>2
      <4> QED
        BY <1>1, <3>2, <4>2
    <3> QED
      BY <1>1, <3>1, <3>2
  <2> QED
    BY <1>4, <2>1, <2>2, <2>3 DEF SlotTypeOK
<1>6. /\ frn_map'[f] = s
      /\ \A g \in Frn \ {f} : frn_map'[g] = frn_map[g]
  BY <1>1 DEF SlotTypeOK
<1>7. LiveSlot' = LiveSlot \union {s}
  BY <1>2, <1>4 DEF LiveSlot
<1>8. \A g \in Frn \ {f} : Known(g) => frn_map[g] # s
  <2> SUFFICES ASSUME NEW g \in Frn \ {f}, Known(g) PROVE frn_map[g] # s
    OBVIOUS
  <2>1. frn_map[g] \in LiveSlot /\ entries[frn_map[g]].frn = g
    BY <1>1 DEF FrnMapExact
  <2>2. Known(f) => entries[s].frn = f
    BY <1>1, <1>3 DEF FrnMapExact
  <2> QED
    BY <1>3, <2>1, <2>2 DEF LiveSlot, Slot, SlotTypeOK
<1>9. FrnMapExact'
  <2>1. ASSUME NEW g \in Frn, Known(g)'
        PROVE  frn_map'[g] \in LiveSlot' /\ entries'[frn_map'[g]].frn = g
    <3>1. CASE g = f
      BY <1>2, <1>4, <1>6, <1>7, <3>1
    <3>2. CASE g # f
      <4>1. Known(g) /\ frn_map'[g] = frn_map[g]
        BY <1>6, <2>1, <3>2 DEF Known
      <4>2. frn_map[g] \in LiveSlot /\ entries[frn_map[g]].frn = g
        BY <1>1, <4>1 DEF FrnMapExact
      <4> QED
        BY <1>4, <1>7, <1>8, <3>2, <4>1, <4>2 DEF LiveSlot
    <3> QED
      BY <3>1, <3>2
  <2>2. ASSUME NEW t \in LiveSlot'
        PROVE  frn_map'[entries'[t].frn] = t
    <3>1. CASE t = s
      BY <1>2, <1>4, <1>6, <3>1
    <3>2. CASE t # s
      <4>1. t \in LiveSlot /\ entries'[t] = entries[t]
        BY <1>4, <1>7, <2>2, <3>2 DEF LiveSlot
      <4>2. entries[t].frn \in Frn /\ frn_map[entries[t].frn] = t
        BY <1>1, <4>1, EntryAt DEF FrnMapExact, LiveSlot
      <4>3. entries[t].frn # f
        <5>1. t # 0
          BY <4>1 DEF LiveSlot, Slot
        <5> QED
          BY <1>3, <3>2, <4>2, <5>1 DEF Known
      <4> QED
        BY <1>6, <4>1, <4>2, <4>3
    <3> QED
      BY <3>1, <3>2
  <2> QED
    BY <2>1, <2>2 DEF FrnMapExact
<1>10. FreelistExact'
  <2>1. CASE Recycles(f)
    <3>1. /\ DOMAIN free_slots' = 1..(Len(free_slots) - 1)
          /\ \A i \in DOMAIN free_slots' : free_slots'[i] = free_slots[i]
      BY <1>1, <1>3, <2>1 DEF SlotTypeOK
    <3>2. \A i \in DOMAIN free_slots' : free_slots[i] \in Slot /\ free_slots[i] # s
      <4>1. \A i \in DOMAIN free_slots' :
                /\ i \in DOMAIN free_slots
                /\ i # Len(free_slots)
        BY <1>1, <3>1 DEF SlotTypeOK
      <4> QED
        BY <1>1, <1>3, <2>1, <4>1 DEF FreelistExact
    <3>3. \A t \in Slot' : entries'[t].dead => t \in Slot /\ t # s /\ entries[t].dead
      BY <1>2, <1>4
    <3>4. ASSUME NEW t \in Slot, t # s, entries[t].dead
          PROVE  \E i \in DOMAIN free_slots' : free_slots'[i] = t
      <4>1. PICK i \in DOMAIN free_slots : free_slots[i] = t
        BY <1>1, <3>4 DEF FreelistExact
      <4>2. i # Len(free_slots)
        BY <1>3, <2>1, <3>4, <4>1
      <4>3. i \in DOMAIN free_slots'
        BY <1>1, <3>1, <4>1, <4>2 DEF SlotTypeOK
      <4> QED
        BY <3>1, <4>1, <4>3
    <3>5. \A i \in DOMAIN free_slots' : i \in DOMAIN free_slots
      BY <1>1, <3>1 DEF SlotTypeOK
    <3>6. \A i \in DOMAIN free_slots' :
              free_slots'[i] \in Slot' /\ entries'[free_slots'[i]].dead
      BY <1>1, <1>4, <3>1, <3>2, <3>5 DEF FreelistExact
    <3> QED
      BY <1>1, <3>1, <3>3, <3>4, <3>5, <3>6 DEF FreelistExact
  <2>2. CASE ~Recycles(f)
    <3>1. free_slots' = free_slots
      BY <1>1, <2>2
    <3>2. ~(s \in Slot /\ entries[s].dead)
      BY <1>3, <2>2 DEF LiveSlot, Slot, SlotTypeOK
    <3> QED
      BY <1>1, <1>2, <1>4, <3>1, <3>2 DEF FreelistExact
  <2> QED
    BY <2>1, <2>2
<1>11. LiveCountExact'
  <2>1. {g \in Frn : Known(g)}' = KnownFrn \union {f}
    <3>1. s # 0
      BY <1>3
    <3> QED
      BY <1>6, <3>1 DEF KnownFrn, Known
  <2> QED
    BY <1>1, <2>1, CountFacts DEF LiveCountExact
<1> QED
  BY <1>5, <1>9, <1>10, <1>11 DEF SlotInv

\* A delete keeps the invariant: the tombstone enters the freelist once.
LEMMA RemoveKeepsInv ==
  ASSUME SlotInv, NEW f \in Frn, SlotRemove(f)
  PROVE  SlotInv'
<1> DEFINE s == frn_map[f]
<1>1. /\ SlotTypeOK /\ FrnMapExact /\ FreelistExact /\ LiveCountExact
      /\ Known(f)
      /\ entries' = [entries EXCEPT ![s] = Tombstone(entries[s])]
      /\ frn_map' = [frn_map EXCEPT ![f] = 0]
      /\ free_slots' = Append(free_slots, s)
      /\ live_count' = live_count - 1
  BY DEF SlotInv, SlotRemove
<1>2. s \in LiveSlot /\ entries[s].frn = f
  BY <1>1 DEF FrnMapExact
<1>3. /\ entries' \in Seq(Entry)
      /\ Slot' = Slot
      /\ entries'[s].dead = TRUE
      /\ \A t \in Slot : t # s => entries'[t] = entries[t]
  <2>1. Tombstone(entries[s]) \in Entry /\ Tombstone(entries[s]).dead = TRUE
    BY <1>1, <1>2, EntryAt DEF LiveSlot
  <2> QED
    BY <1>1, <1>2, <2>1 DEF SlotTypeOK, LiveSlot, Slot
<1>4. /\ frn_map'[f] = 0
      /\ \A g \in Frn \ {f} : frn_map'[g] = frn_map[g]
  BY <1>1 DEF SlotTypeOK
<1>5. SlotTypeOK'
  <2>1. live_count' \in Nat
    <3>1. KnownFrn \ {f} \in SUBSET KnownFrn /\ IsFiniteSet(KnownFrn \ {f})
      BY CountFacts, FS_RemoveElement
    <3> QED
      BY <1>1, <3>1, CountFacts, FS_CardinalityType
  <2>2. free_slots' \in Seq(Nat) /\ frn_map' \in [Frn -> Nat]
    BY <1>1 DEF SlotTypeOK
  <2> QED
    BY <1>3, <2>1, <2>2 DEF SlotTypeOK
<1> HIDE DEF s
<1>6. LiveSlot' = LiveSlot \ {s}
  BY <1>2, <1>3 DEF LiveSlot
<1>7. FrnMapExact'
  <2>1. ASSUME NEW g \in Frn, Known(g)'
        PROVE  frn_map'[g] \in LiveSlot' /\ entries'[frn_map'[g]].frn = g
    <3>1. g # f /\ Known(g) /\ frn_map'[g] = frn_map[g]
      BY <1>4, <2>1 DEF Known
    <3>2. frn_map[g] \in LiveSlot /\ entries[frn_map[g]].frn = g
      BY <1>1, <3>1 DEF FrnMapExact
    <3> QED
      BY <1>2, <1>3, <1>6, <3>1, <3>2 DEF LiveSlot
  <2>2. ASSUME NEW t \in LiveSlot'
        PROVE  frn_map'[entries'[t].frn] = t
    <3>1. t \in LiveSlot /\ t # s /\ entries'[t] = entries[t]
      BY <1>3, <1>6, <2>2 DEF LiveSlot
    <3>2. entries[t].frn \in Frn /\ frn_map[entries[t].frn] = t
      BY <1>1, <3>1, EntryAt DEF FrnMapExact, LiveSlot
    <3> QED
      BY <1>4, <3>1, <3>2 DEF s
  <2> QED
    BY <2>1, <2>2 DEF FrnMapExact
<1>8. FreelistExact'
  <2>1. /\ DOMAIN free_slots' = 1..(Len(free_slots) + 1)
        /\ free_slots'[Len(free_slots) + 1] = s
        /\ \A i \in DOMAIN free_slots : free_slots'[i] = free_slots[i]
        /\ DOMAIN free_slots = 1..Len(free_slots)
        /\ Len(free_slots) \in Nat
    BY <1>1, <1>2 DEF SlotTypeOK, LiveSlot, Slot
  <2>2. s \in Slot /\ ~entries[s].dead
    BY <1>2 DEF LiveSlot
  <2> QED
    BY <1>1, <1>3, <2>1, <2>2 DEF FreelistExact
<1>9. LiveCountExact'
  <2>1. {g \in Frn : Known(g)}' = KnownFrn \ {f}
    BY <1>4 DEF KnownFrn, Known
  <2> QED
    BY <1>1, <2>1, CountFacts DEF LiveCountExact
<1> QED
  BY <1>5, <1>7, <1>8, <1>9 DEF SlotInv

\* A rename keeps the invariant: the slot it tears down is its own again.
LEMMA RenameKeepsInv ==
  ASSUME SlotInv, NEW f \in Frn, NEW p \in Parent, NEW n \in Name, SlotRename(f, p, n)
  PROVE  SlotInv'
<1> DEFINE s == frn_map[f]
           e == LiveEntry(f, p, n, entries[s].dir)
<1>1. /\ SlotTypeOK /\ FrnMapExact /\ FreelistExact /\ LiveCountExact
      /\ Known(f)
      /\ entries' = [entries EXCEPT ![s] = e]
      /\ frn_map' = frn_map /\ free_slots' = free_slots /\ live_count' = live_count
  BY DEF SlotInv, SlotRename
<1>2. s \in LiveSlot /\ entries[s].frn = f
  BY <1>1 DEF FrnMapExact
<1>3. e \in Entry /\ e.frn = f /\ e.dead = FALSE
  BY <1>1, <1>2, EntryAt DEF LiveEntry, Entry, LiveSlot
<1> HIDE DEF s, e
<1>4. /\ entries' \in Seq(Entry)
      /\ Slot' = Slot
      /\ entries'[s] = e
      /\ \A t \in Slot : t # s => entries'[t] = entries[t]
  BY <1>1, <1>2, <1>3 DEF SlotTypeOK, LiveSlot, Slot
<1>5. \A t \in Slot : entries'[t].frn = entries[t].frn /\ entries'[t].dead = entries[t].dead
  <2>1. s \in Slot /\ entries[s].dead \in BOOLEAN /\ ~entries[s].dead
    BY <1>1, <1>2, EntryAt DEF LiveSlot
  <2>2. entries'[s].frn = entries[s].frn /\ entries'[s].dead = entries[s].dead
    BY <1>2, <1>3, <1>4, <2>1
  <2> QED
    BY <1>4, <2>2
<1>6. LiveSlot' = LiveSlot
  BY <1>2, <1>3, <1>4 DEF LiveSlot
<1>7. SlotTypeOK'
  BY <1>1, <1>4 DEF SlotTypeOK
<1>8. FrnMapExact'
  BY <1>1, <1>5, <1>6 DEF FrnMapExact, Known, LiveSlot
<1>9. FreelistExact'
  BY <1>1, <1>4, <1>5 DEF FreelistExact
<1>10. LiveCountExact'
  BY <1>1 DEF LiveCountExact, Known
<1> QED
  BY <1>7, <1>8, <1>9, <1>10 DEF SlotInv

\* What compaction's renumbering is: one new slot for each live one, and the
\* map follows it.
LEMMA CompactFacts ==
  ASSUME SlotInv, NEW keep \in Renumbering, SlotCompact(keep)
  PROVE  \E n \in Nat :
            /\ keep \in [1..n -> LiveSlot]
            /\ \A i, j \in 1..n : keep[i] = keep[j] => i = j
            /\ Slot' = 1..n
            /\ entries' \in Seq(Entry)
            /\ \A i \in 1..n : entries'[i] = entries[keep[i]]
            /\ \A f \in Frn : Known(f) => /\ frn_map'[f] \in 1..n
                                         /\ keep[frn_map'[f]] = frn_map[f]
            /\ \A f \in Frn : ~Known(f) => frn_map'[f] = 0
            /\ frn_map' \in [Frn -> Nat]
<1>1. Cardinality(LiveSlot) \in Nat
  <2>1. IsFiniteSet(Slot)
    BY FS_Interval DEF Slot, SlotInv, SlotTypeOK
  <2>2. LiveSlot \subseteq Slot
    BY DEF LiveSlot
  <2> QED
    BY <2>1, <2>2, FS_Subset, FS_CardinalityType
<1> DEFINE n == Cardinality(LiveSlot)
<1>2. keep \in [1..n -> LiveSlot]
  BY DEF Renumbering
<1> HIDE DEF n
<1>3. n \in Nat
  BY <1>1 DEF n
<1>4. /\ entries' = [i \in 1..n |-> entries[keep[i]]]
      /\ frn_map' = [f \in Frn |-> IF Known(f)
                                   THEN CHOOSE i \in 1..n : keep[i] = frn_map[f]
                                   ELSE 0]
      /\ \A i, j \in 1..n : i < j => keep[i] < keep[j]
      /\ \A s \in LiveSlot : \E i \in 1..n : keep[i] = s
  BY <1>2 DEF SlotCompact, Survivors
<1>5. \A i, j \in 1..n : keep[i] = keep[j] => i = j
  <2> SUFFICES ASSUME NEW i \in 1..n, NEW j \in 1..n, keep[i] = keep[j] PROVE i = j
    OBVIOUS
  <2>1. keep[i] \in Nat /\ keep[j] \in Nat
    BY <1>2 DEF LiveSlot, Slot
  <2>2. ~(i < j) /\ ~(j < i)
    BY <1>4, <2>1
  <2> QED
    BY <1>3, <2>2
<1>6. \A i \in 1..n : entries[keep[i]] \in Entry
  BY <1>2, EntryAt DEF LiveSlot, SlotInv
<1>7. entries' \in Seq(Entry) /\ Slot' = 1..n
  BY <1>3, <1>4, <1>6 DEF Slot
<1>8. \A f \in Frn : Known(f) => frn_map'[f] \in 1..n /\ keep[frn_map'[f]] = frn_map[f]
  <2> SUFFICES ASSUME NEW f \in Frn, Known(f)
               PROVE  frn_map'[f] \in 1..n /\ keep[frn_map'[f]] = frn_map[f]
    OBVIOUS
  <2>1. frn_map[f] \in LiveSlot
    BY DEF SlotInv, FrnMapExact
  <2>2. \E i \in 1..n : keep[i] = frn_map[f]
    BY <1>4, <2>1
  <2>3. frn_map'[f] = CHOOSE i \in 1..n : keep[i] = frn_map[f]
    BY <1>4
  <2> QED
    BY <2>2, <2>3
<1>9. \A f \in Frn : ~Known(f) => frn_map'[f] = 0
  BY <1>4
<1>10. frn_map' \in [Frn -> Nat]
  <2>1. \A f \in Frn : frn_map'[f] \in Nat
    BY <1>3, <1>8, <1>9
  <2> QED
    BY <1>4, <2>1
<1> QED
  BY <1>2, <1>3, <1>4, <1>5, <1>7, <1>8, <1>9, <1>10

\* Compaction keeps the invariant: no tombstone survives it, no file is lost.
LEMMA CompactKeepsInv ==
  ASSUME SlotInv, NEW keep \in Renumbering, SlotCompact(keep)
  PROVE  SlotInv'
<1>1. PICK n \in Nat :
            /\ keep \in [1..n -> LiveSlot]
            /\ \A i, j \in 1..n : keep[i] = keep[j] => i = j
            /\ Slot' = 1..n
            /\ entries' \in Seq(Entry)
            /\ \A i \in 1..n : entries'[i] = entries[keep[i]]
            /\ \A f \in Frn : Known(f) => /\ frn_map'[f] \in 1..n
                                         /\ keep[frn_map'[f]] = frn_map[f]
            /\ \A f \in Frn : ~Known(f) => frn_map'[f] = 0
            /\ frn_map' \in [Frn -> Nat]
  BY CompactFacts
<1>2. SlotTypeOK /\ FrnMapExact /\ LiveCountExact
  BY DEF SlotInv
<1>3. free_slots' = <<>> /\ live_count' = live_count
  BY DEF SlotCompact
<1>4. SlotTypeOK'
  BY <1>1, <1>2, <1>3 DEF SlotTypeOK
<1>5. \A i \in 1..n : ~entries'[i].dead
  BY <1>1 DEF LiveSlot
<1>6. LiveSlot' = 1..n
  BY <1>1, <1>5 DEF LiveSlot
<1>7. \A f \in Frn : Known(f)' <=> Known(f)
  BY <1>1 DEF Known
<1>8. FrnMapExact'
  <2>1. ASSUME NEW f \in Frn, Known(f)'
        PROVE  frn_map'[f] \in LiveSlot' /\ entries'[frn_map'[f]].frn = f
    BY <1>1, <1>2, <1>6, <1>7, <2>1 DEF FrnMapExact
  <2>2. ASSUME NEW t \in LiveSlot'
        PROVE  frn_map'[entries'[t].frn] = t
    <3>1. t \in 1..n /\ keep[t] \in LiveSlot /\ entries'[t] = entries[keep[t]]
      BY <1>1, <1>6, <2>2
    <3>2. entries[keep[t]].frn \in Frn /\ frn_map[entries[keep[t]].frn] = keep[t]
      BY <1>2, <3>1, EntryAt DEF FrnMapExact, LiveSlot
    <3>3. keep[t] # 0
      BY <3>1 DEF LiveSlot, Slot
    <3>4. Known(entries[keep[t]].frn)
      BY <3>2, <3>3 DEF Known
    <3> QED
      BY <1>1, <3>1, <3>2, <3>4
  <2> QED
    BY <2>1, <2>2 DEF FrnMapExact
<1>9. FreelistExact'
  BY <1>1, <1>3, <1>5 DEF FreelistExact
<1>10. LiveCountExact'
  <2>1. {f \in Frn : Known(f)}' = {f \in Frn : Known(f)}
    BY <1>7
  <2> QED
    BY <1>2, <1>3, <2>1 DEF LiveCountExact
<1> QED
  BY <1>4, <1>8, <1>9, <1>10 DEF SlotInv

-----------------------------------------------------------------------------
\* Every step keeps the invariant.
LEMMA NextKeepsInv == SlotInv /\ [SlotNext]_slotVars => SlotInv'
<1> SUFFICES ASSUME SlotInv, [SlotNext]_slotVars PROVE SlotInv'
    OBVIOUS
<1>1. ASSUME NEW f \in Frn, NEW p \in Parent, NEW n \in Name, SlotAdd(f, p, n)
      PROVE  SlotInv'
  BY <1>1, AddKeepsInv
<1>2. ASSUME NEW f \in Frn, SlotRemove(f) PROVE SlotInv'
  BY <1>2, RemoveKeepsInv
<1>3. ASSUME NEW f \in Frn, NEW p \in Parent, NEW n \in Name, SlotRename(f, p, n)
      PROVE  SlotInv'
  BY <1>3, RenameKeepsInv
<1>4. ASSUME NEW keep \in Renumbering, SlotCompact(keep) PROVE SlotInv'
  BY <1>4, CompactKeepsInv
<1>5. CASE UNCHANGED slotVars
  BY <1>5 DEF slotVars, SlotInv, SlotTypeOK, FrnMapExact, FreelistExact,
              LiveCountExact, Known, LiveSlot, Slot
<1> QED
  BY <1>1, <1>2, <1>3, <1>4, <1>5 DEF SlotNext

\* In every reachable state the four invariants of the table hold together.
THEOREM SlotTableSafe == SlotSpec => []SlotInv
<1>1. SlotInit => SlotInv
  BY InitSlotInv
<1>2. SlotInv /\ [SlotNext]_slotVars => SlotInv'
  BY NextKeepsInv
<1> QED
  BY <1>1, <1>2, PTL DEF SlotSpec

\* A lookup by reference never reaches a tombstone or another file, and every
\* live slot is reachable, for any number of files and any history of events.
THEOREM FrnMapIsExact == SlotSpec => []FrnMapExact
<1>1. SlotInv => FrnMapExact
  BY DEF SlotInv
<1> QED
  BY <1>1, SlotTableSafe, PTL

\* A create is never handed a slot that is live, and no tombstone is lost.
THEOREM FreelistIsExact == SlotSpec => []FreelistExact
<1>1. SlotInv => FreelistExact
  BY DEF SlotInv
<1> QED
  BY <1>1, SlotTableSafe, PTL

\* The maintained count is the number of files, whatever was recycled.
THEOREM LiveCountIsExact == SlotSpec => []LiveCountExact
<1>1. SlotInv => LiveCountExact
  BY DEF SlotInv
<1> QED
  BY <1>1, SlotTableSafe, PTL

\* The variables keep the shape the code's types give them.
THEOREM SlotTypesHold == SlotSpec => []SlotTypeOK
<1>1. SlotInv => SlotTypeOK
  BY DEF SlotInv
<1> QED
  BY <1>1, SlotTableSafe, PTL

\* No history of any table loses a slot or gives one to two files.
THEOREM TableIsExact == SlotSpec => []TableExact
BY SlotTypesHold, FrnMapIsExact, FreelistIsExact, PTL DEF TableExact

-----------------------------------------------------------------------------
(* The refinement of FileSet. *)

HeldAt(f) ==
    [parent |-> entries[frn_map[f]].parent,
     name |-> entries[frn_map[f]].name,
     dir |-> entries[frn_map[f]].dir]

\* What a reader gets for a reference: a file record, or Absent, which is none.
LEMMA HeldFacts ==
  ASSUME SlotInv, NEW f \in Frn
  PROVE  /\ Known(f) => heldFiles[f] = HeldAt(f) /\ heldFiles[f] # Absent
         /\ ~Known(f) => heldFiles[f] = Absent
<1>1. ASSUME Known(f) PROVE HeldAt(f) # Absent
  <2>1. SlotTypeOK /\ frn_map[f] \in Slot
    BY <1>1 DEF SlotInv, FrnMapExact, LiveSlot
  <2>2. /\ entries[frn_map[f]].parent \in Parent /\ entries[frn_map[f]].name \in Name
        /\ entries[frn_map[f]].dir \in BOOLEAN
    BY <2>1, EntryAt
  <2>3. HeldAt(f) \in [parent : Parent, name : Name, dir : BOOLEAN]
    BY <2>2 DEF HeldAt
  <2> QED
    BY <2>3, SlotTableAssumption
<1> QED
  BY <1>1 DEF heldFiles, HeldAt

\* A reader of g sees nothing of a step that leaves g's slot and its entry be.
LEMMA OthersUntouched ==
  ASSUME NEW f \in Frn,
         \A g \in Frn \ {f} : /\ frn_map'[g] = frn_map[g]
                              /\ Known(g) => entries'[frn_map[g]] = entries[frn_map[g]]
  PROVE  heldFiles' = [heldFiles EXCEPT ![f] = heldFiles'[f]]
<1>1. ASSUME NEW g \in Frn \ {f} PROVE heldFiles'[g] = heldFiles[g]
  BY <1>1 DEF heldFiles, Known
<1>2. heldFiles' = [g \in Frn |-> heldFiles'[g]] /\ heldFiles = [g \in Frn |-> heldFiles[g]]
  BY DEF heldFiles
<1> QED
  BY <1>1, <1>2

\* No two files share a slot.
LEMMA OwnSlot ==
  ASSUME SlotInv, NEW f \in Frn, NEW g \in Frn \ {f}, Known(g)
  PROVE  /\ frn_map[g] \in LiveSlot /\ frn_map[g] \in Slot
         /\ Known(f) => frn_map[g] # frn_map[f]
BY DEF SlotInv, FrnMapExact, LiveSlot

\* A create puts the one file it names.
LEMMA AddPuts ==
  ASSUME SlotInv, NEW f \in Frn, NEW p \in Parent, NEW n \in Name, SlotAdd(f, p, n)
  PROVE  Files!Put(f, [parent |-> p, name |-> n, dir |-> (f \in DirFrn)])
<1> DEFINE s == SlotFor(f)
           e == LiveEntry(f, p, n, f \in DirFrn)
<1>1. entries' = Bound(s, e) /\ frn_map' = [frn_map EXCEPT ![f] = s]
  BY DEF SlotAdd
<1>2. /\ s \in 1..(Len(entries) + 1) /\ s \in Nat
      /\ Known(f) => s = frn_map[f]
      /\ Recycles(f) => s \in Slot /\ entries[s].dead
      /\ (~Known(f) /\ ~Recycles(f)) => s = Len(entries) + 1
  BY SlotForFacts
<1>3. e \in Entry /\ e.parent = p /\ e.name = n /\ e.dir = (f \in DirFrn)
  BY DEF LiveEntry, Entry
<1> HIDE DEF s, e
<1>4. /\ entries'[s] = e
      /\ \A t \in Slot : t # s => entries'[t] = entries[t]
  BY <1>1, <1>2, <1>3, BoundFacts
<1>5. frn_map'[f] = s /\ \A g \in Frn \ {f} : frn_map'[g] = frn_map[g]
  BY <1>1, <1>2 DEF SlotInv, SlotTypeOK
<1>6. ASSUME NEW g \in Frn \ {f}, Known(g) PROVE entries'[frn_map[g]] = entries[frn_map[g]]
  <2>1. /\ frn_map[g] \in LiveSlot /\ frn_map[g] \in Slot
        /\ Known(f) => frn_map[g] # frn_map[f]
    BY <1>6, OwnSlot
  <2>2. frn_map[g] # s
    BY <1>2, <2>1 DEF LiveSlot, Slot, SlotInv, SlotTypeOK
  <2> QED
    BY <1>4, <2>1, <2>2
<1>7. s # 0
  BY <1>2
<1>8. heldFiles'[f] = [parent |-> p, name |-> n, dir |-> (f \in DirFrn)]
  BY <1>3, <1>4, <1>5, <1>7 DEF heldFiles, Known
<1>9. heldFiles' = [heldFiles EXCEPT ![f] = heldFiles'[f]]
  BY <1>5, <1>6, OthersUntouched
<1> QED
  BY <1>8, <1>9 DEF Files!Put

\* A delete drops the one file it names.
LEMMA RemoveDrops ==
  ASSUME SlotInv, NEW f \in Frn, SlotRemove(f)
  PROVE  Files!Drop(f)
<1>1. /\ Known(f)
      /\ entries' = [entries EXCEPT ![frn_map[f]] = Tombstone(entries[frn_map[f]])]
      /\ frn_map' = [frn_map EXCEPT ![f] = 0]
  BY DEF SlotRemove
<1>2. frn_map'[f] = 0 /\ \A g \in Frn \ {f} : frn_map'[g] = frn_map[g]
  BY <1>1 DEF SlotInv, SlotTypeOK
<1>3. ASSUME NEW g \in Frn \ {f}, Known(g) PROVE entries'[frn_map[g]] = entries[frn_map[g]]
  BY <1>1, <1>3, OwnSlot DEF SlotInv, SlotTypeOK, Slot
<1>4. heldFiles' = [heldFiles EXCEPT ![f] = heldFiles'[f]]
  BY <1>2, <1>3, OthersUntouched
<1>5. heldFiles'[f] = Absent
  BY <1>2 DEF heldFiles, Known
<1>6. heldFiles[f] # Absent
  BY <1>1, HeldFacts
<1> QED
  BY <1>4, <1>5, <1>6 DEF Files!Drop

\* A rename moves the one file it names and keeps its kind.
LEMMA RenameMoves ==
  ASSUME SlotInv, NEW f \in Frn, NEW p \in Parent, NEW n \in Name, SlotRename(f, p, n)
  PROVE  Files!Move(f, p, n)
<1> DEFINE e == LiveEntry(f, p, n, entries[frn_map[f]].dir)
<1>1. /\ Known(f)
      /\ entries' = [entries EXCEPT ![frn_map[f]] = e]
      /\ frn_map' = frn_map
  BY DEF SlotRename
<1>2. e.parent = p /\ e.name = n /\ e.dir = entries[frn_map[f]].dir
  BY DEF LiveEntry
<1> HIDE DEF e
<1>3. frn_map[f] \in Slot
  BY <1>1 DEF SlotInv, FrnMapExact, LiveSlot
<1>4. entries'[frn_map[f]] = e
  BY <1>1, <1>3 DEF SlotInv, SlotTypeOK, Slot
<1>5. ASSUME NEW g \in Frn \ {f}, Known(g) PROVE entries'[frn_map[g]] = entries[frn_map[g]]
  BY <1>1, <1>5, OwnSlot DEF SlotInv, SlotTypeOK, Slot
<1>6. heldFiles' = [heldFiles EXCEPT ![f] = heldFiles'[f]]
  BY <1>1, <1>5, OthersUntouched
<1>7. heldFiles'[f] = [parent |-> p, name |-> n, dir |-> entries[frn_map[f]].dir]
  BY <1>1, <1>2, <1>4 DEF heldFiles, Known
<1>8. heldFiles[f] # Absent /\ heldFiles[f] = HeldAt(f)
  BY <1>1, HeldFacts
<1>9. heldFiles[f].dir = entries[frn_map[f]].dir
  BY <1>8 DEF HeldAt
<1> QED
  BY <1>6, <1>7, <1>8, <1>9 DEF Files!Move

\* Compaction is invisible to a reader.
LEMMA CompactStutters ==
  ASSUME SlotInv, NEW keep \in Renumbering, SlotCompact(keep)
  PROVE  UNCHANGED heldFiles
<1>1. PICK n \in Nat :
            /\ keep \in [1..n -> LiveSlot]
            /\ \A i \in 1..n : entries'[i] = entries[keep[i]]
            /\ \A f \in Frn : Known(f) => /\ frn_map'[f] \in 1..n
                                         /\ keep[frn_map'[f]] = frn_map[f]
            /\ \A f \in Frn : ~Known(f) => frn_map'[f] = 0
  BY CompactFacts
<1>2. ASSUME NEW f \in Frn PROVE heldFiles'[f] = heldFiles[f]
  <2>1. CASE Known(f)
    <3>1. entries'[frn_map'[f]] = entries[frn_map[f]] /\ frn_map'[f] # 0
      BY <1>1, <2>1
    <3> QED
      BY <2>1, <3>1 DEF heldFiles, Known
  <2>2. CASE ~Known(f)
    BY <1>1, <2>2 DEF heldFiles, Known
  <2> QED
    BY <2>1, <2>2
<1>3. heldFiles' = [f \in Frn |-> heldFiles'[f]] /\ heldFiles = [f \in Frn |-> heldFiles[f]]
  BY DEF heldFiles
<1> QED
  BY <1>2, <1>3

\* The slot table implements the file set: to a reader that goes through the
\* FRN map, every create, delete, rename and compaction of any index of any
\* size is one change of one file, or nothing at all.
THEOREM TableImplementsFileSet == SlotSpec => ImplementsFileSet
<1>1. SlotInit => Files!FSInit
  BY DEF SlotInit, Files!FSInit, heldFiles, Known
<1>2. SlotInv /\ [SlotNext]_slotVars => [Files!FSNext]_heldFiles
  <2> SUFFICES ASSUME SlotInv, [SlotNext]_slotVars PROVE [Files!FSNext]_heldFiles
    OBVIOUS
  <2>1. ASSUME NEW f \in Frn, NEW p \in Parent, NEW n \in Name, SlotAdd(f, p, n)
        PROVE  Files!FSNext
    <3>1. [parent |-> p, name |-> n, dir |-> (f \in DirFrn)] \in Files!File
      BY DEF Files!File
    <3> QED
      BY <2>1, <3>1, AddPuts DEF Files!FSNext
  <2>2. ASSUME NEW f \in Frn, SlotRemove(f) PROVE Files!FSNext
    BY <2>2, RemoveDrops DEF Files!FSNext
  <2>3. ASSUME NEW f \in Frn, NEW p \in Parent, NEW n \in Name, SlotRename(f, p, n)
        PROVE  Files!FSNext
    BY <2>3, RenameMoves DEF Files!FSNext
  <2>4. ASSUME NEW keep \in Renumbering, SlotCompact(keep) PROVE UNCHANGED heldFiles
    BY <2>4, CompactStutters
  <2>5. CASE UNCHANGED slotVars
    BY <2>5 DEF slotVars, heldFiles, Known
  <2> QED
    BY <2>1, <2>2, <2>3, <2>4, <2>5 DEF SlotNext
<1> QED
  BY <1>1, <1>2, SlotTableSafe, PTL DEF SlotSpec, ImplementsFileSet, Files!FSSpec

-----------------------------------------------------------------------------
(* The modules built on the table.                                         *)

\* Each handler changes the table as SlotTable says, and a slice of the repair
\* not at all.
LEMMA DepthStepIsSlotStep == [DepthNext]_depthVars => [SlotNext]_slotVars
<1> SUFFICES ASSUME [DepthNext]_depthVars PROVE [SlotNext]_slotVars
  OBVIOUS
<1>1. ASSUME NEW f \in Frn, NEW p \in Parent, NEW n \in Name, SlotAdd(f, p, n)
      PROVE  SlotNext
  BY <1>1 DEF SlotNext
<1>2. ASSUME NEW f \in Frn, NEW p \in Parent, NEW n \in Name,
             BulkAdd(f, p, n) \/ ApplyCreate(f, p, n) \/ ApplyRename(f, p, n)
      PROVE  SlotNext
  <2>1. CASE BulkAdd(f, p, n)
    BY <1>1, <2>1 DEF BulkAdd, DepthAdd
  <2>2. CASE ApplyCreate(f, p, n)
    BY <1>1, <2>2 DEF ApplyCreate, DepthAdd
  <2>3. CASE ApplyRename(f, p, n)
    BY <2>3 DEF ApplyRename, SlotNext
  <2> QED
    BY <1>2, <2>1, <2>2, <2>3
<1>3. ASSUME NEW f \in Frn, ApplyDelete(f) PROVE SlotNext
  BY <1>3 DEF ApplyDelete, SlotNext
<1>4. ASSUME NEW keep \in Renumbering, Compact(keep) PROVE SlotNext
  BY <1>4 DEF Compact, SlotNext
<1>5. CASE Finalize
  BY <1>5 DEF Finalize
<1>6. CASE RepairSlice
  BY <1>6 DEF RepairSlice
<1>7. CASE UNCHANGED depthVars
  BY <1>7 DEF depthVars
<1> QED
  BY <1>2, <1>3, <1>4, <1>5, <1>6, <1>7 DEF DepthNext, Mutation

THEOREM DepthImplementsTable == DepthSpec => SlotSpec
<1>1. DepthInit => SlotInit
  BY DEF DepthInit
<1> QED
  BY <1>1, DepthStepIsSlotStep, PTL DEF DepthSpec, SlotSpec

\* However its slices are interleaved with the journal's events, the repair
\* costs no slot and no file: the table stays exact, and to a reader the index
\* is a plain map from references to files.
THEOREM RepairKeepsTable == DepthSpec => []TableExact /\ ImplementsFileSet
BY DepthImplementsTable, TableIsExact, TableImplementsFileSet, PTL

-----------------------------------------------------------------------------
(* Induction.                                                              *)

LessThan == {p \in Nat \X Nat : p[1] < p[2]}

\* A set of naturals that is not empty has a least element.
LEMMA LeastElement ==
  ASSUME NEW T \in SUBSET Nat, T # {}
  PROVE  \E n \in T : \A m \in T : n <= m
<1>1. IsWellFoundedOn(LessThan, Nat)
  BY NatLessThanWellFounded DEF OpToRel, LessThan
<1>2. PICK x \in T : \A y \in T : ~ (<<y, x>> \in LessThan)
  BY <1>1, WFMin, Zenon
<1>3. ASSUME NEW m \in T PROVE x <= m
  <2>1. <<m, x>> \notin LessThan
    BY <1>2
  <2>2. <<m, x>> \in Nat \X Nat
    OBVIOUS
  <2>3. ~ (m < x)
    BY <2>1, <2>2 DEF LessThan
  <2>4. m \in Nat /\ x \in Nat
    OBVIOUS
  <2>5. QED BY <2>3, <2>4
<1>4. QED BY <1>3

\* Induction up to a bound: a set that holds 0 and the successor of each of its
\* members below k holds every natural up to k.
LEMMA InductionUpTo ==
  ASSUME NEW k \in Nat, NEW T, 0 \in T, \A n \in 0..(k - 1) : n \in T => n + 1 \in T
  PROVE  \A n \in 0..k : n \in T
<1> DEFINE U == {n \in 0..k : n \notin T}
<1>1. SUFFICES ASSUME U # {} PROVE FALSE
  OBVIOUS
<1>2. U \in SUBSET Nat
  OBVIOUS
<1>3. \E n \in U : \A m \in U : n <= m
  <2> HIDE DEF U
  <2>1. QED BY <1>1, <1>2, LeastElement
<1>4. PICK n \in U : \A m \in U : n <= m
  BY <1>3
<1>5. n \in 1..k /\ n \notin T
  OBVIOUS
<1>6. n - 1 \in 0..(k - 1) /\ n - 1 + 1 = n
  BY <1>5
<1>7. n - 1 \in T
  <2>1. n - 1 \notin U
    BY <1>4, <1>5
  <2>2. QED BY <2>1, <1>5
<1>8. QED BY <1>5, <1>6, <1>7

-----------------------------------------------------------------------------
\* What is defined by going through 1..n from a starting value exists, and every
\* value on the way is of the type each turn keeps.
Turns(S, n) == [1..n -> [S -> S]]
Reaches(S, start, n, Turn) ==
  \E g \in [0..n -> S] : g[0] = start /\ \A k \in 1..n : g[k] = Turn[k][g[k - 1]]

LEMMA Iterates ==
  ASSUME NEW S, NEW start \in S, NEW n \in Nat, NEW Turn \in Turns(S, n)
  PROVE  Reaches(S, start, n, Turn)
<1> USE DEF Turns, Reaches
<1> DEFINE Upto(k, g) == /\ g \in [0..k -> S] /\ g[0] = start
                         /\ \A i \in 1..k : g[i] = Turn[i][g[i - 1]]
           T == {k \in Nat : \E g : Upto(k, g)}
<1>1. 0 \in T
  <2>1. Upto(0, [i \in 0..0 |-> start])
    OBVIOUS
  <2> QED
    BY <2>1
<1>2. ASSUME NEW k \in 0..(n - 1), k \in T PROVE k + 1 \in T
  <2>1. PICK g : Upto(k, g)
    BY <1>2
  <2> DEFINE h == [i \in 0..(k + 1) |-> IF i <= k THEN g[i] ELSE Turn[k + 1][g[k]]]
  <2>2. k \in Nat /\ k + 1 \in Nat /\ k + 1 \in 1..n /\ g[k] \in S
    BY <2>1
  <2>3. Turn[k + 1][g[k]] \in S
    BY <2>2
  <2>4. h \in [0..(k + 1) -> S] /\ h[0] = start
    BY <2>1, <2>2, <2>3
  <2>5. ASSUME NEW i \in 1..(k + 1) PROVE h[i] = Turn[i][h[i - 1]]
    <3>1. CASE i <= k
      <4>1. h[i] = g[i] /\ h[i - 1] = g[i - 1] /\ i \in 1..k
        BY <2>2, <3>1
      <4> QED
        BY <2>1, <4>1
    <3>2. CASE i = k + 1
      <4>1. h[i] = Turn[k + 1][g[k]] /\ h[i - 1] = g[k]
        BY <2>2, <3>2
      <4> QED
        BY <3>2, <4>1
    <3> QED
      BY <2>2, <3>1, <3>2
  <2>6. Upto(k + 1, h)
    BY <2>4, <2>5
  <2> QED
    BY <2>2, <2>6
<1>3. n \in T
  <2> HIDE DEF T
  <2>1. \A k \in 0..n : k \in T
    BY <1>1, <1>2, InductionUpTo
  <2> QED
    BY <2>1
<1> QED
  BY <1>3

-----------------------------------------------------------------------------
(* The chain of parents above a slot.                                      *)

\* The parent links of n slots.
Links(n) == {up \in Seq(0..n) : Len(up) = n}

LEMMA LinkFacts ==
  ASSUME NEW n \in Nat, NEW up \in Links(n)
  PROVE  /\ Len(up) = n /\ DOMAIN up = 1..n
         /\ \A s \in 1..n : up[s] \in 0..n
BY DEF Links

\* The chain above s, one link at a time; past its end it stays 0.
LEMMA AncestorFacts ==
  ASSUME NEW n \in Nat, NEW up \in Links(n), NEW s \in 0..n
  PROVE  /\ Ancestors(up, s) \in [0..(n + MaxDepth) -> 0..n]
         /\ Ancestors(up, s)[0] = s
         /\ \A k \in 1..(n + MaxDepth) : Ancestors(up, s)[k] =
              IF Ancestors(up, s)[k - 1] = 0 THEN 0 ELSE up[Ancestors(up, s)[k - 1]]
<1> DEFINE N == n + MaxDepth
           S == 0..n
           Turn == [k \in 1..N |-> [t \in S |-> IF t = 0 THEN 0 ELSE up[t]]]
           Def(g) == [k \in 0..N |->
                        IF k = 0 THEN s ELSE IF g[k - 1] = 0 THEN 0 ELSE up[g[k - 1]]]
           anc == CHOOSE h : h = Def(h)
<1>1. N \in Nat /\ s \in S /\ 0 \in S
  BY DepthAssumption
<1>2. \A t \in S : (IF t = 0 THEN 0 ELSE up[t]) \in S
  BY LinkFacts
<1>3. Ancestors(up, s) = anc
  BY LinkFacts DEF Ancestors
<1> HIDE DEF N, S
<1>4. Turn \in Turns(S, N)
  BY <1>2 DEF Turns
<1>5. PICK g \in [0..N -> S] : g[0] = s /\ \A k \in 1..N : g[k] = Turn[k][g[k - 1]]
  <2> HIDE DEF Turn
  <2>1. Reaches(S, s, N, Turn)
    BY <1>1, <1>4, Iterates
  <2> QED
    BY <2>1 DEF Reaches
<1>6. \A k \in 1..N : k - 1 \in 0..N /\ g[k - 1] \in S
  BY <1>1, <1>5
<1>7. \A k \in 1..N : g[k] = IF g[k - 1] = 0 THEN 0 ELSE up[g[k - 1]]
  BY <1>5, <1>6
<1>8. g = Def(g)
  <2>1. \A k \in 0..N : g[k] = Def(g)[k]
    BY <1>1, <1>5, <1>7
  <2> QED
    BY <1>5, <2>1
<1>9. anc = Def(anc)
  <2> HIDE DEF Def
  <2> QED
    BY <1>8
<1> HIDE DEF anc
<1>10. anc[0] = s /\ \A k \in 1..N : anc[k] = IF anc[k - 1] = 0 THEN 0 ELSE up[anc[k - 1]]
  BY <1>1, <1>9
<1>11. anc = [k \in 0..N |-> anc[k]]
  BY <1>9
<1> DEFINE I == {k \in 0..N : anc[k] \in S}
<1>12. \A k \in 0..N : k \in I
  <2>1. 0 \in I
    BY <1>1, <1>10
  <2>2. ASSUME NEW k \in 0..(N - 1), k \in I PROVE k + 1 \in I
    <3>1. k + 1 \in 1..N /\ k + 1 - 1 = k /\ k + 1 \in 0..N
      BY <1>1
    <3>2. anc[k + 1] = IF anc[k] = 0 THEN 0 ELSE up[anc[k]]
      BY <1>10, <3>1
    <3> QED
      BY <1>2, <2>2, <3>1, <3>2
  <2> HIDE DEF I
  <2> QED
    BY <1>1, <2>1, <2>2, InductionUpTo
<1>13. anc \in [0..N -> S]
  BY <1>11, <1>12
<1> QED
  BY <1>3, <1>10, <1>13 DEF N, S

\* The chain above s goes through m slots within the cap, and no further.
Climbs(up, s, m) ==
  /\ m \in 0..MaxDepth
  /\ \A k \in 1..m : Ancestors(up, s)[k] # 0
  /\ m < MaxDepth => Ancestors(up, s)[m + 1] = 0

\* A chain that has ended stays at its end.
LEMMA ChainEnds ==
  ASSUME NEW n \in Nat, NEW up \in Links(n), NEW s \in 0..n,
         NEW j \in 0..MaxDepth, Ancestors(up, s)[j] = 0
  PROVE  \A k \in j..MaxDepth : Ancestors(up, s)[k] = 0
<1> DEFINE A == Ancestors(up, s)
           I == {i \in 0..(MaxDepth - j) : A[j + i] = 0}
           d == MaxDepth - j
<1>1. \A k \in 1..(n + MaxDepth) : A[k] = IF A[k - 1] = 0 THEN 0 ELSE up[A[k - 1]]
  BY AncestorFacts
<1>2. MaxDepth \in Nat /\ d \in Nat /\ A[j] = 0
  BY DepthAssumption
<1> HIDE DEF A
<1>3. \A i \in 0..d : i \in I
  <2>1. 0 \in I
    BY <1>2
  <2>2. ASSUME NEW i \in 0..(d - 1), i \in I PROVE i + 1 \in I
    <3>1. A[j + i] = 0 /\ j + (i + 1) \in 1..(n + MaxDepth) /\ (j + (i + 1)) - 1 = j + i
      BY <1>2, <2>2
    <3>2. A[j + (i + 1)] = 0
      BY <1>1, <3>1
    <3> QED
      BY <1>2, <3>2
  <2> HIDE DEF I, d
  <2> QED
    BY <1>2, <2>1, <2>2, InductionUpTo
<1>4. ASSUME NEW k \in j..MaxDepth PROVE A[k] = 0
  <2>1. k - j \in 0..d /\ j + (k - j) = k
    BY <1>2
  <2> QED
    BY <1>3, <2>1
<1> QED
  BY <1>4 DEF A

\* The depth of a slot is the length of the chain above it, cut at the cap.
LEMMA DepthIsClimb ==
  ASSUME NEW n \in Nat, NEW up \in Links(n), NEW s \in 0..n
  PROVE  /\ Climbs(up, s, TrueDepth(up, s))
         /\ \A m : Climbs(up, s, m) => TrueDepth(up, s) = m
<1> DEFINE A == Ancestors(up, s)
           ends == {k \in 1..MaxDepth : A[k] = 0}
<1>1. MaxDepth \in Nat
  BY DepthAssumption
<1>2. ASSUME NEW m, Climbs(up, s, m) PROVE TrueDepth(up, s) = m
  <2>1. m \in 0..MaxDepth /\ \A k \in 1..m : A[k] # 0
    BY <1>2 DEF Climbs
  <2>2. ASSUME NEW k \in (m + 1)..MaxDepth PROVE A[k] = 0
    <3>1. m + 1 \in 0..MaxDepth /\ A[m + 1] = 0
      BY <1>1, <1>2, <2>1 DEF Climbs
    <3> QED
      BY <3>1, ChainEnds
  <2>3. {k \in 1..MaxDepth : A[k] # 0} = 1..m
    BY <1>1, <2>1, <2>2
  <2>4. Cardinality(1..m) = m
    BY <2>1, FS_Interval
  <2> QED
    BY <2>3, <2>4 DEF TrueDepth
<1>3. \E m : Climbs(up, s, m)
  <2>1. CASE ends = {}
    <3>1. Climbs(up, s, MaxDepth)
      BY <1>1, <2>1 DEF Climbs
    <3> QED
      BY <3>1
  <2>2. CASE ends # {}
    <3>1. ends \in SUBSET Nat
      OBVIOUS
    <3>2. PICK e \in ends : \A x \in ends : e <= x
      <4> HIDE DEF ends
      <4> QED
        BY <2>2, <3>1, LeastElement
    <3>3. e - 1 \in 0..MaxDepth /\ e \in 1..MaxDepth /\ A[e] = 0
      BY <1>1
    <3>4. \A k \in 1..(e - 1) : A[k] # 0
      BY <3>2, <3>3, <1>1
    <3>5. Climbs(up, s, e - 1)
      BY <1>1, <3>3, <3>4 DEF Climbs
    <3> QED
      BY <3>5
  <2> QED
    BY <2>1, <2>2
<1> QED
  BY <1>2, <1>3

\* The chain above a slot is its parent's, one link on.
LEMMA ChainShifts ==
  ASSUME NEW n \in Nat, NEW up \in Links(n), NEW s \in 1..n
  PROVE  \A k \in 1..MaxDepth : Ancestors(up, s)[k] = Ancestors(up, up[s])[k - 1]
<1> DEFINE A == Ancestors(up, s)
           B == Ancestors(up, up[s])
           I == {i \in 0..(MaxDepth - 1) : A[i + 1] = B[i]}
           d == MaxDepth - 1
<1>1. MaxDepth \in Nat /\ d \in Nat /\ up[s] \in 0..n /\ s # 0
  BY DepthAssumption, LinkFacts
<1>2. A[0] = s /\ \A k \in 1..(n + MaxDepth) : A[k] = IF A[k - 1] = 0 THEN 0 ELSE up[A[k - 1]]
  BY AncestorFacts
<1>3. B[0] = up[s] /\ \A k \in 1..(n + MaxDepth) : B[k] = IF B[k - 1] = 0 THEN 0 ELSE up[B[k - 1]]
  BY <1>1, AncestorFacts
<1> HIDE DEF A, B
<1>4. \A i \in 0..d : i \in I
  <2>1. 0 \in I
    BY <1>1, <1>2, <1>3
  <2>2. ASSUME NEW i \in 0..(d - 1), i \in I PROVE i + 1 \in I
    <3>1. /\ i + 1 \in 1..(n + MaxDepth) /\ (i + 1) + 1 \in 1..(n + MaxDepth)
          /\ (i + 1) - 1 = i /\ ((i + 1) + 1) - 1 = i + 1 /\ i + 1 \in 0..d
      BY <1>1
    <3>2. A[(i + 1) + 1] = (IF A[i + 1] = 0 THEN 0 ELSE up[A[i + 1]])
          /\ B[i + 1] = (IF B[i] = 0 THEN 0 ELSE up[B[i]])
      BY <1>2, <1>3, <3>1
    <3> QED
      BY <2>2, <3>1, <3>2
  <2> HIDE DEF I, d
  <2> QED
    BY <1>1, <2>1, <2>2, InductionUpTo
<1>5. ASSUME NEW k \in 1..MaxDepth PROVE A[k] = B[k - 1]
  <2>1. k - 1 \in 0..d /\ (k - 1) + 1 = k
    BY <1>1
  <2> QED
    BY <1>4, <2>1
<1> QED
  BY <1>5 DEF A, B

\* The depth of a slot is one more than its parent's, up to the cap.
LEMMA DepthOfParent ==
  ASSUME NEW n \in Nat, NEW up \in Links(n), NEW s \in 1..n
  PROVE  TrueDepth(up, s) = IF up[s] = 0 THEN 0 ELSE Clamp(TrueDepth(up, up[s]) + 1)
<1> DEFINE A == Ancestors(up, s)
           B == Ancestors(up, up[s])
           m == TrueDepth(up, up[s])
<1>1. MaxDepth \in Nat /\ 1 \in 1..MaxDepth /\ up[s] \in 0..n /\ s \in 0..n
  BY DepthAssumption, LinkFacts
<1>2. \A k \in 1..MaxDepth : A[k] = B[k - 1]
  BY ChainShifts
<1>3. B[0] = up[s]
  BY <1>1, AncestorFacts
<1>4. Climbs(up, up[s], m)
  BY <1>1, DepthIsClimb
<1>5. m \in 0..MaxDepth /\ (\A k \in 1..m : B[k] # 0) /\ (m < MaxDepth => B[m + 1] = 0)
  BY <1>4 DEF Climbs
<1> HIDE DEF m, B
<1>6. CASE up[s] = 0
  <2>1. A[1] = 0
    BY <1>1, <1>2, <1>3, <1>6
  <2>2. Climbs(up, s, 0)
    BY <1>1, <2>1 DEF Climbs
  <2> QED
    BY <1>1, <1>6, <2>2, DepthIsClimb
<1>7. CASE up[s] # 0
  <2>1. \A k \in 0..m : B[k] # 0
    BY <1>3, <1>5, <1>7
  <2>2. Clamp(m + 1) \in 0..MaxDepth /\ Clamp(m + 1) <= m + 1
        /\ (Clamp(m + 1) < MaxDepth => Clamp(m + 1) = m + 1 /\ m + 2 \in 1..MaxDepth)
    BY <1>1, <1>5 DEF Clamp
  <2>3. \A k \in 1..Clamp(m + 1) : k \in 1..MaxDepth /\ k - 1 \in 0..m
    BY <1>1, <1>5, <2>2
  <2>4. \A k \in 1..Clamp(m + 1) : A[k] # 0
    BY <1>2, <2>1, <2>3
  <2>5. ASSUME Clamp(m + 1) < MaxDepth PROVE A[Clamp(m + 1) + 1] = 0
    <3>1. Clamp(m + 1) + 1 = m + 2 /\ m + 2 \in 1..MaxDepth /\ (m + 2) - 1 = m + 1 /\ m < MaxDepth
      BY <1>1, <1>5, <2>2, <2>5
    <3> QED
      BY <1>2, <1>5, <3>1
  <2>6. Climbs(up, s, Clamp(m + 1))
    BY <2>2, <2>4, <2>5 DEF Climbs
  <2>7. TrueDepth(up, s) = Clamp(m + 1)
    BY <1>1, <2>6, DepthIsClimb
  <2> QED
    BY <1>7, <2>7 DEF m
<1> QED
  BY <1>6, <1>7

\* Round a cycle, and below one, the chain never ends.
LEMMA DepthOfCycle ==
  ASSUME NEW n \in Nat, NEW up \in Links(n), NEW P \in SUBSET (1..n), NEW s \in P,
         \A t \in P : up[t] \in P
  PROVE  TrueDepth(up, s) = MaxDepth
<1> DEFINE A == Ancestors(up, s)
           I == {k \in 0..MaxDepth : A[k] \in P}
<1>1. MaxDepth \in Nat /\ s \in 0..n /\ 0 \notin P
  BY DepthAssumption
<1>2. A[0] = s /\ \A k \in 1..(n + MaxDepth) : A[k] = IF A[k - 1] = 0 THEN 0 ELSE up[A[k - 1]]
  BY <1>1, AncestorFacts
<1> HIDE DEF A
<1>3. \A k \in 0..MaxDepth : k \in I
  <2>1. 0 \in I
    BY <1>1, <1>2
  <2>2. ASSUME NEW k \in 0..(MaxDepth - 1), k \in I PROVE k + 1 \in I
    <3>1. k + 1 \in 1..(n + MaxDepth) /\ (k + 1) - 1 = k /\ k + 1 \in 0..MaxDepth
      BY <1>1
    <3>2. A[k + 1] = up[A[k]]
      BY <1>1, <1>2, <2>2, <3>1
    <3> QED
      BY <2>2, <3>1, <3>2
  <2> HIDE DEF I
  <2> QED
    BY <1>1, <2>1, <2>2, InductionUpTo
<1>4. \A k \in 1..MaxDepth : A[k] # 0
  BY <1>1, <1>3
<1>5. Climbs(up, s, MaxDepth)
  BY <1>1, <1>4 DEF Climbs, A
<1> QED
  BY <1>1, <1>5, DepthIsClimb

\* The depth of a slot depends only on the links of the slots above it.
LEMMA DepthAgrees ==
  ASSUME NEW n \in Nat, NEW up \in Links(n), NEW m \in Nat, NEW ahead \in Links(m),
         NEW L \in SUBSET (1..n), L \subseteq 1..m, NEW s \in L,
         \A t \in L : ahead[t] = up[t] /\ (up[t] # 0 => up[t] \in L)
  PROVE  TrueDepth(ahead, s) = TrueDepth(up, s)
<1> DEFINE A == Ancestors(up, s)
           B == Ancestors(ahead, s)
           I == {k \in 0..MaxDepth : B[k] = A[k] /\ (A[k] # 0 => A[k] \in L)}
<1>1. MaxDepth \in Nat /\ s \in 0..n /\ s \in 0..m
  BY DepthAssumption
<1>2. A[0] = s /\ \A k \in 1..(n + MaxDepth) : A[k] = IF A[k - 1] = 0 THEN 0 ELSE up[A[k - 1]]
  BY <1>1, AncestorFacts
<1>3. B[0] = s /\ \A k \in 1..(m + MaxDepth) : B[k] = IF B[k - 1] = 0 THEN 0 ELSE ahead[B[k - 1]]
  BY <1>1, AncestorFacts
<1> HIDE DEF A, B
<1>4. \A k \in 0..MaxDepth : k \in I
  <2>1. 0 \in I
    BY <1>1, <1>2, <1>3
  <2>2. ASSUME NEW k \in 0..(MaxDepth - 1), k \in I PROVE k + 1 \in I
    <3>1. /\ k + 1 \in 1..(n + MaxDepth) /\ k + 1 \in 1..(m + MaxDepth)
          /\ (k + 1) - 1 = k /\ k + 1 \in 0..MaxDepth
      BY <1>1
    <3>2. A[k + 1] = (IF A[k] = 0 THEN 0 ELSE up[A[k]])
          /\ B[k + 1] = (IF A[k] = 0 THEN 0 ELSE ahead[A[k]])
      BY <1>2, <1>3, <2>2, <3>1
    <3> QED
      BY <2>2, <3>1, <3>2
  <2> HIDE DEF I
  <2> QED
    BY <1>1, <2>1, <2>2, InductionUpTo
<1>5. {k \in 1..MaxDepth : B[k] # 0} = {k \in 1..MaxDepth : A[k] # 0}
  BY <1>1, <1>4
<1> QED
  BY <1>5 DEF TrueDepth, A, B

-----------------------------------------------------------------------------
(* The sweep.                                                              *)

\* What a sweep carries: the depths, and the slots that have theirs.
SweepState(n) == [rank : [1..n -> 0..MaxDepth], done : SUBSET (1..n)]

\* A parent that is indexed is alive.
Rooted(n, up, live) == live \in SUBSET (1..n) /\ \A s \in 1..n : up[s] # 0 => up[s] \in live

\* Every mark on a live slot is right.
Right(up, live, st) == \A t \in st.done \cap live : st.rank[t] = TrueDepth(up, t)

\* Where a walk ends.
WalkStops(up, done, s, k) ==
  \/ Ancestors(up, s)[k] = 0
  \/ Ancestors(up, s)[k] \in done
  \/ \E j \in 0..(k - 1) : Ancestors(up, s)[j] = Ancestors(up, s)[k]

\* A walk ends within as many links as there are slots.
LEMMA WalkEnds ==
  ASSUME NEW n \in Nat, NEW up \in Links(n), NEW s \in 1..n, NEW done
  PROVE  \E k \in 1..n : WalkStops(up, done, s, k) /\ \A j \in 1..(k - 1) : ~WalkStops(up, done, s, j)
<1> DEFINE A == Ancestors(up, s)
           ends == {k \in 1..n : WalkStops(up, done, s, k)}
           f == [k \in 0..n |-> A[k]]
<1>1. A \in [0..(n + MaxDepth) -> 0..n] /\ A[0] = s /\ MaxDepth \in Nat
  BY AncestorFacts, DepthAssumption
<1>2. ends # {}
  <2>1. SUFFICES ASSUME \A k \in 1..n : ~WalkStops(up, done, s, k) PROVE FALSE
    OBVIOUS
  <2>2. \A k \in 1..n : A[k] # 0 /\ \A j \in 0..(k - 1) : A[j] # A[k]
    BY <2>1 DEF WalkStops
  <2> HIDE DEF A
  <2>3. \A k \in 0..n : A[k] \in 1..n
    BY <1>1, <2>2
  <2>4. f \in [0..n -> 1..n]
    BY <2>3
  <2>5. /\ IsFiniteSet(0..n) /\ IsFiniteSet(1..n)
        /\ Cardinality(0..n) = n + 1 /\ Cardinality(1..n) = n
    BY FS_Interval
  <2> HIDE DEF f
  <2>6. \E x, y \in 0..n : x # y /\ f[x] = f[y]
    <3>1. Cardinality(1..n) < Cardinality(0..n)
      BY <2>5
    <3> QED
      BY <2>4, <2>5, <3>1, FS_PigeonHole
  <2>7. PICK x \in 0..n, y \in 0..n : x # y /\ A[x] = A[y]
    BY <2>6 DEF f
  <2>8. CASE x < y
    BY <2>2, <2>7, <2>8
  <2>9. CASE y < x
    BY <2>2, <2>7, <2>9
  <2> QED
    BY <2>7, <2>8, <2>9
<1>3. ends \in SUBSET Nat
  OBVIOUS
<1>4. PICK k \in ends : \A x \in ends : k <= x
  <2> HIDE DEF ends
  <2> QED
    BY <1>2, <1>3, LeastElement
<1>5. \A j \in 1..(k - 1) : j \notin ends
  BY <1>4
<1> QED
  BY <1>4, <1>5

\* A walk marks live slots nobody has marked yet, its start among them, with depths that
\* are right if the marks it meets are.
LEMMA WalkFacts ==
  ASSUME NEW n \in Nat, NEW up \in Links(n), NEW live, Rooted(n, up, live),
         NEW st \in SweepState(n), NEW s \in live, s \notin st.done
  PROVE  LET new == SweepFrom(up, st, s)
         IN  /\ new \in SweepState(n)
             /\ s \in new.done /\ st.done \subseteq new.done /\ new.done \subseteq st.done \cup live
             /\ Right(up, live, st) => Right(up, live, new)
<1> DEFINE anc == Ancestors(up, s)
           Stops(k) == \/ anc[k] = 0
                       \/ anc[k] \in st.done
                       \/ \E j \in 0..(k - 1) : anc[j] = anc[k]
           stop == CHOOSE k \in 1..Len(up) : Stops(k) /\ \A j \in 1..(k - 1) : ~Stops(j)
           pushed == {anc[i] : i \in 0..(stop - 1)}
           Pos(t) == CHOOSE i \in 0..(stop - 1) : anc[i] = t
           first == IF anc[stop] = 0 THEN 0 ELSE Clamp(st.rank[anc[stop]] + 1)
           cycle == anc[stop] # 0 /\ anc[stop] \notin st.done
           Depth(t) == IF cycle THEN MaxDepth ELSE Clamp(first + (stop - 1 - Pos(t)))
           new == [rank |-> [t \in DOMAIN st.rank |-> IF t \in pushed THEN Depth(t) ELSE st.rank[t]],
                   done |-> st.done \cup pushed]
<1>1. SweepFrom(up, st, s) = new
  BY DEF SweepFrom
<1>2. /\ Len(up) = n /\ MaxDepth \in Nat /\ s \in 1..n /\ live \subseteq 1..n
      /\ st.rank \in [1..n -> 0..MaxDepth] /\ st.done \subseteq 1..n
      /\ \A t \in 1..n : up[t] # 0 => up[t] \in live
  BY LinkFacts, DepthAssumption DEF SweepState, Rooted
<1>3. /\ anc \in [0..(n + MaxDepth) -> 0..n] /\ anc[0] = s
      /\ \A k \in 1..(n + MaxDepth) : anc[k] = IF anc[k - 1] = 0 THEN 0 ELSE up[anc[k - 1]]
  <2>1. s \in 0..n
    BY <1>2
  <2> QED
    BY <2>1, AncestorFacts
<1>4. stop \in 1..n /\ Stops(stop) /\ \A j \in 1..(stop - 1) : ~Stops(j)
  <2>2. \A k : Stops(k) <=> WalkStops(up, st.done, s, k)
    BY DEF WalkStops
  <2> HIDE DEF Stops
  <2>1. \E k \in 1..n : Stops(k) /\ \A j \in 1..(k - 1) : ~Stops(j)
    BY <1>2, <2>2, WalkEnds
  <2> QED
    BY <1>2, <2>1
<1> HIDE DEF anc, stop
<1>5. \A i \in 0..(stop - 1) : /\ anc[i] \in live /\ anc[i] # 0 /\ anc[i] \notin st.done
                               /\ up[anc[i]] = anc[i + 1]
  <2>1. ASSUME NEW i \in 0..(stop - 1) PROVE anc[i] # 0 /\ anc[i] \notin st.done
    <3>1. CASE i = 0
      <4>1. anc[i] = s /\ s # 0
        BY <1>2, <1>3, <3>1
      <4> QED
        BY <4>1
    <3>2. CASE i # 0
      <4>1. i \in 1..(stop - 1)
        BY <1>4, <3>2
      <4> QED
        BY <1>4, <4>1
    <3> QED
      BY <3>1, <3>2
  <2>2. ASSUME NEW i \in 0..(stop - 1) PROVE anc[i] \in live
    <3>1. CASE i = 0
      BY <1>3, <3>1
    <3>2. CASE i # 0
      <4>1. i - 1 \in 0..(stop - 1) /\ i \in 1..(n + MaxDepth) /\ i - 1 \in 0..(n + MaxDepth)
        BY <1>2, <1>4, <3>2
      <4>2. anc[i] = up[anc[i - 1]] /\ anc[i - 1] \in 1..n
        BY <1>3, <2>1, <4>1
      <4> QED
        BY <1>2, <2>1, <4>2
    <3> QED
      BY <3>1, <3>2
  <2>3. ASSUME NEW i \in 0..(stop - 1) PROVE up[anc[i]] = anc[i + 1]
    <3>1. i + 1 \in 1..(n + MaxDepth) /\ (i + 1) - 1 = i
      BY <1>2, <1>4
    <3> QED
      BY <1>3, <2>1, <3>1
  <2> QED
    BY <2>1, <2>2, <2>3
<1>6. \A i, j \in 0..(stop - 1) : anc[i] = anc[j] => i = j
  <2>1. ASSUME NEW i \in 0..(stop - 1), NEW j \in 0..(i - 1) PROVE anc[j] # anc[i]
    <3>1. i \in 1..(stop - 1)
      BY <1>4
    <3> QED
      BY <1>4, <3>1
  <2>2. ASSUME NEW i \in 0..(stop - 1), NEW j \in 0..(stop - 1), anc[i] = anc[j] PROVE i = j
    <3>1. ~(i < j) /\ ~(j < i)
      BY <1>4, <2>1, <2>2
    <3> QED
      BY <1>4, <3>1
  <2> QED
    BY <2>2
<1>7. \A i \in 0..(stop - 1) : Pos(anc[i]) = i
  BY <1>6
<1>8. \A t \in pushed : Pos(t) \in 0..(stop - 1) /\ anc[Pos(t)] = t
  BY <1>7
<1> HIDE DEF Pos, Stops
<1>9. pushed \subseteq live /\ s \in pushed /\ pushed \cap st.done = {}
  BY <1>3, <1>4, <1>5
<1>10. anc[stop] \in 0..n /\ stop - 1 \in 0..(stop - 1) /\ up[anc[stop - 1]] = anc[stop]
  <2>1. stop - 1 \in 0..(stop - 1) /\ (stop - 1) + 1 = stop /\ stop \in 0..(n + MaxDepth)
    BY <1>2, <1>4
  <2> QED
    BY <1>3, <1>5, <2>1
<1>11. first \in 0..MaxDepth
  <2>1. anc[stop] # 0 => st.rank[anc[stop]] \in 0..MaxDepth
    BY <1>2, <1>10
  <2>2. MaxDepth \in Nat
    BY <1>2
  <2>3. \A x \in 0..MaxDepth : Clamp(x + 1) \in 0..MaxDepth
    BY <2>2 DEF Clamp
  <2> QED
    BY <2>1, <2>2, <2>3
<1>12. \A t \in pushed : Depth(t) \in 0..MaxDepth
  <2>1. ASSUME NEW i \in 0..(stop - 1), NEW x \in Nat PROVE Clamp(x + (stop - 1 - i)) \in 0..MaxDepth
    BY <1>2, <1>4 DEF Clamp
  <2>2. MaxDepth \in 0..MaxDepth /\ first \in Nat
    BY <1>2, <1>11
  <2> HIDE DEF first, pushed
  <2> QED
    BY <1>8, <2>1, <2>2
<1> HIDE DEF pushed, Depth
<1>13. new \in SweepState(n)
  <2>1. new.rank \in [1..n -> 0..MaxDepth]
    BY <1>2, <1>12
  <2>2. new.done \in SUBSET (1..n)
    BY <1>2, <1>9
  <2> HIDE DEF pushed
  <2> QED
    BY <2>1, <2>2 DEF SweepState
<1>14. ASSUME Right(up, live, st), NEW t \in pushed PROVE Depth(t) = TrueDepth(up, t)
  <2>1. CASE cycle
    <3>1. PICK j \in 0..(stop - 1) : anc[j] = anc[stop]
      BY <1>4, <2>1 DEF Stops
    <3>2. ASSUME NEW x \in pushed PROVE up[x] \in pushed
      <4>1. PICK i \in 0..(stop - 1) : x = anc[i]
        BY DEF pushed
      <4>2. up[x] = anc[i + 1]
        BY <1>5, <4>1
      <4>3. CASE i + 1 = stop
        BY <3>1, <4>2, <4>3 DEF pushed
      <4>4. CASE i + 1 # stop
        <5>1. i + 1 \in 0..(stop - 1)
          BY <1>4, <4>4
        <5> QED
          BY <4>2, <5>1 DEF pushed
      <4> QED
        BY <4>3, <4>4
    <3>3. pushed \in SUBSET (1..n)
      BY <1>2, <1>9
    <3>4. TrueDepth(up, t) = MaxDepth
      BY <1>14, <3>2, <3>3, DepthOfCycle
    <3> QED
      BY <2>1, <3>4 DEF Depth
  <2>2. CASE ~cycle
    <3> DEFINE d == stop - 1
               I == {i \in 0..d : TrueDepth(up, anc[d - i]) = Clamp(first + i)}
    <3>1. d \in Nat /\ first \in 0..MaxDepth /\ \A i \in 0..d : d - i \in 0..(stop - 1)
      BY <1>4, <1>11
    <3>2. \A i \in 0..d : anc[i] \in 1..n
      BY <1>2, <1>5
    <3>3. 0 \in I
      <4>1. anc[d] \in 1..n /\ up[anc[d]] = anc[stop] /\ Clamp(first + 0) = first /\ d - 0 = d
        <5>1. d \in 0..d /\ d - 0 = d
          BY <3>1
        <5>2. \A x \in 0..MaxDepth : Clamp(x + 0) = x
          BY <1>2 DEF Clamp
        <5>3. Clamp(first + 0) = first
          BY <3>1, <5>2
        <5> QED
          BY <1>10, <3>2, <5>1, <5>3
      <4>2. TrueDepth(up, anc[d]) = IF anc[stop] = 0 THEN 0 ELSE Clamp(TrueDepth(up, anc[stop]) + 1)
        BY <4>1, DepthOfParent
      <4>3. anc[stop] # 0 => anc[stop] \in st.done \cap live
        BY <1>2, <2>2, <4>1
      <4>4. anc[stop] # 0 => st.rank[anc[stop]] = TrueDepth(up, anc[stop])
        BY <1>14, <4>3 DEF Right
      <4>5. TrueDepth(up, anc[d]) = first
        BY <4>2, <4>4
      <4> QED
        BY <3>1, <4>1, <4>5
    <3>4. ASSUME NEW i \in 0..(d - 1), i \in I PROVE i + 1 \in I
      <4>1. d - (i + 1) \in 0..d /\ (d - (i + 1)) + 1 = d - i /\ d - i \in 0..d /\ i + 1 \in 0..d
        BY <3>1
      <4>2. anc[d - (i + 1)] \in 1..n /\ up[anc[d - (i + 1)]] = anc[d - i] /\ anc[d - i] # 0
        BY <1>5, <3>2, <4>1
      <4>3. TrueDepth(up, anc[d - (i + 1)]) = Clamp(TrueDepth(up, anc[d - i]) + 1)
        BY <4>2, DepthOfParent
      <4>4. TrueDepth(up, anc[d - i]) = Clamp(first + i)
        BY <3>4
      <4>5. Clamp(Clamp(first + i) + 1) = Clamp(first + (i + 1))
        <5>1. first \in Nat /\ i \in Nat
          BY <3>1
        <5> HIDE DEF first
        <5> QED
          BY <1>2, <5>1 DEF Clamp
      <4> QED
        BY <4>1, <4>3, <4>4, <4>5
    <3>5. \A i \in 0..d : i \in I
      <4> HIDE DEF I, d
      <4> QED
        BY <3>1, <3>3, <3>4, InductionUpTo
    <3>6. d - Pos(t) \in 0..d /\ anc[d - (d - Pos(t))] = t
      <4>1. Pos(t) \in 0..d /\ anc[Pos(t)] = t
        BY <1>8, <1>14
      <4>2. d - (d - Pos(t)) = Pos(t)
        BY <3>1, <4>1
      <4> QED
        BY <3>1, <4>1, <4>2
    <3>7. TrueDepth(up, t) = Clamp(first + (d - Pos(t)))
      BY <3>5, <3>6
    <3> QED
      BY <2>2, <3>7 DEF Depth
  <2> QED
    BY <2>1, <2>2
<1>15. ASSUME Right(up, live, st) PROVE Right(up, live, new)
  <2>1. ASSUME NEW t \in new.done \cap live PROVE new.rank[t] = TrueDepth(up, t)
    <3>1. t \in DOMAIN st.rank
      BY <1>2
    <3>2. CASE t \in pushed
      <4>1. new.rank[t] = Depth(t)
        BY <3>1, <3>2
      <4> QED
        BY <1>14, <1>15, <3>2, <4>1
    <3>3. CASE t \notin pushed
      <4>1. new.rank[t] = st.rank[t] /\ t \in st.done \cap live
        BY <2>1, <3>1, <3>3
      <4> QED
        BY <1>15, <4>1 DEF Right
    <3> QED
      BY <3>2, <3>3
  <2> HIDE DEF new
  <2> QED
    BY <2>1 DEF Right
<1>16. s \in new.done /\ st.done \subseteq new.done /\ new.done \subseteq st.done \cup live
  BY <1>9
<1> HIDE DEF new
<1> QED
  BY <1>1, <1>13, <1>15, <1>16

\* A visit to a slot that is dead or marked does nothing.
LEMMA VisitFacts ==
  ASSUME NEW n \in Nat, NEW up \in Links(n), NEW live, Rooted(n, up, live),
         NEW st \in SweepState(n), NEW s \in 1..n
  PROVE  LET new == Visit(up, live, st, s)
         IN  /\ new \in SweepState(n)
             /\ s \in live => s \in new.done
             /\ st.done \subseteq new.done
             /\ Right(up, live, st) => Right(up, live, new)
<1>1. CASE s \in live \ st.done
  <2>1. Visit(up, live, st, s) = SweepFrom(up, st, s)
    BY <1>1 DEF Visit
  <2>2. s \in live /\ s \notin st.done
    BY <1>1
  <2> QED
    BY <2>1, <2>2, WalkFacts
<1>2. CASE s \notin live \ st.done
  BY <1>2 DEF Visit
<1> QED
  BY <1>1, <1>2

\* A sweep over lo..hi marks every live slot there, and keeps right marks right.
LEMMA SweepFacts ==
  ASSUME NEW n \in Nat, NEW up \in Links(n), NEW live, Rooted(n, up, live),
         NEW st \in SweepState(n), NEW lo \in Nat, lo > 0, NEW hi \in Nat, lo <= hi + 1, hi <= n
  PROVE  LET new == Sweep(up, live, lo, hi, st)
         IN  /\ new \in SweepState(n)
             /\ st.done \subseteq new.done
             /\ live \cap (lo..hi) \subseteq new.done
             /\ Right(up, live, st) => Right(up, live, new)
<1> DEFINE m == hi - lo + 1
           S == SweepState(n)
           Turn == [i \in 1..m |-> [t \in S |-> Visit(up, live, t, lo + i - 1)]]
           Def(g) == [i \in 0..m |-> IF i = 0 THEN st ELSE Visit(up, live, g[i - 1], lo + i - 1)]
           after == CHOOSE h : h = Def(h)
<1>1. m \in Nat /\ \A i \in 1..m : lo + i - 1 \in 1..n
  OBVIOUS
<1>2. \A i \in 1..m : \A t \in S : Visit(up, live, t, lo + i - 1) \in S
  BY <1>1, VisitFacts
<1>3. Sweep(up, live, lo, hi, st) = after[m]
  BY DEF Sweep
<1> HIDE DEF m, S
<1>4. Turn \in Turns(S, m)
  BY <1>2 DEF Turns
<1>5. PICK g \in [0..m -> S] : g[0] = st /\ \A i \in 1..m : g[i] = Turn[i][g[i - 1]]
  <2> HIDE DEF Turn
  <2>1. Reaches(S, st, m, Turn)
    BY <1>1, <1>4, Iterates DEF S
  <2> QED
    BY <2>1 DEF Reaches
<1>6. \A i \in 1..m : i - 1 \in 0..m /\ g[i - 1] \in S
  BY <1>1, <1>5
<1>7. \A i \in 1..m : g[i] = Visit(up, live, g[i - 1], lo + i - 1)
  BY <1>5, <1>6
<1>8. g = Def(g)
  <2>1. \A i \in 0..m : g[i] = Def(g)[i]
    BY <1>1, <1>5, <1>7
  <2> QED
    BY <1>5, <2>1
<1>9. after = Def(after)
  <2> HIDE DEF Def
  <2> QED
    BY <1>8
<1> HIDE DEF after
<1>10. after[0] = st /\ \A i \in 1..m : after[i] = Visit(up, live, after[i - 1], lo + i - 1)
  BY <1>1, <1>9
<1> DEFINE Good(i) == /\ after[i] \in S
                      /\ st.done \subseteq after[i].done
                      /\ live \cap (lo..(lo + i - 1)) \subseteq after[i].done
                      /\ Right(up, live, st) => Right(up, live, after[i])
           I == {i \in 0..m : Good(i)}
<1>11. 0 \in I
  <2>1. lo..(lo + 0 - 1) = {}
    OBVIOUS
  <2> QED
    BY <1>1, <1>10, <2>1 DEF S
<1>12. ASSUME NEW i \in 0..(m - 1), i \in I PROVE i + 1 \in I
  <2>1. i + 1 \in 1..m /\ i + 1 \in 0..m /\ (i + 1) - 1 = i /\ lo + (i + 1) - 1 \in 1..n
    BY <1>1
  <2>2. after[i + 1] = Visit(up, live, after[i], lo + (i + 1) - 1)
    BY <1>10, <2>1
  <2>3. after[i] \in SweepState(n)
    BY <1>12 DEF S
  <2>4. /\ after[i + 1] \in S
        /\ lo + (i + 1) - 1 \in live => lo + (i + 1) - 1 \in after[i + 1].done
        /\ after[i].done \subseteq after[i + 1].done
        /\ Right(up, live, after[i]) => Right(up, live, after[i + 1])
    BY <2>1, <2>2, <2>3, VisitFacts DEF S
  <2>5. lo..(lo + (i + 1) - 1) = (lo..(lo + i - 1)) \cup {lo + (i + 1) - 1}
    BY <1>1
  <2>6. Good(i)
    BY <1>12
  <2>7. Good(i + 1)
    BY <2>4, <2>5, <2>6
  <2> HIDE DEF Good
  <2> QED
    BY <2>1, <2>7
<1>13. \A i \in 0..m : i \in I
  <2> HIDE DEF I
  <2> QED
    BY <1>1, <1>11, <1>12, InductionUpTo
<1>14. Good(m)
  <2> HIDE DEF Good
  <2>1. m \in 0..m
    BY <1>1
  <2> QED
    BY <1>13, <2>1
<1>15. lo + m - 1 = hi
  BY DEF m
<1> QED
  BY <1>3, <1>14, <1>15 DEF S

-----------------------------------------------------------------------------
(* The cached depths under every mutation.                                 *)

\* A reference that names a directory is marked as one.
DirsNamed == \A s \in LiveSlot : entries[s].frn \in DirFrn => entries[s].dir

\* The inductive invariant. What is claimed of the depths rests on the table, on the
\* kind of every entry, and on an idle repair having no cursor and no marks.
DepthInv ==
  /\ SlotInv /\ RepairedDepths /\ DirsNamed
  /\ ~armed => cursor = 0 /\ swept = {}
  /\ ~settled => ~armed

\* A table and its map, as far as the parent links need them.
Lives(es) == {s \in DOMAIN es : ~es[s].dead}
Mapped(es, map) == \A f \in Frn : map[f] # 0 => map[f] \in Lives(es) /\ es[map[f]].frn = f

LEMMA TableFacts ==
  ASSUME SlotInv
  PROVE  /\ entries \in Seq(Entry) /\ frn_map \in [Frn -> Nat] /\ Mapped(entries, frn_map)
         /\ Slot = DOMAIN entries /\ LiveSlot = Lives(entries) /\ Len(entries) \in Nat
         /\ LiveSlot \subseteq 1..Len(entries)
         /\ \A s \in LiveSlot : frn_map[entries[s].frn] = s
BY DEF SlotInv, SlotTypeOK, FrnMapExact, Mapped, Lives, LiveSlot, Slot, Known

\* The links are links, and they lead to live slots.
LEMMA UpFacts ==
  ASSUME NEW es \in Seq(Entry), NEW map \in [Frn -> Nat], Mapped(es, map)
  PROVE  /\ UpLinks(es, map) \in Links(Len(es))
         /\ Rooted(Len(es), UpLinks(es, map), Lives(es))
         /\ Len(es) \in Nat
         /\ \A s \in DOMAIN es : /\ UpLinks(es, map)[s] # 0 => /\ es[s].parent \in Frn
                                                            /\ UpLinks(es, map)[s] = map[es[s].parent]
                                 /\ UpLinks(es, map)[s] # s
                                 /\ es[s].parent \in Frn /\ map[es[s].parent] # s
                                      => UpLinks(es, map)[s] = map[es[s].parent]
                                 /\ es[s].parent \notin Frn => UpLinks(es, map)[s] = 0
                                 /\ es[s].parent \in Frn /\ map[es[s].parent] = s
                                      => UpLinks(es, map)[s] = 0
<1> DEFINE up == UpLinks(es, map)
           n == Len(es)
<1>1. n \in Nat /\ DOMAIN es = 1..n /\ Lives(es) \subseteq 1..n
  BY DEF Lives
<1>2. \A s \in 1..n : up[s] = IF es[s].parent \in Frn
                              THEN (IF map[es[s].parent] # s THEN map[es[s].parent] ELSE 0) ELSE 0
  BY <1>1 DEF UpLinks
<1>3. \A s \in 1..n : up[s] # 0 => up[s] \in Lives(es)
  BY <1>2 DEF Mapped
<1>4. \A s \in 1..n : up[s] \in 0..n
  BY <1>1, <1>3
<1>5. up = [s \in 1..n |-> up[s]]
  BY <1>1 DEF UpLinks
<1>6. up \in [1..n -> 0..n]
  BY <1>4, <1>5
<1> HIDE DEF up
<1>7. up \in Links(n)
  BY <1>1, <1>6 DEF Links
<1>8. Rooted(n, up, Lives(es))
  BY <1>1, <1>3 DEF Rooted
<1>9. \A s \in 1..n : 0 # s
  OBVIOUS
<1> QED
  BY <1>1, <1>2, <1>7, <1>8, <1>9 DEF up

LEMMA UpNow ==
  ASSUME SlotInv
  PROVE  Up \in Links(Len(entries)) /\ Rooted(Len(entries), Up, LiveSlot)
BY TableFacts, UpFacts DEF Up

-----------------------------------------------------------------------------
\* What registering f under p in slot s does, whichever handler does it.
Registers(f, p, s) ==
  /\ s \in 1..(Len(entries) + 1)
  /\ Known(f) => s = frn_map[f]
  /\ ~Known(f) => s \notin LiveSlot
  /\ entries'[s].frn = f /\ entries'[s].parent = p /\ ~entries'[s].dead
  /\ f \in DirFrn => entries'[s].dir
  /\ \A t \in Slot : t # s => entries'[t] = entries[t]
  /\ Slot' = Slot \cup {s}
  /\ frn_map' = [frn_map EXCEPT ![f] = s]
  /\ rank' = SetRank(s, RegisterDepth(s, f, p))

LEMMA AddRegisters ==
  ASSUME SlotInv, NEW f \in Frn, NEW p \in Parent, NEW n \in Name, DepthAdd(f, p, n)
  PROVE  Registers(f, p, SlotFor(f))
<1> DEFINE s == SlotFor(f)
           e == LiveEntry(f, p, n, f \in DirFrn)
<1>1. /\ entries' = Bound(s, e) /\ frn_map' = [frn_map EXCEPT ![f] = s]
      /\ rank' = SetRank(s, RegisterDepth(s, f, p))
  BY DEF DepthAdd, SlotAdd
<1>2. e \in Entry /\ e.frn = f /\ e.parent = p /\ e.dead = FALSE /\ e.dir = (f \in DirFrn)
  BY DEF LiveEntry, Entry
<1>3. /\ s \in 1..(Len(entries) + 1)
      /\ Known(f) => s = frn_map[f]
      /\ Recycles(f) => s \in Slot /\ entries[s].dead
      /\ (~Known(f) /\ ~Recycles(f)) => s = Len(entries) + 1
  BY SlotForFacts
<1> HIDE DEF s, e
<1>4. /\ entries'[s] = e
      /\ \A t \in Slot : t # s => entries'[t] = entries[t]
      /\ 1..Len(entries') = Slot \cup {s}
  BY <1>1, <1>2, <1>3, BoundFacts
<1>5. Slot' = Slot \cup {s}
  BY <1>4 DEF Slot
<1>6. ~Known(f) => s \notin LiveSlot
  BY <1>3, TableFacts DEF LiveSlot, Slot
<1> QED
  BY <1>1, <1>2, <1>3, <1>4, <1>5, <1>6 DEF Registers, s

LEMMA RenameRegisters ==
  ASSUME SlotInv, DirsNamed, Len(rank) = Len(entries),
         NEW f \in Frn, NEW p \in Parent, NEW n \in Name, ApplyRename(f, p, n)
  PROVE  Registers(f, p, frn_map[f])
<1> DEFINE s == frn_map[f]
           e == LiveEntry(f, p, n, entries[s].dir)
<1>1. /\ Known(f) /\ entries' = [entries EXCEPT ![s] = e] /\ frn_map' = frn_map
      /\ rank' = [rank EXCEPT ![s] = RegisterDepth(s, f, p)]
  BY DEF ApplyRename, SlotRename
<1>2. /\ entries \in Seq(Entry) /\ s \in LiveSlot /\ LiveSlot \subseteq 1..Len(entries)
      /\ entries[s].frn = f /\ Slot = DOMAIN entries /\ Len(entries) \in Nat
      /\ frn_map \in [Frn -> Nat]
  BY <1>1, TableFacts DEF Mapped, Known
<1>3. e.frn = f /\ e.parent = p /\ e.dead = FALSE /\ e.dir = entries[s].dir
  BY DEF LiveEntry
<1> HIDE DEF e
<1>4. entries'[s] = e /\ \A t \in Slot : t # s => entries'[t] = entries[t]
  BY <1>1, <1>2
<1>5. Slot' = Slot \cup {s}
  BY <1>1, <1>2 DEF Slot
<1>6. f \in DirFrn => entries[s].dir
  BY <1>2 DEF DirsNamed
<1>7. frn_map' = [frn_map EXCEPT ![f] = s]
  BY <1>1, <1>2
<1>8. s \in 1..(Len(entries) + 1) /\ s # Len(rank) + 1
  BY <1>2
<1>9. rank' = SetRank(s, RegisterDepth(s, f, p))
  BY <1>1, <1>8 DEF SetRank
<1>10. Known(f) => s = frn_map[f]
  OBVIOUS
<1>11. ~entries'[s].dead /\ (f \in DirFrn => entries'[s].dir)
  BY <1>3, <1>4, <1>6
<1> HIDE DEF s
<1> QED
  BY <1>1, <1>3, <1>4, <1>5, <1>7, <1>8, <1>9, <1>10, <1>11 DEF Registers

\* Registering leaves every other slot's links alone, if no entry waited for f and no
\* directory moves.
Quiet(f, p) == IF Known(f) THEN ~Reparents(f, p) ELSE \A t \in LiveSlot : entries[t].parent # f

LEMMA ParentFacts ==
  ASSUME SlotInv, NEW t \in Slot
  PROVE  entries[t].parent \in Parent /\ (entries[t].parent \in Frn => entries[t].parent \in DirFrn)
<1>1. entries[t].parent \in Parent
  BY EntryAt DEF SlotInv
<1> QED
  BY <1>1, DepthAssumption

LEMMA RegisterShape ==
  ASSUME SlotInv, SlotInv', NEW f \in Frn, NEW p \in Parent, NEW s, Registers(f, p, s)
  PROVE  /\ LiveSlot' = LiveSlot \cup {s} /\ DOMAIN entries' = Slot \cup {s}
         /\ frn_map'[f] = s /\ \A g \in Frn \ {f} : frn_map'[g] = frn_map[g]
         /\ s \in Nat /\ s # 0
<1>1. /\ Slot = DOMAIN entries /\ LiveSlot = Lives(entries) /\ frn_map \in [Frn -> Nat]
      /\ Slot' = DOMAIN entries' /\ LiveSlot' = Lives(entries')
  BY TableFacts DEF SlotInv, SlotTypeOK, FrnMapExact, Mapped, Lives, LiveSlot, Slot, Known
<1>2. LiveSlot' = LiveSlot \cup {s}
  BY <1>1 DEF Registers, Lives
<1>3. s \in Nat /\ s # 0
  BY TableFacts DEF Registers
<1> QED
  BY <1>1, <1>2, <1>3 DEF Registers

LEMMA RegisterKeepsDepths ==
  ASSUME SlotInv, SlotInv', DirsNamed, NEW f \in Frn, NEW p \in Parent, NEW s,
         Registers(f, p, s), Quiet(f, p)
  PROVE  \A t \in LiveSlot \ {s} : TrueDepth(Up', t) = TrueDepth(Up, t)
<1> DEFINE L == LiveSlot \ {s}
           n == Len(entries)
           m == Len(entries')
<1>1. /\ entries \in Seq(Entry) /\ frn_map \in [Frn -> Nat] /\ Mapped(entries, frn_map)
      /\ Slot = DOMAIN entries /\ LiveSlot = Lives(entries) /\ LiveSlot \subseteq 1..n
      /\ Slot = 1..n /\ n \in Nat
  BY TableFacts DEF Slot
<1>2. /\ entries' \in Seq(Entry) /\ frn_map' \in [Frn -> Nat] /\ Mapped(entries', frn_map')
      /\ m \in Nat /\ DOMAIN entries' = 1..m
  BY DEF SlotInv, SlotTypeOK, FrnMapExact, Mapped, Lives, LiveSlot, Slot, Known
<1>3. /\ LiveSlot' = LiveSlot \cup {s} /\ DOMAIN entries' = Slot \cup {s}
      /\ frn_map'[f] = s /\ \A g \in Frn \ {f} : frn_map'[g] = frn_map[g]
  BY RegisterShape
<1>4. \A t \in Slot : t # s => entries'[t] = entries[t]
  BY DEF Registers
<1>5. Up' = UpLinks(entries', frn_map')
  BY DEF Up
<1>6. CASE Known(f) /\ f \in DirFrn
  <2>1. s = frn_map[f] /\ s \in LiveSlot /\ entries[s].frn = f /\ entries'[s].parent = p
    BY <1>1, <1>6 DEF Registers, Known, Mapped
  <2>2. entries[s].parent = p
    BY <1>6, <2>1 DEF DirsNamed, Quiet, Reparents
  <2>3. DOMAIN entries' = DOMAIN entries
    BY <1>1, <1>3, <2>1
  <2>4. \A t \in DOMAIN entries : entries'[t].parent = entries[t].parent
    BY <1>1, <1>4, <2>1, <2>2
  <2>5. \A g \in Frn : frn_map'[g] = frn_map[g]
    BY <1>3, <2>1
  <2>6. UpLinks(entries', frn_map') = UpLinks(entries, frn_map)
    BY <2>3, <2>4, <2>5 DEF UpLinks
  <2> QED
    BY <1>5, <2>6 DEF Up
<1>7. CASE ~Known(f) \/ f \notin DirFrn
  <2>1. ASSUME NEW t \in L
        PROVE  entries'[t] = entries[t] /\ t \in Slot /\ entries[t].parent # f
               /\ (entries[t].parent \in Frn => /\ frn_map'[entries[t].parent] = frn_map[entries[t].parent]
                                                /\ frn_map[entries[t].parent] # s)
    <3>1. t \in Slot /\ entries'[t] = entries[t]
      BY <1>1, <1>4
    <3>2. entries[t].parent # f
      <4>1. CASE Known(f)
        BY <1>7, <3>1, <4>1, ParentFacts
      <4>2. CASE ~Known(f)
        BY <2>1, <4>2 DEF Quiet
      <4> QED
        BY <4>1, <4>2
    <3>3. ASSUME entries[t].parent \in Frn, frn_map[entries[t].parent] = s PROVE FALSE
      <4>1. s # 0
        BY RegisterShape
      <4>2. s \in LiveSlot /\ entries[s].frn = entries[t].parent
        BY <1>1, <3>3, <4>1 DEF Mapped
      <4>3. Known(f) /\ s = frn_map[f]
        BY <4>2 DEF Registers
      <4>4. entries[s].frn = f
        BY <1>1, <4>1, <4>3 DEF Mapped
      <4> QED
        BY <3>2, <4>2, <4>4
    <3> QED
      BY <1>3, <3>1, <3>2, <3>3
  <2>2. ASSUME NEW t \in L
        PROVE  /\ UpLinks(entries', frn_map')[t] = UpLinks(entries, frn_map)[t]
               /\ UpLinks(entries, frn_map)[t] # 0 => UpLinks(entries, frn_map)[t] \in L
    <3> DEFINE q == entries[t].parent
    <3>1. t \in DOMAIN entries /\ t \in DOMAIN entries' /\ entries'[t].parent = q
          /\ (q \in Frn => frn_map'[q] = frn_map[q] /\ frn_map[q] # s)
      BY <1>1, <1>3, <2>1
    <3> HIDE DEF q
    <3>2. UpLinks(entries', frn_map')[t] = UpLinks(entries, frn_map)[t]
      BY <3>1 DEF UpLinks, q
    <3>3. ASSUME UpLinks(entries, frn_map)[t] # 0 PROVE UpLinks(entries, frn_map)[t] \in L
      <4>1. q \in Frn /\ UpLinks(entries, frn_map)[t] = frn_map[q] /\ frn_map[q] # 0
        BY <3>1, <3>3 DEF UpLinks, q
      <4>2. frn_map[q] \in LiveSlot
        BY <1>1, <4>1 DEF Mapped
      <4> QED
        BY <3>1, <4>1, <4>2
    <3> QED
      BY <3>2, <3>3
  <2>3. UpLinks(entries, frn_map) \in Links(n) /\ UpLinks(entries', frn_map') \in Links(m)
    BY <1>1, <1>2, UpFacts
  <2>4. L \in SUBSET (1..n) /\ L \subseteq 1..m
    BY <1>1, <1>2, <1>3
  <2> DEFINE up == UpLinks(entries, frn_map)
             ahead == UpLinks(entries', frn_map')
  <2>5. /\ up \in Links(n) /\ ahead \in Links(m) /\ n \in Nat /\ m \in Nat
        /\ \A t \in L : ahead[t] = up[t] /\ (up[t] # 0 => up[t] \in L)
    BY <1>1, <1>2, <2>2, <2>3
  <2> HIDE DEF L, n, m, up, ahead
  <2>6. ASSUME NEW t \in L PROVE TrueDepth(ahead, t) = TrueDepth(up, t)
    BY <2>4, <2>5, DepthAgrees
  <2> QED
    BY <1>5, <2>6 DEF Up, L, up, ahead
<1> QED
  BY <1>6, <1>7

\* A registered slot is cached one deeper than its parent, wherever the handler put it.
LEMMA RegisterRanks ==
  ASSUME SlotInv, SlotInv', DirsNamed, rank \in Seq(0..MaxDepth), Len(rank) = Len(entries),
         NEW f \in Frn, NEW p \in Parent, NEW s, Registers(f, p, s), p # f
  PROVE  /\ rank' \in Seq(0..MaxDepth) /\ Len(rank') = Len(entries')
         /\ \A t \in LiveSlot \ {s} : rank'[t] = rank[t]
         /\ Quiet(f, p) /\ (\A t \in LiveSlot : Exact(t)) => \A t \in LiveSlot' : Exact(t)'
<1> DEFINE d == RegisterDepth(s, f, p)
           n == Len(entries)
           up == UpLinks(entries', frn_map')
<1>1. /\ entries \in Seq(Entry) /\ frn_map \in [Frn -> Nat] /\ Mapped(entries, frn_map)
      /\ LiveSlot = Lives(entries) /\ LiveSlot \subseteq 1..n /\ Slot = 1..n /\ n \in Nat
  BY TableFacts DEF Slot
<1>2. /\ entries' \in Seq(Entry) /\ frn_map' \in [Frn -> Nat] /\ Mapped(entries', frn_map')
      /\ Len(entries') \in Nat /\ DOMAIN entries' = 1..Len(entries')
  BY DEF SlotInv, SlotTypeOK, FrnMapExact, Mapped, Lives, LiveSlot, Slot, Known
<1>3. /\ LiveSlot' = LiveSlot \cup {s} /\ DOMAIN entries' = Slot \cup {s}
      /\ frn_map'[f] = s /\ \A g \in Frn \ {f} : frn_map'[g] = frn_map[g]
      /\ s \in Nat /\ s # 0
  BY RegisterShape
<1>4. s \in 1..(n + 1) /\ entries'[s].parent = p /\ rank' = SetRank(s, d)
  BY DEF Registers
<1>5. MaxDepth \in Nat /\ \A t \in 1..n : rank[t] \in 0..MaxDepth
  BY DepthAssumption
<1>6. d \in 0..MaxDepth
  <2>1. ASSUME p \in Frn \ {f}, frn_map[p] \notin {0, s} PROVE rank[frn_map[p]] \in 0..MaxDepth
    BY <1>1, <1>5, <2>1 DEF Mapped
  <2> QED
    BY <1>5, <2>1 DEF RegisterDepth, Clamp
<1> HIDE DEF d
<1>7. /\ rank' \in Seq(0..MaxDepth) /\ rank'[s] = d
      /\ \A t \in 1..n : t # s => rank'[t] = rank[t]
      /\ 1..Len(rank') = (1..n) \cup {s} /\ Len(rank') \in Nat
  <2>1. CASE s = Len(rank) + 1
    BY <1>1, <1>6, <1>4, <2>1 DEF SetRank
  <2>2. CASE s # Len(rank) + 1
    <3>1. rank' = [rank EXCEPT ![s] = d] /\ s \in 1..n /\ DOMAIN rank = 1..n
      BY <1>1, <1>4, <2>2 DEF SetRank
    <3> QED
      BY <1>1, <1>6, <3>1
  <2> QED
    BY <2>1, <2>2
<1>8. Len(rank') = Len(entries')
  <2>1. 1..Len(rank') = 1..Len(entries')
    BY <1>1, <1>2, <1>3, <1>7
  <2> QED
    BY <1>2, <1>7, <2>1
<1>9. \A t \in LiveSlot \ {s} : rank'[t] = rank[t]
  BY <1>1, <1>7
<1>10. ASSUME Quiet(f, p), \A t \in LiveSlot : Exact(t) PROVE \A t \in LiveSlot' : Exact(t)'
  <2>1. \A t \in LiveSlot \ {s} : rank'[t] = TrueDepth(up, t)
    <3>1. \A t \in LiveSlot \ {s} : TrueDepth(up, t) = TrueDepth(Up, t)
      BY <1>10, RegisterKeepsDepths DEF Up
    <3> HIDE DEF up
    <3> QED
      BY <1>9, <1>10, <3>1 DEF Exact
  <2>2. /\ up \in Links(Len(entries')) /\ s \in 1..Len(entries')
        /\ up[s] # 0 => up[s] \in LiveSlot \ {s}
    <3>1. s \in DOMAIN entries' /\ LiveSlot' = Lives(entries')
      BY <1>2, <1>3 DEF Lives, LiveSlot, Slot
    <3>2. /\ up \in Links(Len(entries')) /\ Rooted(Len(entries'), up, Lives(entries'))
          /\ up[s] # s
      BY <1>2, <3>1, UpFacts
    <3> HIDE DEF up
    <3> QED
      BY <1>2, <1>3, <3>1, <3>2 DEF Rooted
  <2>3. d = IF up[s] = 0 THEN 0 ELSE Clamp(rank[up[s]] + 1)
    <3>1. s \in DOMAIN entries' /\ (p \in Frn => frn_map'[p] = frn_map[p])
      BY <1>3
    <3>2. up[s] = IF p \in Frn THEN (IF frn_map[p] # s THEN frn_map[p] ELSE 0) ELSE 0
      BY <1>4, <3>1 DEF UpLinks
    <3> HIDE DEF up
    <3> QED
      BY <3>2 DEF d, RegisterDepth
  <2> HIDE DEF up
  <2>4. TrueDepth(up, s) = IF up[s] = 0 THEN 0 ELSE Clamp(TrueDepth(up, up[s]) + 1)
    BY <1>2, <2>2, DepthOfParent
  <2>5. up[s] # 0 => rank[up[s]] = TrueDepth(up, up[s])
    BY <1>9, <2>1, <2>2
  <2>6. rank'[s] = TrueDepth(up, s)
    BY <1>7, <2>3, <2>4, <2>5
  <2> QED
    BY <1>3, <2>1, <2>6 DEF Exact, Up, up
<1> QED
  BY <1>7, <1>8, <1>9, <1>10

-----------------------------------------------------------------------------
(* The invariant through every step.                                       *)

\* What registering does to the repair.
Adjusts(f, p, s) ==
  /\ settled' = settled /\ (Known(f) => settled)
  /\ Reparents(f, p) => armed' = TRUE /\ cursor' = 0 /\ swept' = {}
  /\ ~Reparents(f, p) =>
       /\ armed' = armed /\ swept' = swept
       /\ cursor' = cursor \/ (cursor' = s - 1 /\ s <= cursor)
       /\ ~Known(f) /\ armed /\ s <= cursor => cursor' = s - 1
  /\ Noted(Disturbs(f, p))
  /\ ~Known(f) => s = SlotFor(f)

LEMMA FollowFacts ==
  ASSUME DepthInv, NEW f \in Frn, NEW p \in Parent, NEW n \in Name, Follow(f, p, n)
  PROVE  SlotInv' /\ \E s : Registers(f, p, s) /\ Adjusts(f, p, s)
<1>1. SlotInv /\ DirsNamed /\ Len(rank) = Len(entries) /\ Noted(Disturbs(f, p))
  BY DEF DepthInv, RepairedDepths, DepthTypeOK, Follow
<1>2. ASSUME DepthAdd(f, p, n), Known(f) => settled
      PROVE  SlotInv' /\ \E s : Registers(f, p, s) /\ Adjusts(f, p, s)
  <2>1. SlotInv'
    BY <1>1, <1>2, AddKeepsInv DEF DepthAdd
  <2>2. Registers(f, p, SlotFor(f))
    BY <1>1, <1>2, AddRegisters
  <2>3. Adjusts(f, p, SlotFor(f))
    BY <1>1, <1>2 DEF DepthAdd, Adjusts, Arm
  <2> QED
    BY <2>1, <2>2, <2>3
<1>3. ASSUME ApplyRename(f, p, n)
      PROVE  SlotInv' /\ \E s : Registers(f, p, s) /\ Adjusts(f, p, s)
  <2>1. SlotInv' /\ Known(f)
    BY <1>1, <1>3, RenameKeepsInv DEF ApplyRename, SlotRename
  <2>2. Registers(f, p, frn_map[f])
    BY <1>1, <1>3, RenameRegisters
  <2>3. Adjusts(f, p, frn_map[f])
    BY <1>1, <1>3, <2>1 DEF ApplyRename, Adjusts, Arm, repairVars
  <2> QED
    BY <2>1, <2>2, <2>3
<1> QED
  BY <1>2, <1>3 DEF Follow, BulkAdd, ApplyCreate

\* Only a step that starts over forgets what disturbed the repair.
LEMMA NotedFacts ==
  ASSUME NEW d, Noted(d), ~disturbed'
  PROVE  (~disturbed /\ ~d) \/ StartsOver
BY DEF Noted

LEMMA FollowStep ==
  ASSUME DepthInv, NEW f \in Frn, NEW p \in Parent, NEW n \in Name, Follow(f, p, n)
  PROVE  DepthInv'
<1>1. SlotInv' /\ \E s : Registers(f, p, s) /\ Adjusts(f, p, s)
  BY FollowFacts
<1>2. PICK s : Registers(f, p, s) /\ Adjusts(f, p, s)
  BY <1>1
<1>3. /\ SlotInv /\ DirsNamed /\ rank \in Seq(0..MaxDepth) /\ Len(rank) = Len(entries)
      /\ settled \in BOOLEAN /\ armed \in BOOLEAN /\ cursor \in 0..Len(entries) /\ swept \subseteq Slot
      /\ NothingSkipped /\ (~disturbed => SettledDepths /\ MarksAreExact)
      /\ (~armed => cursor = 0 /\ swept = {}) /\ (~settled => ~armed) /\ p # f
  BY DEF DepthInv, RepairedDepths, DepthTypeOK, Follow
<1>4. /\ LiveSlot' = LiveSlot \cup {s} /\ Slot' = Slot \cup {s} /\ s \in Nat /\ s # 0
      /\ LiveSlot \subseteq Slot
  BY <1>1, <1>2, <1>3, RegisterShape DEF Registers, LiveSlot
<1>5. /\ rank' \in Seq(0..MaxDepth) /\ Len(rank') = Len(entries')
      /\ \A t \in LiveSlot \ {s} : rank'[t] = rank[t]
      /\ Quiet(f, p) /\ (\A t \in LiveSlot : Exact(t)) => \A t \in LiveSlot' : Exact(t)'
  BY <1>1, <1>2, <1>3, RegisterRanks
<1>6. /\ Len(entries) \in Nat /\ Len(entries') \in Nat /\ Slot = 1..Len(entries)
      /\ Slot' = 1..Len(entries')
  BY <1>1, <1>3 DEF SlotInv, SlotTypeOK, Slot
<1>7. Len(entries) <= Len(entries')
  BY <1>4, <1>6
<1>8. /\ settled' = settled /\ (Known(f) => settled)
      /\ Reparents(f, p) => armed' = TRUE /\ cursor' = 0 /\ swept' = {}
      /\ ~Reparents(f, p) =>
           /\ armed' = armed /\ swept' = swept
           /\ cursor' = cursor \/ (cursor' = s - 1 /\ s <= cursor)
           /\ ~Known(f) /\ armed /\ s <= cursor => cursor' = s - 1
  BY <1>2 DEF Adjusts
<1>9. DirsNamed'
  <2>1. \A t \in LiveSlot \ {s} : entries'[t] = entries[t]
    BY <1>2, <1>4 DEF Registers
  <2>2. entries'[s].frn = f /\ (f \in DirFrn => entries'[s].dir)
    BY <1>2 DEF Registers
  <2> QED
    BY <1>3, <1>4, <2>1, <2>2 DEF DirsNamed
<1>10. DepthTypeOK'
  <2>1. cursor' \in 0..Len(entries')
    BY <1>3, <1>4, <1>6, <1>7, <1>8
  <2>2. swept' \subseteq Slot'
    BY <1>3, <1>4, <1>8
  <2>3. settled' \in BOOLEAN /\ armed' \in BOOLEAN
    BY <1>3, <1>8
  <2>4. SlotTypeOK'
    BY <1>1 DEF SlotInv
  <2> QED
    BY <1>5, <2>1, <2>2, <2>3, <2>4 DEF DepthTypeOK
<1>11. NothingSkipped'
  <2> SUFFICES ASSUME armed', NEW t \in LiveSlot', t <= cursor' PROVE t \in swept'
    BY DEF NothingSkipped
  <2>1. ~Reparents(f, p)
    BY <1>4, <1>6, <1>8
  <2>2. t <= cursor /\ t \in Nat /\ armed
    BY <1>3, <1>4, <1>6, <1>8, <2>1
  <2>3. t \in LiveSlot
    <3>1. CASE t # s
      BY <1>4, <3>1
    <3>2. CASE t = s /\ Known(f)
      BY <1>2, <1>3, <3>2, TableFacts DEF Registers, Known, Mapped
    <3>3. CASE t = s /\ ~Known(f)
      BY <1>3, <1>4, <1>8, <2>1, <2>2, <3>3
    <3> QED
      BY <3>1, <3>2, <3>3
  <2> QED
    BY <1>3, <1>8, <2>1, <2>2, <2>3 DEF NothingSkipped
<1>12. ASSUME ~disturbed' PROVE SettledDepths' /\ MarksAreExact'
  <2>1. (~disturbed /\ ~Disturbs(f, p)) \/ StartsOver
    BY <1>2, <1>12, NotedFacts DEF Adjusts
  <2>2. CASE StartsOver
    BY <1>8, <2>2 DEF StartsOver, SettledDepths, MarksAreExact
  <2>3. CASE ~settled
    BY <1>3, <1>8, <2>3 DEF SettledDepths, MarksAreExact, Reparents
  <2>4. CASE Reparents(f, p)
    BY <1>8, <2>4 DEF SettledDepths, MarksAreExact
  <2>5. CASE ~disturbed /\ ~Disturbs(f, p) /\ settled /\ ~Reparents(f, p)
    <3>1. Quiet(f, p)
      BY <2>5 DEF Quiet, Disturbs, Adopts
    <3>2. CASE ~armed
      <4>1. \A t \in LiveSlot : Exact(t)
        BY <1>3, <2>5, <3>2 DEF SettledDepths
      <4>2. \A t \in LiveSlot' : Exact(t)'
        BY <1>5, <3>1, <4>1
      <4> QED
        BY <1>8, <2>5, <3>2, <4>2 DEF SettledDepths, MarksAreExact
    <3>3. CASE armed
      <4>1. s \notin swept
        <5>1. CASE Known(f)
          BY <1>2, <2>5, <5>1 DEF Registers, Disturbs, MovesSwept
        <5>2. CASE ~Known(f) /\ Recycles(f)
          BY <1>2, <2>5, <5>2 DEF Adjusts, Disturbs, RecyclesSwept
        <5>3. CASE ~Known(f) /\ ~Recycles(f)
          BY <1>2, <1>3, <1>6, <5>3, SlotForFacts DEF Adjusts
        <5> QED
          BY <5>1, <5>2, <5>3
      <4>2. \A t \in LiveSlot \ {s} : TrueDepth(Up', t) = TrueDepth(Up, t)
        BY <1>1, <1>2, <1>3, <3>1, RegisterKeepsDepths
      <4>3. ASSUME NEW t \in swept' \cap LiveSlot' PROVE Exact(t)'
        <5>1. t \in swept \cap LiveSlot /\ t \in LiveSlot \ {s}
          BY <1>4, <1>8, <2>5, <4>1
        <5>2. Exact(t)
          BY <1>3, <2>5, <3>3, <5>1 DEF MarksAreExact
        <5> QED
          BY <1>5, <4>2, <5>1, <5>2 DEF Exact
      <4> QED
        BY <1>8, <2>5, <3>3, <4>3 DEF SettledDepths, MarksAreExact
    <3> QED
      BY <3>2, <3>3
  <2> QED
    BY <2>1, <2>2, <2>3, <2>4, <2>5
<1>13. (~armed' => cursor' = 0 /\ swept' = {}) /\ (~settled' => ~armed')
  BY <1>3, <1>4, <1>8 DEF Reparents
<1> QED
  BY <1>1, <1>9, <1>10, <1>11, <1>12, <1>13 DEF DepthInv, RepairedDepths

\* A deleted file was nobody's parent; a deleted directory starts the repair over.
LEMMA DeleteStep ==
  ASSUME DepthInv, NEW f \in Frn, ApplyDelete(f), Noted(FALSE)
  PROVE  DepthInv'
<1> DEFINE s == frn_map[f]
           n == Len(entries)
<1>1. /\ SlotInv /\ DirsNamed /\ rank \in Seq(0..MaxDepth) /\ Len(rank) = Len(entries)
      /\ settled \in BOOLEAN /\ armed \in BOOLEAN /\ cursor \in 0..n /\ swept \subseteq Slot
      /\ NothingSkipped /\ (~disturbed => SettledDepths /\ MarksAreExact)
      /\ (~armed => cursor = 0 /\ swept = {}) /\ (~settled => ~armed)
  BY DEF DepthInv, RepairedDepths, DepthTypeOK
<1>2. /\ Known(f) /\ SlotRemove(f) /\ settled /\ settled' = settled
      /\ rank' = [rank EXCEPT ![s] = MaxDepth]
      /\ entries[s].dir => armed' = TRUE /\ cursor' = 0 /\ swept' = {}
      /\ ~entries[s].dir => armed' = armed /\ cursor' = cursor /\ swept' = swept
  BY DEF ApplyDelete, SlotRemove, Arm, repairVars
<1>3. SlotInv'
  BY <1>1, <1>2, RemoveKeepsInv
<1>4. /\ entries \in Seq(Entry) /\ frn_map \in [Frn -> Nat] /\ Mapped(entries, frn_map)
      /\ Slot = DOMAIN entries /\ LiveSlot = Lives(entries) /\ n \in Nat
      /\ LiveSlot \subseteq 1..n /\ Slot = 1..n
  BY <1>1, TableFacts DEF Slot
<1>5. s \in LiveSlot /\ entries[s].frn = f /\ s \in 1..n
  BY <1>2, <1>4 DEF Known, Mapped
<1>6. /\ entries' = [entries EXCEPT ![s] = Tombstone(entries[s])]
      /\ frn_map' = [frn_map EXCEPT ![f] = 0]
  BY <1>2 DEF SlotRemove
<1>7. /\ entries'[s].dead /\ \A t \in Slot : t # s => entries'[t] = entries[t]
      /\ Len(entries') = n /\ Slot' = Slot
  <2>1. Tombstone(entries[s]).dead = TRUE
    BY DEF Tombstone
  <2> QED
    BY <1>4, <1>5, <1>6, <2>1 DEF Slot
<1>8. LiveSlot' = LiveSlot \ {s}
  BY <1>5, <1>7 DEF LiveSlot
<1>9. rank' \in Seq(0..MaxDepth) /\ Len(rank') = n /\ \A t \in LiveSlot' : rank'[t] = rank[t]
  <2>1. MaxDepth \in 0..MaxDepth
    BY DepthAssumption
  <2> HIDE DEF s
  <2> QED
    BY <1>1, <1>2, <1>4, <1>5, <1>8, <2>1
<1>10. DirsNamed'
  BY <1>1, <1>4, <1>7, <1>8 DEF DirsNamed
<1>11. DepthTypeOK'
  <2>1. cursor' \in 0..Len(entries') /\ swept' \subseteq Slot'
    BY <1>1, <1>2, <1>4, <1>7
  <2>2. SlotTypeOK' /\ settled' \in BOOLEAN /\ armed' \in BOOLEAN
    BY <1>1, <1>2, <1>3 DEF SlotInv
  <2> QED
    BY <1>7, <1>9, <2>1, <2>2 DEF DepthTypeOK
<1>12. NothingSkipped'
  <2> SUFFICES ASSUME armed', NEW t \in LiveSlot', t <= cursor' PROVE t \in swept'
    BY DEF NothingSkipped
  <2>1. t \in LiveSlot /\ t \in 1..n
    BY <1>4, <1>8
  <2>2. ~entries[s].dir
    BY <1>2, <2>1
  <2> QED
    BY <1>1, <1>2, <2>1, <2>2 DEF NothingSkipped
<1>13. ASSUME ~entries[s].dir PROVE \A t \in LiveSlot' : TrueDepth(Up', t) = TrueDepth(Up, t)
  <2> DEFINE up == UpLinks(entries, frn_map)
             ahead == UpLinks(entries', frn_map')
             L == LiveSlot'
  <2>1. /\ entries' \in Seq(Entry) /\ frn_map' \in [Frn -> Nat] /\ Mapped(entries', frn_map')
    BY <1>3 DEF SlotInv, SlotTypeOK, FrnMapExact, Mapped, Lives, LiveSlot, Slot, Known
  <2>2. ASSUME NEW t \in L PROVE ahead[t] = up[t] /\ (up[t] # 0 => up[t] \in L)
    <3> DEFINE q == entries[t].parent
    <3>1. t \in Slot /\ t # s /\ entries'[t] = entries[t] /\ t \in DOMAIN entries'
      BY <1>4, <1>7, <1>8, <2>1 DEF Slot
    <3>2. f \notin DirFrn /\ q # f
      BY <1>1, <1>5, <1>13, <3>1, ParentFacts DEF DirsNamed
    <3>3. q \in Frn => frn_map'[q] = frn_map[q]
      BY <1>4, <1>6, <3>2
    <3>4. ahead[t] = up[t]
      BY <1>4, <3>1, <3>3 DEF UpLinks
    <3>5. ASSUME up[t] # 0 PROVE up[t] \in L
      <4>1. q \in Frn /\ up[t] = frn_map[q] /\ frn_map[q] # 0
        BY <1>4, <3>1, <3>5 DEF UpLinks
      <4>2. frn_map[q] \in LiveSlot /\ entries[frn_map[q]].frn = q
        BY <1>4, <4>1 DEF Mapped
      <4> QED
        BY <1>5, <1>8, <3>2, <4>1, <4>2
    <3> QED
      BY <3>4, <3>5
  <2>3. up \in Links(n) /\ ahead \in Links(n)
    BY <1>4, <1>7, <2>1, UpFacts
  <2>4. L \in SUBSET (1..n) /\ L \subseteq 1..n
    BY <1>4, <1>8
  <2> HIDE DEF L, n, up, ahead
  <2>5. ASSUME NEW t \in L PROVE TrueDepth(ahead, t) = TrueDepth(up, t)
    BY <1>4, <2>2, <2>3, <2>4, DepthAgrees
  <2> QED
    BY <2>5 DEF Up, L, up, ahead
<1>14. ASSUME ~disturbed' PROVE SettledDepths' /\ MarksAreExact'
  <2>1. ~disturbed \/ StartsOver
    BY <1>14, NotedFacts
  <2>2. CASE StartsOver
    BY <1>2, <2>2 DEF StartsOver, SettledDepths, MarksAreExact
  <2>3. CASE entries[s].dir
    BY <1>2, <2>3 DEF SettledDepths, MarksAreExact
  <2>4. CASE ~disturbed /\ ~entries[s].dir
    <3>1. ASSUME NEW t \in LiveSlot', Exact(t) PROVE Exact(t)'
      BY <1>9, <1>13, <2>4, <3>1 DEF Exact
    <3>2. SettledDepths'
      BY <1>1, <1>2, <1>8, <2>4, <3>1 DEF SettledDepths
    <3>3. MarksAreExact'
      BY <1>1, <1>2, <1>8, <2>4, <3>1 DEF MarksAreExact
    <3> QED
      BY <3>2, <3>3
  <2> QED
    BY <2>1, <2>2, <2>3, <2>4
<1>15. (~armed' => cursor' = 0 /\ swept' = {}) /\ (~settled' => ~armed')
  BY <1>1, <1>2
<1> QED
  BY <1>3, <1>10, <1>11, <1>12, <1>14, <1>15 DEF DepthInv, RepairedDepths

\* A column of n depths, as a sequence and as a function.
LEMMA ColumnForms ==
  ASSUME NEW S, NEW n \in Nat
  PROVE  /\ \A col \in Seq(S) : Len(col) = n => col \in [1..n -> S]
         /\ \A col \in [1..n -> S] : col \in Seq(S) /\ Len(col) = n
OBVIOUS

\* A full sweep gives every live slot its depth.
LEMMA FullSweepFacts ==
  ASSUME NEW es \in Seq(Entry), NEW map \in [Frn -> Nat], Mapped(es, map),
         NEW rk \in [1..Len(es) -> 0..MaxDepth]
  PROVE  /\ FullSweep(es, map, rk) \in [1..Len(es) -> 0..MaxDepth]
         /\ \A s \in Lives(es) : FullSweep(es, map, rk)[s] = TrueDepth(UpLinks(es, map), s)
<1> DEFINE up == UpLinks(es, map)
           live == Lives(es)
           n == Len(es)
           st == [rank |-> rk, done |-> {}]
           new == Sweep(up, live, 1, n, st)
<1>1. up \in Links(n) /\ Rooted(n, up, live) /\ n \in Nat
  BY UpFacts
<1>2. st \in SweepState(n) /\ st.done = {}
  BY DEF SweepState
<1>3. FullSweep(es, map, rk) = new.rank
  BY DEF FullSweep, Lives
<1>4. live \subseteq 1..n
  BY DEF Lives
<1>5. Right(up, live, st)
  BY <1>2 DEF Right
<1> HIDE DEF up, live, n, st
<1>6. 1 \in Nat /\ 1 > 0 /\ 1 <= n + 1 /\ n <= n
  BY <1>1
<1>7. new \in SweepState(n) /\ live \cap (1..n) \subseteq new.done /\ Right(up, live, new)
  BY <1>1, <1>2, <1>5, <1>6, SweepFacts
<1> HIDE DEF new
<1>8. new.rank \in [1..n -> 0..MaxDepth] /\ \A s \in live : new.rank[s] = TrueDepth(up, s)
  BY <1>4, <1>7 DEF SweepState, Right
<1> QED
  BY <1>3, <1>8 DEF up, live, n

LEMMA FinalizeStep ==
  ASSUME DepthInv, Finalize
  PROVE  DepthInv'
<1>1. /\ SlotInv /\ DirsNamed /\ rank \in Seq(0..MaxDepth) /\ Len(rank) = Len(entries)
      /\ settled' = TRUE /\ armed' = FALSE /\ cursor' = 0 /\ swept' = {}
      /\ rank' = FullSweep(entries, frn_map, rank) /\ UNCHANGED slotVars
  BY DEF DepthInv, RepairedDepths, DepthTypeOK, Finalize, Disarm
<1>2. /\ entries \in Seq(Entry) /\ frn_map \in [Frn -> Nat] /\ Mapped(entries, frn_map)
      /\ LiveSlot = Lives(entries) /\ Len(entries) \in Nat
  BY <1>1, TableFacts
<1>3. rank \in [1..Len(entries) -> 0..MaxDepth]
  BY <1>1, <1>2, ColumnForms
<1>4. /\ rank' \in [1..Len(entries) -> 0..MaxDepth]
      /\ \A s \in LiveSlot : rank'[s] = TrueDepth(Up, s)
  BY <1>1, <1>2, <1>3, FullSweepFacts DEF Up
<1>5. rank' \in Seq(0..MaxDepth) /\ Len(rank') = Len(entries)
  BY <1>2, <1>4, ColumnForms
<1>6. entries' = entries /\ frn_map' = frn_map /\ LiveSlot' = LiveSlot /\ Slot' = Slot /\ Up' = Up
      /\ SlotInv' /\ SlotTypeOK' /\ DirsNamed'
  BY <1>1 DEF slotVars, LiveSlot, Slot, Up, SlotInv, SlotTypeOK, FrnMapExact, FreelistExact,
              LiveCountExact, Known, DirsNamed
<1>7. DepthTypeOK' /\ NothingSkipped'
  <2>1. cursor' \in 0..Len(entries') /\ swept' \subseteq Slot'
    BY <1>1, <1>2, <1>6
  <2>2. settled' \in BOOLEAN /\ armed' \in BOOLEAN /\ ~armed'
    BY <1>1
  <2>3. rank' \in Seq(0..MaxDepth) /\ Len(rank') = Len(entries') /\ SlotTypeOK'
    BY <1>5, <1>6
  <2> QED
    BY <2>1, <2>2, <2>3 DEF DepthTypeOK, NothingSkipped
<1>8. SettledDepths' /\ MarksAreExact'
  BY <1>1, <1>4, <1>6 DEF SettledDepths, MarksAreExact, Exact
<1> QED
  BY <1>1, <1>6, <1>7, <1>8 DEF DepthInv, RepairedDepths

LEMMA CompactStep ==
  ASSUME DepthInv, NEW keep \in Renumbering, Compact(keep)
  PROVE  DepthInv'
<1> DEFINE rk == [i \in DOMAIN keep |-> rank[keep[i]]]
<1>1. /\ SlotInv /\ DirsNamed /\ rank \in Seq(0..MaxDepth) /\ Len(rank) = Len(entries)
      /\ SlotCompact(keep) /\ settled' = settled /\ settled /\ settled \in BOOLEAN
      /\ armed' = FALSE /\ cursor' = 0 /\ swept' = {}
      /\ rank' = FullSweep(entries', frn_map', rk)
  BY DEF DepthInv, RepairedDepths, DepthTypeOK, Compact, Disarm
<1>2. SlotInv'
  BY <1>1, CompactKeepsInv
<1>3. PICK m \in Nat : /\ keep \in [1..m -> LiveSlot] /\ Slot' = 1..m
                       /\ \A i \in 1..m : entries'[i] = entries[keep[i]]
  BY <1>1, CompactFacts
<1>4. /\ entries' \in Seq(Entry) /\ frn_map' \in [Frn -> Nat] /\ Mapped(entries', frn_map')
      /\ LiveSlot' = Lives(entries') /\ Len(entries') \in Nat /\ Slot' = 1..Len(entries')
      /\ LiveSlot' \subseteq Slot'
  BY <1>2 DEF SlotInv, SlotTypeOK, FrnMapExact, Mapped, Lives, LiveSlot, Slot, Known
<1>5. rk \in [1..Len(entries') -> 0..MaxDepth]
  <2>1. LiveSlot \subseteq 1..Len(entries) /\ Len(entries) \in Nat
    BY <1>1, TableFacts
  <2>4. rank \in [1..Len(entries) -> 0..MaxDepth]
    BY <1>1, <2>1, ColumnForms
  <2>2. \A i \in 1..m : rank[keep[i]] \in 0..MaxDepth
    BY <1>3, <2>1, <2>4
  <2>3. 1..m = 1..Len(entries')
    BY <1>3, <1>4
  <2> QED
    BY <1>3, <2>2, <2>3
<1> HIDE DEF rk
<1>6. /\ rank' \in [1..Len(entries') -> 0..MaxDepth]
      /\ \A s \in LiveSlot' : rank'[s] = TrueDepth(UpLinks(entries', frn_map'), s)
  BY <1>1, <1>4, <1>5, FullSweepFacts
<1>7. rank' \in Seq(0..MaxDepth) /\ Len(rank') = Len(entries')
  BY <1>4, <1>6, ColumnForms
<1>8. DirsNamed'
  BY <1>1, <1>3, <1>4 DEF DirsNamed
<1>9. DepthTypeOK' /\ NothingSkipped'
  <2>1. cursor' \in 0..Len(entries') /\ swept' \subseteq Slot'
    BY <1>1, <1>4
  <2>2. settled' \in BOOLEAN /\ armed' \in BOOLEAN /\ ~armed'
    BY <1>1
  <2>3. SlotTypeOK'
    BY <1>2 DEF SlotInv
  <2> QED
    BY <1>7, <2>1, <2>2, <2>3 DEF DepthTypeOK, NothingSkipped
<1>10. SettledDepths' /\ MarksAreExact'
  BY <1>1, <1>6 DEF SettledDepths, MarksAreExact, Exact, Up
<1> QED
  BY <1>1, <1>2, <1>8, <1>9, <1>10 DEF DepthInv, RepairedDepths

\* A slice keeps every mark right, and the last one leaves none to be made.
LEMMA SliceStep ==
  ASSUME DepthInv, RepairSlice, disturbed' = disturbed
  PROVE  DepthInv'
<1> DEFINE n == Len(entries)
           end == IF cursor + SliceSize < n THEN cursor + SliceSize ELSE n
           st == [rank |-> rank, done |-> swept]
           lo == cursor + 1
           new == Sweep(Up, LiveSlot, lo, end, st)
<1>1. /\ SlotInv /\ DirsNamed /\ rank \in Seq(0..MaxDepth) /\ Len(rank) = n
      /\ settled \in BOOLEAN /\ cursor \in 0..n /\ swept \subseteq Slot
      /\ NothingSkipped /\ (~disturbed => SettledDepths /\ MarksAreExact) /\ (~settled => ~armed)
  BY DEF DepthInv, RepairedDepths, DepthTypeOK
<1>2. /\ armed /\ rank' = new.rank /\ settled' = settled /\ UNCHANGED slotVars
      /\ end < n => cursor' = end /\ swept' = new.done /\ armed' = armed
      /\ ~(end < n) => armed' = FALSE /\ cursor' = 0 /\ swept' = {}
  BY DEF RepairSlice, Disarm
<1>3. /\ Up \in Links(n) /\ Rooted(n, Up, LiveSlot) /\ n \in Nat
      /\ LiveSlot \subseteq 1..n /\ Slot = 1..n
  BY <1>1, UpNow, TableFacts DEF Slot
<1>4. /\ end \in Nat /\ end <= n /\ cursor <= end /\ lo \in Nat /\ lo > 0 /\ lo <= end + 1
  BY <1>1, <1>3, DepthAssumption
<1>5. st \in SweepState(n) /\ st.done = swept
  <2>1. rank \in [1..n -> 0..MaxDepth] /\ swept \in SUBSET (1..n)
    BY <1>1, <1>3, ColumnForms
  <2> HIDE DEF n
  <2> QED
    BY <2>1 DEF SweepState
<1>6. ~disturbed => Right(Up, LiveSlot, st)
  BY <1>1, <1>2 DEF Right, MarksAreExact, Exact
<1> HIDE DEF end, lo, st, n
<1>7. /\ new \in SweepState(n) /\ swept \subseteq new.done /\ LiveSlot \cap (lo..end) \subseteq new.done
      /\ Right(Up, LiveSlot, st) => Right(Up, LiveSlot, new)
  BY <1>3, <1>4, <1>5, SweepFacts
<1> HIDE DEF new
<1>8. new.rank \in [1..n -> 0..MaxDepth] /\ new.done \subseteq 1..n
  BY <1>7 DEF SweepState
<1>9. entries' = entries /\ frn_map' = frn_map /\ LiveSlot' = LiveSlot /\ Slot' = Slot /\ Up' = Up
      /\ SlotInv' /\ SlotTypeOK' /\ DirsNamed'
  BY <1>1, <1>2 DEF slotVars, LiveSlot, Slot, Up, SlotInv, SlotTypeOK, FrnMapExact, FreelistExact,
              LiveCountExact, Known, DirsNamed
<1>10. \A t \in LiveSlot : t <= end => t \in new.done
  <2>1. ASSUME NEW t \in LiveSlot, t <= end PROVE t \in new.done
    <3>1. CASE t <= cursor
      BY <1>1, <1>2, <1>7, <3>1 DEF NothingSkipped
    <3>2. CASE ~(t <= cursor)
      <4>1. t \in lo..end
        BY <1>1, <1>3, <1>4, <2>1, <3>2 DEF lo
      <4> QED
        BY <1>7, <4>1
    <3> QED
      BY <3>1, <3>2
  <2> QED
    BY <2>1
<1>11. rank' \in Seq(0..MaxDepth) /\ Len(rank') = n
  BY <1>2, <1>3, <1>8, ColumnForms
<1>12. DepthTypeOK'
  <2>1. cursor' \in 0..Len(entries') /\ swept' \subseteq Slot'
    <3>1. Len(entries') = n /\ Slot' = 1..n /\ 0 \in 0..n /\ {} \subseteq 1..n /\ end \in 0..n
      BY <1>3, <1>4, <1>9 DEF n
    <3>2. CASE end < n
      BY <1>2, <1>8, <3>1, <3>2
    <3>3. CASE ~(end < n)
      BY <1>2, <3>1, <3>3
    <3> QED
      BY <3>2, <3>3
  <2>2. settled' \in BOOLEAN /\ armed' \in BOOLEAN
    BY <1>1, <1>2
  <2> QED
    BY <1>9, <1>11, <2>1, <2>2 DEF DepthTypeOK, n
<1>13. NothingSkipped'
  BY <1>2, <1>9, <1>10 DEF NothingSkipped
<1>14. ASSUME ~disturbed' PROVE SettledDepths' /\ MarksAreExact'
  <2>1. \A t \in new.done \cap LiveSlot : rank'[t] = TrueDepth(Up, t)
    BY <1>2, <1>6, <1>7, <1>14 DEF Right
  <2>2. CASE end < n
    BY <1>2, <1>9, <2>1, <2>2 DEF SettledDepths, MarksAreExact, Exact
  <2>3. CASE ~(end < n)
    <3>1. \A t \in LiveSlot : t <= end
      BY <1>3, <1>4, <2>3
    <3> QED
      BY <1>2, <1>9, <1>10, <2>1, <2>3, <3>1 DEF SettledDepths, MarksAreExact, Exact
  <2> QED
    BY <2>2, <2>3
<1>15. (~armed' => cursor' = 0 /\ swept' = {}) /\ (~settled' => ~armed')
  BY <1>1, <1>2
<1> QED
  BY <1>9, <1>12, <1>13, <1>14, <1>15 DEF DepthInv, RepairedDepths

\* Initially there is no slot to have a depth.
LEMMA DepthStarts == HistInit => DepthInv
<1> SUFFICES ASSUME HistInit PROVE DepthInv
  OBVIOUS
<1> USE DEF HistInit, DepthInit
<1>1. SlotInv
  BY InitSlotInv
<1>2. LiveSlot = {} /\ Slot = {} /\ Len(entries) = 0
  BY DEF SlotInit, LiveSlot, Slot
<1>3. DepthTypeOK
  <2>1. rank \in Seq(0..MaxDepth) /\ Len(rank) = Len(entries)
    BY <1>2
  <2>2. cursor \in 0..Len(entries) /\ swept \subseteq Slot
    BY <1>2
  <2>3. settled \in BOOLEAN /\ armed \in BOOLEAN
    OBVIOUS
  <2> QED
    BY <1>1, <2>1, <2>2, <2>3 DEF DepthTypeOK, SlotInv
<1> QED
  BY <1>1, <1>2, <1>3 DEF DepthInv, RepairedDepths, NothingSkipped, SettledDepths, MarksAreExact,
                          DirsNamed

LEMMA DepthStep == DepthInv /\ [HistNext]_histVars => DepthInv'
<1> SUFFICES ASSUME DepthInv, [HistNext]_histVars PROVE DepthInv'
  OBVIOUS
<1>1. ASSUME NEW f \in Frn, NEW p \in Parent, NEW n \in Name, Follow(f, p, n) PROVE DepthInv'
  BY <1>1, FollowStep
<1>2. ASSUME NEW f \in Frn, ApplyDelete(f), Noted(FALSE) PROVE DepthInv'
  BY <1>2, DeleteStep
<1>3. ASSUME NEW keep \in Renumbering, Compact(keep) PROVE DepthInv'
  BY <1>3, CompactStep
<1>4. CASE Finalize
  BY <1>4, FinalizeStep
<1>5. CASE RepairSlice /\ disturbed' = disturbed
  BY <1>5, SliceStep
<1>6. CASE UNCHANGED histVars
  <2>1. /\ UNCHANGED <<entries, frn_map, free_slots, live_count, rank, settled, armed, cursor,
                       swept, disturbed>>
    BY <1>6 DEF histVars, depthVars, slotVars, repairVars
  <2> QED
    BY <2>1 DEF DepthInv, RepairedDepths, DepthTypeOK, NothingSkipped, SettledDepths, MarksAreExact,
                Exact, Up, DirsNamed, LiveSlot, Slot, SlotInv, SlotTypeOK, FrnMapExact,
                FreelistExact, LiveCountExact, Known
<1> QED
  BY <1>1, <1>2, <1>3, <1>4, <1>5, <1>6 DEF HistNext, Rest

THEOREM DepthInvariant == HistSpec => []DepthInv
<1>1. HistInit => DepthInv
  BY DepthStarts
<1>2. DepthInv /\ [HistNext]_histVars => DepthInv'
  BY DepthStep
<1> QED
  BY <1>1, <1>2, PTL DEF HistSpec

\* However many slots, slices and directories there are, and however the slices of a
\* repair are interleaved with the journal's events: outside the three histories that
\* `disturbed` remembers, the ranking depth of every live slot is the walked one whenever
\* no repair is outstanding (index.rs, repair_depths_slice and depth_sweep), every mark of
\* one that is outstanding is right, and in any history it leaves no slot behind it.
THEOREM RepairIsExact == HistSpec => []RepairedDepths
<1>1. DepthInv => RepairedDepths
  BY DEF DepthInv
<1> QED
  BY <1>1, DepthInvariant, PTL

\* The history variable only watches: with it or without, the handlers and the slices
\* are those of DepthSpec.
THEOREM WatchedIsDepth == HistSpec => DepthSpec
<1>1. HistInit => DepthInit
  BY DEF HistInit
<1>2. [HistNext]_histVars => [DepthNext]_depthVars
  <2>1. ASSUME NEW f \in Frn, NEW p \in Parent, NEW n \in Name, Follow(f, p, n) PROVE DepthNext
    BY <2>1 DEF Follow, DepthNext, Mutation
  <2>2. ASSUME Rest PROVE DepthNext
    BY <2>2 DEF Rest, DepthNext, Mutation
  <2>3. ASSUME UNCHANGED histVars PROVE UNCHANGED depthVars
    BY <2>3 DEF histVars
  <2> QED
    BY <2>1, <2>2, <2>3 DEF HistNext
<1> QED
  BY <1>1, <1>2, PTL DEF HistSpec, DepthSpec

-----------------------------------------------------------------------------
\* Each handler changes the table as SlotTable says, or not at all.
LEMMA ArenaStepIsSlotStep == [ArenaNext]_arenaVars => [SlotNext]_slotVars
<1> SUFFICES ASSUME [ArenaNext]_arenaVars PROVE [SlotNext]_slotVars
  OBVIOUS
<1>1. ASSUME NEW f \in Frn, NEW p \in Parent, NEW n \in Name, AddEntry(f, p, n)
      PROVE  SlotNext
  BY <1>1 DEF AddEntry, SlotNext
<1>2. ASSUME NEW f \in Frn, NEW p \in Parent, NEW n \in Name,
             ArenaLoad(f, p, n) \/ ArenaCreate(f, p, n) \/ ArenaRename(f, p, n)
      PROVE  SlotNext
  <2>1. CASE ArenaLoad(f, p, n)
    BY <1>1, <2>1 DEF ArenaLoad
  <2>2. CASE ArenaCreate(f, p, n)
    BY <1>1, <2>2 DEF ArenaCreate
  <2>3. CASE ArenaRename(f, p, n)
    BY <2>3 DEF ArenaRename, SlotNext
  <2> QED
    BY <1>2, <2>1, <2>2, <2>3
<1>3. ASSUME NEW f \in Frn, ArenaDelete(f) PROVE SlotNext
  BY <1>3 DEF ArenaDelete, SlotNext
<1>4. ASSUME NEW keep \in Renumbering, ArenaCompact(keep) PROVE SlotNext
  BY <1>4 DEF ArenaCompact, SlotNext
<1>5. CASE ArenaFinalize
  BY <1>5 DEF ArenaFinalize
<1>6. CASE UNCHANGED arenaVars
  BY <1>6 DEF arenaVars
<1> QED
  BY <1>2, <1>3, <1>4, <1>5, <1>6 DEF ArenaNext

THEOREM ArenaImplementsTable == ArenaSpec => SlotSpec
<1>1. ArenaInit => SlotInit
  BY DEF ArenaInit
<1> QED
  BY <1>1, ArenaStepIsSlotStep, PTL DEF ArenaSpec, SlotSpec

\* Full arenas, refused names and compactions in place cost the table nothing:
\* it stays exact, and to a reader the index is a plain map of files.
THEOREM ArenasKeepTable == ArenaSpec => []TableExact /\ ImplementsFileSet
BY ArenaImplementsTable, TableIsExact, TableImplementsFileSet, PTL
==============================================================================
