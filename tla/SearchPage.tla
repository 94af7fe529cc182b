------------------------------ MODULE SearchPage ------------------------------
(***************************************************************************)
(* The page a search returns (matching.rs): offers of the passes, pruned   *)
(* against the running floor, kept in a heap of a few times the page, and  *)
(* drained to the best rows. A corpus says, slot by slot, what the passes  *)
(* find there; NameArena says that they find the right thing. One search   *)
(* is one behaviour, and may be cancelled at any step.                     *)
(*                                                                         *)
(* Scores are integers: a tier's base in hundredths times the depth        *)
(* penalty in hundredths.                                                  *)
(***************************************************************************)
EXTENDS Naturals, FiniteSets, Sequences

CONSTANTS
  SlotCount,        \* entries of the index
  ArenaOrder,       \* their records as they lie in the arena
  Profiles,         \* what a slot may be: [hits, initials, superset, density, depth, hidden, accepted]
  Pen,              \* DEPTH_PEN by depth and whether hidden, in hundredths
  DepthTop,         \* RANK_DEPTH_MAX
  FUZZY_CAP,
  Searches          \* [k: max_results, qlen: folded bytes]

TierBase == [exact |-> 100, prefix |-> 90, boundary |-> 80, initials |-> 70, inner |-> 55]
FuzzyTop == 50                                  \* tier_upper_bound(Fuzzy), not its floor of 30
FuzzyBase(density) == 30 + (density \div 5)     \* 0.3 + 0.2 * density, density in hundredths

\* A record's first hit may be at its start, the others are inside.
Start(tier) == tier \in {"exact", "prefix"}
Slots == 1..SlotCount

ASSUME PageAssumption ==
  /\ SlotCount \in Nat /\ DepthTop \in Nat /\ FUZZY_CAP \in Nat
  /\ ArenaOrder \in [Slots -> Slots] /\ \A s \in Slots : \E i \in Slots : ArenaOrder[i] = s
  /\ \A i, j \in Slots : ArenaOrder[i] = ArenaOrder[j] => i = j
  /\ Pen \in [0..DepthTop -> [BOOLEAN -> 1..100]]
  /\ \A d \in 0..DepthTop : Pen[d][TRUE] <= Pen[d][FALSE]
  /\ Profiles \subseteq [hits : Seq({"exact", "prefix", "boundary", "inner"}), initials : BOOLEAN,
                         superset : BOOLEAN, density : 0..100, depth : 0..DepthTop,
                         hidden : BOOLEAN, accepted : BOOLEAN]
  /\ \A p \in Profiles : /\ \A i \in 2..Len(p.hits) : ~Start(p.hits[i])
                         /\ p.density > 0 => p.superset
  /\ Searches \subseteq [k : Nat \ {0}, qlen : Nat \ {0}]

VARIABLES
  search, corpus,   \* the query, and the profile of each slot
  pass,             \* "head", "arena", "to_initials", "initials", "to_fuzzy", "fuzzy", "drain", "done"
  spot, nth,        \* the slot or record the pass is at, and the hit of the record
  pend,             \* [slot, tier] of the record being scanned, until the next one's first hit
  heap, seen,       \* Selector: offers [score, slot, tier], and the slots offered
  survivors, quota, \* of the fuzzy pass
  overtime,         \* FUZZY_SOFT_DEADLINE has passed
  cancelled,
  top,              \* the page
  dropped           \* history: survivors the cap left unverified

asked    == <<search, corpus>>
place    == <<spot, nth>>
selector == <<heap, seen>>
fuzzy    == <<survivors, quota, overtime, dropped>>
pageVars == <<asked, pass, place, pend, selector, fuzzy, cancelled, top>>

Short == search.qlen = 1

-----------------------------------------------------------------------------
(* The selector.                                                           *)

Base(slot, tier) == IF tier = "fuzzy" THEN FuzzyBase(corpus[slot].density) ELSE TierBase[tier]
Scored(slot, tier) ==
  [score |-> Base(slot, tier) * Pen[corpus[slot].depth][corpus[slot].hidden], slot |-> slot, tier |-> tier]

\* Scored::cmp: by score, then the lower slot.
Better(x, y) == x.score > y.score \/ (x.score = y.score /\ x.slot < y.slot)
Worst(offers) == CHOOSE o \in offers : \A p \in offers : p = o \/ Better(p, o)

Cap   == search.k * (IF Short THEN 3 ELSE 2)
Full  == Cardinality(heap) >= Cap
Floor == Worst(heap).score   \* read only of a full heap

RejectsTies(ub) == Full /\ ub * 100 <= Floor   \* mutant: a tie is rejected, though the slot may still decide it
\* Strict: on equality the slot still decides.
Rejects(ub) == Full /\ ub * 100 < Floor

\* The filter is asked last, only of an offer that beat the heap; the slot is
\* seen in any case.
Offer(slot, tier) ==
  /\ seen' = seen \cup {slot}
  /\ heap' = IF ~corpus[slot].accepted THEN heap
             ELSE IF ~Full THEN heap \cup {Scored(slot, tier)}
             ELSE IF Better(Scored(slot, tier), Worst(heap))
                  THEN (heap \ {Worst(heap)}) \cup {Scored(slot, tier)}
             ELSE heap
Flush == \/ pend = {} /\ UNCHANGED selector
         \/ \E h \in pend : Offer(h.slot, h.tier)

\* Deduplicated by slot; best first and truncated, as a set, which Better orders.
Deduped(offers) == {o \in offers : \A p \in offers : p.slot = o.slot => p = o \/ Better(o, p)}
Truncated(rows)    == {o \in rows : Cardinality({p \in rows : Better(p, o)}) < search.k}

-----------------------------------------------------------------------------
PageInit ==
  /\ search \in Searches /\ corpus \in [Slots -> Profiles]
  /\ pass = (IF Short THEN "head" ELSE "arena") /\ spot = 1 /\ nth = 1
  /\ pend = {} /\ heap = {} /\ seen = {} /\ survivors = {} /\ quota = 0 /\ dropped = {}
  /\ overtime = FALSE /\ cancelled = FALSE /\ top = {}

\* head_pass, of a query of one byte: the hits at the start of a name.
HeadSlot ==
  /\ pass = "head" /\ spot <= SlotCount /\ spot' = spot + 1
  /\ LET hits == corpus[spot].hits
     IN  IF hits = <<>> \/ ~Start(hits[1]) \/ Rejects(TierBase[hits[1]]) THEN UNCHANGED selector
         ELSE Offer(spot, hits[1])
  /\ UNCHANGED <<asked, pass, nth, pend, fuzzy, cancelled, top>>
HeadEnds ==
  /\ pass = "head" /\ spot > SlotCount /\ spot' = 1
  /\ pass' = IF Rejects(TierBase.boundary) THEN "to_initials" ELSE "arena"
  /\ UNCHANGED <<asked, nth, pend, selector, fuzzy, cancelled, top>>

\* Pass A, hit by hit: those of one record make one offer, at the best tier that was
\* not rejected, made when the next record's first hit comes along.
HitSlot == ArenaOrder[spot]
ArenaHit ==
  /\ pass = "arena" /\ spot <= SlotCount /\ nth <= Len(corpus[HitSlot].hits) /\ nth' = nth + 1
  /\ LET hit == [slot |-> HitSlot, tier |-> corpus[HitSlot].hits[nth]]
     IN  \/ /\ (Short /\ Start(hit.tier)) \/ Rejects(TierBase[hit.tier])
            /\ UNCHANGED <<pend, selector>>
         \/ /\ ~(Short /\ Start(hit.tier)) /\ ~Rejects(TierBase[hit.tier])
            /\ IF \E h \in pend : h.slot = hit.slot
               THEN /\ pend' = {IF TierBase[hit.tier] > TierBase[h.tier] THEN hit ELSE h : h \in pend}
                    /\ UNCHANGED selector
               ELSE Flush /\ pend' = {hit}
  /\ UNCHANGED <<asked, pass, spot, fuzzy, cancelled, top>>
ArenaRecord ==
  /\ pass = "arena" /\ spot <= SlotCount /\ nth > Len(corpus[HitSlot].hits)
  /\ spot' = spot + 1 /\ nth' = 1
  /\ UNCHANGED <<asked, pass, pend, selector, fuzzy, cancelled, top>>
ArenaEnds ==
  /\ pass = "arena" /\ spot > SlotCount /\ pass' = "to_initials"
  /\ Flush /\ pend' = {} /\ UNCHANGED <<asked, place, fuzzy, cancelled, top>>

\* Pass B: broken off once the floor is above the tier, for it only rises.
InitialsBegin ==
  /\ pass = "to_initials" /\ spot' = 1
  /\ pass' = IF Rejects(TierBase.initials) THEN "to_fuzzy" ELSE "initials"
  /\ UNCHANGED <<asked, nth, pend, selector, fuzzy, cancelled, top>>
InitialsSlot ==
  /\ pass = "initials" /\ spot <= SlotCount /\ spot' = spot + 1
  /\ IF corpus[spot].initials
     THEN ~Rejects(TierBase.initials) /\ Flush /\ pend' = {[slot |-> spot, tier |-> "initials"]}
     ELSE UNCHANGED <<pend, selector>>
  /\ UNCHANGED <<asked, pass, nth, fuzzy, cancelled, top>>
InitialsEnd ==
  /\ pass = "initials"
  /\ spot <= SlotCount => corpus[spot].initials /\ Rejects(TierBase.initials)
  /\ pass' = "to_fuzzy" /\ Flush /\ pend' = {}
  /\ UNCHANGED <<asked, place, fuzzy, cancelled, top>>

-----------------------------------------------------------------------------
(* Pass C.                                                                 *)

\* Below d_max: no density reaches the page from here, nor from further down.
TooDeep(depth) ==
  Full /\ depth > 0 /\ \A d \in depth..DepthTop : FuzzyTop * Pen[d][FALSE] < Floor

\* fuzzy_cap_cut: the depth the budget runs out at, and what of it still fits.
Within(slots, depth) == Cardinality({s \in slots : corpus[s].depth <= depth})
Cut(slots) ==
  IF Cardinality(slots) <= FUZZY_CAP THEN DepthTop
  ELSE CHOOSE d \in 0..DepthTop : /\ Within(slots, d) >= FUZZY_CAP
                                  /\ \A e \in 0..DepthTop : e < d => Within(slots, e) < FUZZY_CAP
Quota(slots) ==
  IF Cardinality(slots) <= FUZZY_CAP \/ Cut(slots) = 0 THEN FUZZY_CAP
  ELSE FUZZY_CAP - Within(slots, Cut(slots) - 1)

FuzzyBegin ==
  /\ pass = "to_fuzzy" /\ spot' = 1
  /\ IF search.qlen < 3 \/ Rejects(FuzzyTop) THEN pass' = "drain" /\ UNCHANGED fuzzy
     ELSE /\ pass' = "fuzzy" /\ UNCHANGED <<overtime, dropped>>
          /\ survivors' = {s \in Slots : corpus[s].superset /\ s \notin seen /\ ~TooDeep(corpus[s].depth)}
          /\ quota' = Quota(survivors')
  /\ UNCHANGED <<asked, nth, pend, selector, cancelled, top>>

AtCut    == corpus[spot].depth = Cut(survivors) /\ quota > 0
Retained == corpus[spot].depth < Cut(survivors) \/ AtCut

\* Past the cap, more are verified while the page has room and the deadline has
\* not passed; the code looks at the clock every DEADLINE_STRIDE of them, here it
\* may at any.
FuzzySlot ==
  /\ pass = "fuzzy" /\ spot <= SlotCount /\ spot' = spot + 1
  /\ \/ spot \notin survivors /\ UNCHANGED <<selector, fuzzy>>
     \/ /\ spot \in survivors /\ (Retained \/ ~(Full \/ overtime))
        /\ quota' = IF AtCut THEN quota - 1 ELSE quota
        /\ IF corpus[spot].density = 0 THEN UNCHANGED selector ELSE Offer(spot, "fuzzy")
        /\ UNCHANGED <<survivors, overtime, dropped>>
     \/ /\ spot \in survivors /\ ~Retained
        /\ \/ (Full \/ overtime) /\ UNCHANGED overtime
           \/ ~Full /\ overtime' = TRUE
        /\ dropped' = dropped \cup {spot} /\ UNCHANGED <<selector, survivors, quota>>
  /\ UNCHANGED <<asked, pass, nth, pend, cancelled, top>>
FuzzyEnds ==
  /\ pass = "fuzzy" /\ spot > SlotCount /\ pass' = "drain"
  /\ UNCHANGED <<asked, place, pend, selector, fuzzy, cancelled, top>>

\* is_cancelled, at whichever poll: what is there is drained.
CancelSearch ==
  /\ pass \in {"head", "arena", "initials", "fuzzy"} /\ cancelled' = TRUE /\ pass' = "drain"
  /\ Flush /\ pend' = {} /\ UNCHANGED <<asked, place, fuzzy, top>>

Drain ==
  /\ pass = "drain" /\ pass' = "done" /\ top' = Truncated(Deduped(heap))
  /\ UNCHANGED <<asked, place, pend, selector, fuzzy, cancelled>>

PageNext ==
  \/ HeadSlot \/ HeadEnds \/ ArenaHit \/ ArenaRecord \/ ArenaEnds
  \/ InitialsBegin \/ InitialsSlot \/ InitialsEnd
  \/ FuzzyBegin \/ FuzzySlot \/ FuzzyEnds \/ CancelSearch \/ Drain

PageSpec == PageInit /\ [][PageNext]_pageVars

-----------------------------------------------------------------------------
(* What the page should be: everything scored, nothing pruned.             *)

Tiers(slot) ==
  {corpus[slot].hits[i] : i \in DOMAIN corpus[slot].hits}
  \cup (IF corpus[slot].initials THEN {"initials"} ELSE {})
  \cup (IF search.qlen >= 3 /\ corpus[slot].density > 0 THEN {"fuzzy"} ELSE {})

Offers == UNION {{Scored(s, t) : t \in Tiers(s)} : s \in {r \in Slots : corpus[r].accepted}}
Exhaustive == Truncated(Deduped(Offers))

\* The page is the exhaustive one: heap, floor, whole-pass skips and the filter
\* asked last lose nothing, even when cancelled it shows nothing that is not there,
\* and only the fuzzy cap may cost a row: a fuzzy one, no shallower than the cut, and
\* only to a full page or the deadline.
PageIsExhaustive ==
  pass = "done" =>
    /\ top \subseteq Offers
    /\ ~cancelled /\ Cardinality(survivors) <= FUZZY_CAP => top = Exhaustive
    /\ ~cancelled => \A o \in Exhaustive \ top :
         /\ o.tier = "fuzzy" /\ corpus[o.slot].depth >= Cut(survivors)
         /\ overtime \/ Cardinality({p.slot : p \in heap}) >= search.k
=============================================================================
