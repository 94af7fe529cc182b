----------------------------- MODULE DepthSweep ------------------------------
(***************************************************************************)
(* The memoized, cycle-guarded depth sweep of the index (depth_sweep in    *)
(* crates/yspot-index/src/index.rs) as a function of the parent links, and *)
(* the walk it is meant to agree with (depth_of).  up[s] is the slot of    *)
(* s's parent, 0 when the chain ends at s: the parent is not indexed, or   *)
(* s is its own.                                                           *)
(***************************************************************************)
EXTENDS Naturals, Sequences, FiniteSets

CONSTANT MaxDepth      \* RANK_DEPTH_MAX: cached depths are clamped to it

Clamp(d) == IF d > MaxDepth THEN MaxDepth ELSE d

\* anc[k]: the slot reached from s after following k parent links, 0 past the end.
Ancestors(up, s) ==
    LET anc[k \in 0..(Len(up) + MaxDepth)] ==
            IF k = 0 THEN s
            ELSE IF anc[k - 1] = 0 THEN 0 ELSE up[anc[k - 1]]
    IN  anc

\* depth_of clamped: the links that can be followed; a cycle never runs out.
TrueDepth(up, s) ==
    Cardinality({k \in 1..MaxDepth : Ancestors(up, s)[k] # 0})

\* One start of the sweep.  The walk from s stops at a slot already done, at
\* the end of the chain, or where it meets itself; the slots it pushed are
\* then all assigned and all done.  st is [rank, done].
SweepFrom(up, st, s) ==
    LET anc == Ancestors(up, s)
        Stops(k) == \/ anc[k] = 0
                    \/ anc[k] \in st.done
                    \/ \E j \in 0..(k - 1) : anc[j] = anc[k]
        stop == CHOOSE k \in 1..Len(up) :
                    Stops(k) /\ \A j \in 1..(k - 1) : ~Stops(j)
        pushed == {anc[i] : i \in 0..(stop - 1)}
        Pos(t) == CHOOSE i \in 0..(stop - 1) : anc[i] = t
        first == IF anc[stop] = 0 THEN 0 ELSE Clamp(st.rank[anc[stop]] + 1)
        cycle == anc[stop] # 0 /\ anc[stop] \notin st.done
        Depth(t) == IF cycle THEN MaxDepth
                             ELSE Clamp(first + (stop - 1 - Pos(t)))
    IN  [rank |-> [t \in DOMAIN st.rank |-> IF t \in pushed THEN Depth(t)
                                                            ELSE st.rank[t]],
         done |-> st.done \union pushed]

\* The sweep over slots lo..hi, skipping what is done and what is not live.
Visit(up, live, acc, s) ==
    IF s \in live \ acc.done THEN SweepFrom(up, acc, s) ELSE acc
Sweep(up, live, lo, hi, st) ==
    LET after[i \in 0..(hi - lo + 1)] ==
            IF i = 0 THEN st ELSE Visit(up, live, after[i - 1], lo + i - 1)
    IN  after[hi - lo + 1]
==============================================================================
