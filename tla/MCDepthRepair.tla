---------------------------- MODULE MCDepthRepair ----------------------------
(***************************************************************************)
(* Two directories and a file or two over as many slots, and slices of one *)
(* slot.  Admits names the kinds of event a run includes beyond the plain  *)
(* ones, so that a counterexample is one a volume's journal really tells.  *)
(***************************************************************************)
EXTENDS DepthRepair
CONSTANTS d1, d2, f1, f2, root, a, Files4, Admits
MCFrn == IF Files4 THEN {d1, d2, f1, f2} ELSE {d1, d2, f1}
MCDirs == {d1, d2}
MCParent == {d1, d2, root}
MCName == {a}
MCAll == {"adopt", "recycle", "move", "cycle", "reuse"}

\* A parent that is f's own descendant: only a journal replayed over a later
\* enumeration tells this, and only until the replay has caught up.
Tangles(f, p) ==
    /\ f \in DirFrn /\ p \in Frn
    /\ \/ ~Known(p)
       \/ Known(f) /\ \E k \in DOMAIN Ancestors(Up, frn_map[p]) :
              Ancestors(Up, frn_map[p])[k] = frn_map[f]

\* A reference that comes back after its deletion, as in a replay.
Reuses(f) == ~Known(f) /\ \E s \in Slot : entries[s].frn = f

Admitted(f, p) ==
    /\ "adopt" \notin Admits => ~Adopts(f)
    /\ "recycle" \notin Admits => ~RecyclesSwept(f)
    /\ "move" \notin Admits => ~MovesSwept(f, p)
    /\ "cycle" \notin Admits => ~Tangles(f, p)
    /\ "reuse" \notin Admits => ~Reuses(f)

MCNext ==
    \/ /\ (\E f \in Frn, p \in Parent, n \in Name : Admitted(f, p) /\ Follow(f, p, n)) \/ Rest
       /\ UNCHANGED paused
    \/ Pausing

MCSpec == PausableInit /\ [][MCNext]_pausableVars
MCFairSpec == MCSpec /\ Polls
==============================================================================
