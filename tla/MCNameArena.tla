----------------------------- MODULE MCNameArena -----------------------------
(***************************************************************************)
(* Three files over names that fold into one another's substrings, one of  *)
(* which folds longer than it is; arenas of a dozen bytes with two-byte    *)
(* owner blocks, so that records straddle block boundaries, and a poll     *)
(* window smaller than a record.                                           *)
(***************************************************************************)
EXTENDS NameArena, SearchPage, MatchRanges
CONSTANTS f1, f2, f3, root, a, ab, baa, a_a, bad
MCFrn == {f1, f2, f3}
MCName == {a, ab, baa, a_a, bad}
MCOrig == (a :> <<4>>) @@ (ab :> <<4, 5>>) @@ (baa :> <<6>>) @@ (a_a :> <<4, 3, 4>>)
MCFolded == (a :> <<1>>) @@ (ab :> <<1, 2>>) @@ (baa :> <<2, 1, 1>>) @@ (a_a :> <<1, 3, 1>>)
MCInitials == (a :> <<1>>) @@ (ab :> <<1>>) @@ (baa :> <<2, 1>>) @@ (a_a :> <<1, 1>>)
MCSymmetry == Permutations(MCFrn)
MCQuery == UNION {[1..k -> {1, 2}] : k \in 1..3}

\* Four slots of any of these kinds, lying in the arena the other way round: a heap
\* of two to six offers fills, a fuzzy cap of one binds, and a hidden name at the
\* root scores above a plain one below it.
ProfileOf(hits, initials, density, depth, accepted) ==
    [hits |-> hits, initials |-> initials, superset |-> TRUE, hidden |-> FALSE,
     density |-> density, depth |-> depth, accepted |-> accepted]
MCProfiles ==
    {ProfileOf(<<"prefix">>, FALSE, 100, 0, TRUE), ProfileOf(<<"prefix">>, FALSE, 100, 0, FALSE),
     ProfileOf(<<"prefix", "boundary">>, TRUE, 100, 1, TRUE),
     ProfileOf(<<"inner", "boundary">>, FALSE, 100, 0, TRUE),
     ProfileOf(<<>>, TRUE, 50, 1, TRUE), ProfileOf(<<>>, FALSE, 100, 1, TRUE),
     ProfileOf(<<>>, FALSE, 50, 0, TRUE), [ProfileOf(<<>>, FALSE, 0, 0, TRUE) EXCEPT !.hidden = TRUE]}
MCPen == [d \in 0..1 |-> [h \in BOOLEAN |-> (IF d = 0 THEN 100 ELSE 70) - IF h THEN 15 ELSE 0]]
MCOrder == [i \in 1..SlotCount |-> SlotCount + 1 - i]
MCSearches == [k : {1, 2}, qlen : {1, 3}]

\* A small and a capital letter, one that folds to two characters, one of two
\* UTF-16 units, and a separator.
CharOf(fold, units, kind) ==
    [fold |-> fold, units |-> units, sep |-> kind = "sep", upper |-> kind = "upper", lower |-> kind = "lower"]
MCChars == {CharOf(<<"a">>, 1, "lower"), CharOf(<<"a">>, 1, "upper"), CharOf(<<"i", "dot">>, 1, "upper"),
            CharOf(<<"x">>, 2, "other"), CharOf(<<"_">>, 1, "sep")}

\* The arenas and a search share no state: a behaviour is one of either while the
\* other rests where it started.
VARIABLE moves
MCInit ==
  /\ ArenaInit /\ PageInit /\ moves \in {"arena", "page"}
  /\ moves = "arena" => /\ search = [k |-> 1, qlen |-> 1]
                        /\ corpus = [s \in Slots |-> ProfileOf(<<>>, TRUE, 50, 1, TRUE)]
MCNext ==
  \/ moves = "arena" /\ ArenaNext /\ UNCHANGED <<pageVars, moves>>
  \/ moves = "page" /\ PageNext /\ UNCHANGED <<arenaVars, moves>>
  \/ moves = "page" /\ pass = "done" /\ UNCHANGED <<arenaVars, pageVars, moves>>
MCSpec == MCInit /\ [][MCNext]_<<arenaVars, pageVars, moves>>

\* The highlighted characters of a row are the match, for every name and query: it is
\* looked at once, in a state that starts.
RangesMatch == moves = "arena" /\ ArenaInit => RangesAreTheMatch
==============================================================================
