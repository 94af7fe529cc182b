----------------------------- MODULE MCRootList -----------------------------
(* Two texts. "ab" has an app, a window and two providers' files, where the  *)
(* second batch outranks the first, repeats a name and overflows both caps.  *)
EXTENDS RootList, Calculator, Catalogue, FileQuery, ShellCaches
CONSTANTS E, A

R(k, kind, n, s) == [key |-> k, kind |-> kind, name |-> n, score |-> s, order |-> 0]
C(k, n, s, o)    == [key |-> k, kind |-> "command", name |-> n, score |-> s, order |-> o]

MCQueries  == {E, A}
MCKindCap  == [app |-> 1, window |-> 1, command |-> 2, file |-> 2]
MCShell == (E :> <<>>) @@ (A :> <<R("a1", "app", 1, 5), R("a2", "app", 2, 5),
                                  C("c1", 3, 3, 2), C("c2", 4, 3, 1)>>)
MCFiles == (E :> << <<>> >>) @@ (A :> << <<R("f1", "file", 1, 6), R("f2", "file", 2, 2)>>,
                                         <<R("f3", "file", 2, 7), R("f4", "file", 5, 5)>> >>)
MCFallback == (E :> <<>>) @@ (A :> <<R("w1", "file", 1, 5), R("w2", "file", 1, 4)>>)

\* Expressions with brackets, and longer ones without.
MCAlphabets == {<<{"n", "+", "*", "^", "%", "(", ")", "&"}, 5>>, <<{"n", "+", "*", "^", "%"}, 6>>}

\* Names with a wide letter, a camel, a synonym's worth of words; two habits.
MCLower  == [c \in {"a", "b", "-", "w"} |-> c] @@ ("B" :> "b")
MCNames  == {<<"a">>, <<"b", "-", "a", "b">>, <<"b", "a", "B">>, <<"w", "a", "b", "a">>,
             <<"-", "b", "w", "a", "b">>, <<"b", "b", "-", "a">>}
MCTyped  == {<<"a">>, <<"b">>, <<"a", "b">>, <<"b", "a">>, <<"b", "a", "b">>, <<"b", "b", "a">>}
MCHabits == {[count |-> 0, weeks |-> 0], [count |-> 2, weeks |-> 1], [count |-> 60, weeks |-> 0]}

MCKindExts == (<<"i", "m">> :> {<<"p", "g">>, <<"j">>}) @@ (<<"v">> :> {<<"m">>, <<"p">>})
MCExts     == {<<"p", "g">>, <<"j">>, <<"m">>, <<"p">>, <<"r", "s">>}
MCFolder   == <<"f">>

\* What follows keeps no state: it is looked at once, in the initial state.

\* A line that is not a search is read as it was written: an expression by its
\* grammar, a conversion word by word, a date by the calendar; and File Search's
\* line asks for what every filter in it allows, never passing through an error
\* while it is typed.
LinesAreRead == ParsesAsWritten /\ ReadsConversions /\ CountsDays /\ FiltersMeet /\ TypingIsQuiet

\* A launch lifts no row over one that matches in a higher tier, whole words only (a
\* substring may fall behind a dense subsequence); the page holds the most launched
\* of equal matches, a synonym stands back, a restart keeps the counts, each list
\* answers what it is asked, and a built-in asked for by name stands above them all.
\* What the rows are made from follows the machine: one enumeration at a time, no
\* list older than it may be, and a failure that costs no more than its part.
OwnListsAreFair ==
  /\ PageIsFair /\ SynonymsStandBack /\ ListsAnswer /\ LaunchesSurvive /\ BandHolds
  /\ CachesFollow /\ CataloguesFailSoft

\* The rows the shell answers with by itself, before the service has a say: lines are
\* read as they were written, and its own lists are ranked fairly and up to date.
OwnRowsAreRight == Init => LinesAreRead /\ OwnListsAreFair
=============================================================================
