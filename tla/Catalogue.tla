------------------------------ MODULE Catalogue ------------------------------
(***************************************************************************)
(* The lists the shell answers by itself: apps, settings pages, built-in   *)
(* commands and open windows (matcher.rs, apps.rs, settings_catalog.rs,    *)
(* commands.rs, winman.rs), what a launch adds to a row (frecency.rs), and *)
(* the page the search command cuts from each of them (lib.rs).            *)
(* Scores are in ten-thousandths.                                          *)
(***************************************************************************)
EXTENDS Naturals, Sequences
LOCAL INSTANCE SequencesExt
LOCAL INSTANCE FiniteSetsExt

CONSTANTS
  Names,           \* display names and synonyms, sequences of Letters
  Typed,           \* folded queries
  Lower,           \* letter -> its folded letter; a capital is one that differs
  Separators,      \* letters of is_sep
  WideLetters,     \* letters that take two UTF-16 units
  PageSize,        \* MAX_APP_RESULTS, MAX_RESULTS
  Pool,            \* FRECENCY_POOL
  Habits,          \* [count, weeks]: launches, and weeks since the last one
  MaxCount         \* u32::MAX

Letters == DOMAIN Lower

ASSUME CatalogueAssumption ==
  /\ \A n \in Names : n # <<>> /\ \A i \in DOMAIN n : n[i] \in Letters
  /\ PageSize \in Nat \ {0} /\ Pool \in Nat \ {0}
  /\ \A h \in Habits : h.count \in Nat /\ h.weeks \in Nat

EXACT      == 10000
PREFIX     == 9000
WORD_START == 8000
INITIALS   == 7000
SUBSTRING  == 5500
TIER_BONUS == 5000
FALLBACK_BASE_SCORE == 5000

-----------------------------------------------------------------------------
(* matcher.rs. A match is its score and its highlight, in UTF-16 units.    *)

FoldText(name) == [i \in DOMAIN name |-> Lower[name[i]]]
Utf16Offset(name, i) == (i - 1) + Cardinality({j \in 1..(i - 1) : name[j] \in WideLetters})
Span(name, start, len) == <<Utf16Offset(name, start), Utf16Offset(name, start + len)>>

\* The wide letters have no case here, as digits, of which there are none, have none.
IsUpper(c) == Lower[c] # c
IsLower(c) == c \notin Separators \cup WideLetters /\ ~IsUpper(c)
Segments(name) ==
  {i \in DOMAIN name :
     \/ /\ name[i] \notin Separators
        /\ i = 1 \/ name[i - 1] \in Separators
     \/ i > 1 /\ IsLower(name[i - 1]) /\ IsUpper(name[i])}

Found(name, q) ==
  {i \in 1..Len(name) : /\ i + Len(q) - 1 <= Len(name)
                        /\ SubSeq(FoldText(name), i, i + Len(q) - 1) = q}

\* The subsequence a left-to-right walk takes.
Walk(name, q) ==
  FoldLeft(LAMBDA took, i : IF Len(took) < Len(q) /\ Lower[name[i]] = q[Len(took) + 1]
                            THEN Append(took, i) ELSE took,
           <<>>, [i \in DOMAIN name |-> i])

NoMatch == [score |-> 0, ranges |-> <<>>]
ScoreName(name, q) ==
  LET at     == Found(name, q)
      words  == at \cap Segments(name)
      starts == SetToSortSeq(Segments(name), <)
      walk   == Walk(name, q)
      One(i) == Span(name, i, 1)
      initials == /\ Len(q) \in 2..Len(starts)
                  /\ \A i \in DOMAIN q : Lower[name[starts[i]]] = q[i]
  IN  CASE q = <<>> -> NoMatch
        [] 1 \in at -> [score |-> IF Len(q) = Len(name) THEN EXACT ELSE PREFIX,
                        ranges |-> <<Span(name, 1, Len(q))>>]
        [] 1 \notin at /\ words # {} ->
             [score |-> WORD_START, ranges |-> <<Span(name, Min(words), Len(q))>>]
        [] words = {} /\ q # <<>> /\ 1 \notin at /\ initials ->
             [score |-> INITIALS, ranges |-> [i \in DOMAIN q |-> One(starts[i])]]
        [] words = {} /\ at # {} /\ 1 \notin at /\ ~initials ->
             [score |-> SUBSTRING, ranges |-> <<Span(name, Min(at), Len(q))>>]
        [] at = {} /\ ~initials /\ Len(q) >= 3 /\ Len(walk) = Len(q) ->
             [score |-> 3000 + (2000 * Len(q)) \div (Last(walk) - walk[1] + 1),
              ranges |-> [i \in DOMAIN q |-> One(walk[i])]]
        [] OTHER -> NoMatch

\* A synonym is worth nine tenths of itself, and has nothing to underline.
ScoreEntry(e, q) ==
  [ScoreName(e.name, q) EXCEPT !.score = Max({@} \cup {(9 * ScoreName(s, q).score) \div 10 : s \in e.synonyms})]

-----------------------------------------------------------------------------
(* frecency.rs. The bonus halves its weight every week.                    *)

MAX_BONUS == 900
BonusOverTheGap(h) ==   \* mutant: the bonus is not held under the gap between tiers
  IF h.count = 0 THEN 0 ELSE (1900 * h.count) \div (h.count + 2 * 2 ^ h.weeks)
Bonus(h) == IF h.count = 0 THEN 0 ELSE (MAX_BONUS * h.count) \div (h.count + 2 * 2 ^ h.weeks)

\* record_at updates memory before it hands the launch to the writer; the row
\* counts past what memory can hold, and is clamped when it is loaded.
Recorded(mem, ts) == [count |-> Min({mem.count + 1, MaxCount}), last |-> ts]
WrittenRow(row, ts) == [count |-> row.count + 1, last |-> ts]
LoadedRow(row) == [row EXCEPT !.count = Min({@, MaxCount})]
\* open_at: a database that cannot be opened, or a writer that cannot be started,
\* costs what is recorded from now on, and only the first what was recorded before.
OpenAt(rows, opens, spawns) ==
  [mem  |-> IF opens THEN [k \in DOMAIN rows |-> LoadedRow(rows[k])] ELSE <<>>,
   kept |-> opens /\ spawns]

-----------------------------------------------------------------------------
(* The four catalogues and the page cut from each.                         *)
(* An entry: [name, synonyms, habit, band, order, offered].                *)

\* apps.rs, settings_catalog.rs and winman.rs order ties by length and name,
\* commands.rs by declaration; order stands for either.
Ahead(a, b) == a.score > b.score \/ (a.score = b.score /\ a.order < b.order)

\* A built-in takes the band only when its own name matched at band_from.
InBand(e, q) == e.band > 0 /\ ScoreName(e.name, q).score >= e.band
Scored(e, q) ==
  [ScoreEntry(e, q) EXCEPT !.score = @ + (IF InBand(e, q) THEN TIER_BONUS ELSE 0)]
    @@ [entry |-> e, order |-> e.order]

\* match_query: what is not offered on this machine, and what does not match, is
\* left out; the apps answer one letter, the others ask for two. A list is the set
\* of its rows, in the order of Ahead.
Candidates(entries, q, least) ==
  {h \in {Scored(e, q) : e \in {x \in entries : x.offered /\ Len(q) >= least}} : h.score > 0}

\* Apps have no synonyms and answer one letter; a window's is its program; pages and
\* windows ask for two letters.
AppMatches(apps, q)      == Candidates({[a EXCEPT !.synonyms = {}] : a \in apps}, q, 1)
SettingMatches(pages, q) == Candidates(pages, q, 2)
WindowMatches(titles, process, q) ==
  Candidates({[w EXCEPT !.synonyms = {process[w.name]}] : w \in titles}, q, 2)

RowsAhead(h, list) == Cardinality({g \in list : Ahead(g, h)})
Cut(list, n)    == {h \in list : RowsAhead(h, list) < n}

\* search: widen, add the bonus, sort again (a stable sort), cut.
Page(entries, q, least) ==
  LET pool == Cut(Candidates(entries, q, least), PageSize * Pool)
  IN  Cut({[h EXCEPT !.score = @ + Bonus(h.entry.habit), !.order = RowsAhead(h, pool)] : h \in pool}, PageSize)

-----------------------------------------------------------------------------
(* Properties.                                                             *)

Entry(n, syn, h, o) ==
  [name |-> n, synonyms |-> syn, habit |-> h, order |-> o, band |-> 0, offered |-> TRUE]
Catalogues ==
  {{Entry(n[i], {}, h[i], i) : i \in 1..3} : n \in [1..3 -> Names], h \in [1..3 -> Habits]}

Shown(page) == {h.entry : h \in page}

\* However often a thing was launched, it does not take the place of one whose
\* name matches in a higher tier; and among equal matches, while the pool holds
\* them, the page shows the ones launched most. (The tiers of whole words: a dense
\* subsequence and a substring are closer than the bonus.)
PageIsFair ==
  \A q \in Typed : \A entries \in Catalogues :
    LET page == Page(entries, q, 1)
        Tier(e) == ScoreName(e.name, q).score
    IN  \A e \in Shown(page), o \in entries \ Shown(page) :
          /\ Tier(o) > SUBSTRING => Tier(e) >= Tier(o)
          /\ /\ Tier(e) = Tier(o)
             /\ Cardinality(Candidates(entries, q, 1)) <= PageSize * Pool
             => Bonus(e.habit) >= Bonus(o.habit)

\* A synonym never beats the name it stands for, and is never underlined: a row
\* that matched by a synonym alone carries no highlight, and a highlight lies
\* within the name.
SynonymsStandBack ==
  \A q \in Typed, n \in Names, s \in Names :
    LET e == Entry(n, {s}, [count |-> 0, weeks |-> 0], 1)
        hit == ScoreEntry(e, q)
    IN  /\ ScoreName(n, q).score = 0 => hit.ranges = <<>>
        /\ ScoreName(n, q).score = EXACT => hit.score = EXACT
        /\ \A h \in Habits : hit.score < EXACT /\ ScoreName(n, q).score < PREFIX
                               => hit.score + Bonus(h) < EXACT
        /\ \A i \in DOMAIN hit.ranges : /\ hit.ranges[i][1] < hit.ranges[i][2]
                                        /\ hit.ranges[i][2] <= Utf16Offset(n, Len(n) + 1)
                                        /\ i > 1 => hit.ranges[i - 1][2] <= hit.ranges[i][1]

\* One letter lists apps and nothing else; a program's name finds every window of it,
\* with nothing underlined in a title that does not match; and what matches a row's
\* own name is never lost for what else it is called.
ListsAnswer ==
  \A q \in Typed, n, p \in Names :
    LET e    == Entry(n, {p}, [count |-> 0, weeks |-> 0], 1)
        apps == AppMatches({e}, q)
        wins == WindowMatches({e}, [m \in {n} |-> p], q)
        Hit(m) == ScoreName(m, q).score
    IN  /\ Len(q) < 2 => wins = {} /\ SettingMatches({e}, q) = {}
        /\ (apps # {}) <=> Hit(n) > 0
        /\ Len(q) >= 2 => /\ (wins # {}) <=> (Hit(n) > 0 \/ Hit(p) > 0)
                          /\ Hit(n) = 0 /\ Hit(p) > 0 => \A w \in wins : w.ranges = <<>>
                          /\ \A w \in wins, a \in apps : w.score >= a.score
        /\ Len(q) >= 2 => SettingMatches({e}, q) = wins

\* A restart loads what memory held: the row and the map count the same launches,
\* whatever their number and whatever the clock did between them.
LaunchesSurvive ==
  \A launches \in UNION {[1..n -> 1..2] : n \in 0..(MaxCount + 2)} :
    LET zero == [count |-> 0, last |-> 0]
        row  == FoldLeft(WrittenRow, zero, launches)
    IN  \A opens, spawns \in BOOLEAN :
          LET again == OpenAt(<<row>>, opens, spawns)
          IN  IF opens THEN again.mem = <<FoldLeft(Recorded, zero, launches)>>
              ELSE again.mem = <<>> /\ ~again.kept

\* A built-in whose name was typed stands above every row of the shell and the
\* index, whatever was launched, and below the calculator; a gated one whose app is
\* missing is not on the page; a Windows Search row that was never opened stands
\* below every whole match.
BandHolds ==
  \A q \in Typed, n \in Names, s \in Names, b \in {WORD_START, PREFIX}, offered \in BOOLEAN, h \in Habits :
    LET c    == [Entry(n, {s}, h, 1) EXCEPT !.band = b, !.offered = offered]
        page == Page({c}, q, 2)
        hit  == ScoreName(n, q).score
    IN  /\ offered /\ Len(q) >= 2 /\ hit >= b =>
             page # {} /\ \A row \in page : row.score \in (EXACT + MAX_BONUS + 1)..19999
        /\ ~offered => page = {}
        /\ hit < b => \A row \in page : row.score <= EXACT + MAX_BONUS
        /\ FALLBACK_BASE_SCORE < SUBSTRING
=============================================================================
