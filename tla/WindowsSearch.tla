---------------------------- MODULE WindowsSearch ----------------------------
(***************************************************************************)
(* The shell's own file search (search_fallback.rs): the calls that build  *)
(* the query and run it, the rowset read batch by batch, and what is       *)
(* answered when any of it fails. One search is one behaviour; the         *)
(* provider is external, and may fail at any call and in any batch.        *)
(***************************************************************************)
EXTENDS Naturals, Sequences

CONSTANTS
  FetchBatch,  \* BATCH
  MaxHits,     \* the most a caller asks for
  MaxRows      \* rows a provider holds

ASSUME SearchAssumption == FetchBatch \in Nat \ {0} /\ MaxHits \in Nat /\ MaxRows \in Nat

\* The calls in the order they are made, and those whose failure says that there is
\* nothing to ask.
BuildCalls == <<"manager", "catalog", "helper", "columns", "limit", "sql", "connection">>
RunCalls   == <<"initializer", "source", "interface", "initialize", "session", "command", "text", "execute", "accessor">>
Calls      == BuildCalls \o RunCalls
Absent     == {"manager", "catalog", "initializer", "source", "initialize"}

\* What a row's columns hold: a path (the name defaults to its end), none, or an error.
RowKinds == {"path", "no_path", "unreadable"}

VARIABLES
  blank, max,    \* the query holds nothing; how many hits are asked for
  rowset,        \* the rows the provider holds
  step, made,    \* "search", "call", "fetch", "data", "end" or "done"; calls that succeeded
  at, upto,      \* rows read, and fetched
  hits,          \* out: the rows with a path
  fetch_error,   \* what read_rows noted first, or "none"
  unreleased,    \* handles of a batch that were not released
  answer,        \* [kind, hits]
  broke          \* history: everything that failed

query   == <<blank, max>>
reading == <<at, upto, hits, fetch_error, unreleased>>
searchVars == <<query, rowset, step, made, reading, answer, broke>>

Failure(call) == [kind |-> IF call \in Absent THEN "unavailable" ELSE "failed", hits |-> <<>>]
Hits(found)   == [kind |-> "ok", hits |-> found]

SearchInit ==
  /\ blank \in BOOLEAN /\ max \in 0..MaxHits
  /\ rowset \in UNION {[1..n -> RowKinds] : n \in 0..MaxRows}
  /\ step = "search" /\ made = 0 /\ at = 0 /\ upto = 0 /\ hits = <<>>
  /\ fetch_error = "none" /\ unreleased = FALSE /\ answer = Hits(<<>>) /\ broke = {}

Answers(a) == step' = "done" /\ answer' = a

-----------------------------------------------------------------------------
\* WindowsSearch::search: nothing is asked of the provider for nothing.
Search ==
  /\ step = "search"
  /\ IF blank \/ max = 0 THEN Answers(Hits(<<>>)) ELSE step' = "call" /\ UNCHANGED answer
  /\ UNCHANGED <<query, rowset, made, reading, broke>>

\* build_query and run_query: the first call that fails is the answer.
Fails ==
  /\ step = "call" /\ Answers(Failure(Calls[made + 1])) /\ broke' = {Calls[made + 1]}
  /\ UNCHANGED <<query, rowset, made, reading>>
Succeeds ==
  /\ step = "call" /\ UNCHANGED <<query, rowset, reading, answer, broke>>
  /\ made' = made + 1 /\ step' = IF made' < Len(Calls) THEN "call" ELSE "fetch"
\* Execute may leave no rowset at all.
NoRowset ==
  /\ step = "call" /\ Calls[made + 1] = "execute" /\ Answers(Hits(<<>>)) /\ rowset' = <<>>
  /\ UNCHANGED <<query, made, reading, broke>>

-----------------------------------------------------------------------------
(* read_rows.                                                              *)

Notes(what) ==
  /\ fetch_error' = IF fetch_error = "none" THEN what ELSE fetch_error
  /\ broke' = broke \cup {what}
Reading == UNCHANGED <<query, rowset, made>>

Want == IF max - Len(hits) < FetchBatch THEN max - Len(hits) ELSE FetchBatch

\* A batch of the rows wanted, none only at the end. One that fails ends the reading,
\* and it fails when the last was not released.
FetchRows ==
  /\ step = "fetch" /\ Len(hits) < max /\ ~unreleased
  /\ \E n \in 0..Want :
       /\ at + n <= Len(rowset) /\ (n = 0 => at = Len(rowset))
       /\ upto' = at + n /\ step' = IF n = 0 THEN "end" ELSE "data"
  /\ Reading /\ UNCHANGED <<at, hits, fetch_error, unreleased, answer, broke>>
FetchFails ==
  /\ step = "fetch" /\ Len(hits) < max /\ Notes("fetch") /\ step' = "end"
  /\ Reading /\ UNCHANGED <<at, upto, hits, unreleased, answer>>
Enough ==
  /\ step = "fetch" /\ Len(hits) >= max /\ step' = "end"
  /\ Reading /\ UNCHANGED <<reading, answer, broke>>

\* A row that cannot be read is noted and left out.
GetData ==
  /\ step = "data" /\ at < upto /\ at' = at + 1
  /\ hits' = IF rowset[at + 1] = "path" THEN Append(hits, at + 1) ELSE hits
  /\ IF rowset[at + 1] = "unreadable" THEN Notes("row") ELSE UNCHANGED <<fetch_error, broke>>
  /\ Reading /\ UNCHANGED <<step, upto, unreleased, answer>>

ReleaseRows ==
  /\ step = "data" /\ at = upto /\ step' = "fetch"
  /\ \/ UNCHANGED <<unreleased, fetch_error, broke>>
     \/ unreleased' = TRUE /\ Notes("release")
  /\ Reading /\ UNCHANGED <<at, upto, hits, answer>>

\* Nothing read and an error noted is a failure; something read is worth showing.
ReadRowsQuiet ==   \* mutant: what could not be read is not there
  /\ step = "end" /\ Answers(Hits(hits))
  /\ Reading /\ UNCHANGED <<reading, broke>>
ReadRows ==
  /\ step = "end"
  /\ Answers(IF hits = <<>> /\ fetch_error # "none" THEN Failure(fetch_error) ELSE Hits(hits))
  /\ Reading /\ UNCHANGED <<reading, broke>>

SearchNext ==
  \/ Search \/ Fails \/ Succeeds \/ NoRowset
  \/ FetchRows \/ FetchFails \/ Enough \/ GetData \/ ReleaseRows \/ ReadRows

SearchSpec == SearchInit /\ [][SearchNext]_searchVars

-----------------------------------------------------------------------------
Found == {answer.hits[i] : i \in DOMAIN answer.hits}

\* SPEC 3.1: a search that could not be made is never an empty result, and a service
\* that is not there is told apart from a query that failed. What is answered are rows
\* with a path, in their order, none twice, none left out between two and no more than
\* asked for: all of them unless something failed on the way.
FallbackIsHonest ==
  step = "done" =>
    /\ answer.kind = "unavailable" <=> broke \cap Absent # {}
    /\ answer = Hits(<<>>) => broke = {}
    /\ answer.kind # "ok" => answer.hits = <<>>
    /\ \A i, j \in DOMAIN answer.hits : i < j => answer.hits[i] < answer.hits[j]
    /\ \A f \in Found : rowset[f] = "path"
    /\ \A f \in Found, r \in DOMAIN rowset : r < f /\ rowset[r] = "path" => r \in Found
    /\ Len(answer.hits) <= max
    /\ broke = {} /\ ~blank /\ Len(answer.hits) < max =>
         \A r \in DOMAIN rowset : rowset[r] = "path" => r \in Found
=============================================================================
