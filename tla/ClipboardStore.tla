--------------------------- MODULE ClipboardStore ---------------------------
(***************************************************************************)
(* The clipboard history of the shell (src/apps/shell/src-tauri/src/       *)
(* clipboard.rs): rows in an SQLite file, a searchable index in memory,    *)
(* and three threads that meet in them.                                    *)
(*                                                                         *)
(*   loader    opens the file, reads the rows, reconciles them with what   *)
(*             was captured meanwhile, prunes, ends;                       *)
(*   listener  one capture per WM_CLIPBOARDUPDATE;                         *)
(*   main      lists, pastes, deletes, clears, pauses.                     *)
(*                                                                         *)
(* Each region that holds the `db` or the `entries` lock is one step; what *)
(* a thread carries from one region to the next is in `loader` and `cap`.  *)
(* A text stands for a content and its hash: two contents with one hash,   *)
(* previews, sources and encryption are left out. Every statement that     *)
(* writes the table may be refused, also where the code ignores that.      *)
(***************************************************************************)
EXTENDS Integers, SequencesExt, Subsequences

CONSTANTS
  Texts,         \* what can be copied
  NoText,        \* no content
  TextNo,        \* TextNo[t]: the hash of t modulo 1000, the low part of a memory-only id
  IndexEntries,  \* INDEX_ENTRIES
  MaxEntries,    \* MAX_ENTRIES
  Retention,     \* RETENTION_DAYS, in ticks of `now`
  MaxClock, MaxRows, MaxIncidents  \* bounds: the clock, rows ever inserted, faults and restarts

ASSUME ClipAssumption ==
  /\ NoText \notin Texts
  /\ TextNo \in [Texts -> 0..999]
  /\ IndexEntries \in Nat \ {0} /\ MaxEntries \in Nat
  /\ Retention \in Nat /\ {MaxClock, MaxRows, MaxIncidents} \subseteq Nat /\ MaxRows > 0
  /\ 2 * IndexEntries + (IF IndexEntries = 1 THEN 0 ELSE MaxIncidents) <= MaxEntries

VARIABLES
  disk,      \* the rows of the table: [id, text, ts]
  lastRow,   \* AUTOINCREMENT's memory: the largest id ever handed out
  db,        \* Db: "loading", "ready", "failed"
  index,     \* entries, newest first: [id, text, ts, pending]
  enabled,   \* enabled, and clipboard.capture in settings.json, which outlives the process
  deferred,  \* cleared_while_loading
  loader,    \* the loader thread: [pc, rows]
  cap,       \* the listener thread: [pc, text, ts, id, raced]
  given,     \* what the history view was last given: [id, text]
  now,       \* the wall clock
  faults, restarts,  \* how many there were
  owed,      \* rows a clear accepted while the store loads has promised to forget
  broken,    \* those of them whose promise was dropped: killed, not opened, not deleted
  loose,     \* listed entries without their row's company: the capture was overtaken
             \* between its two locks, or an ignored UPDATE was refused
  unpruned   \* the last prune was refused the DELETE by count

stored  == <<disk, lastRow>>
memory  == <<db, index, enabled, deferred>>
threads == <<loader, cap>>
outside == <<given, now>>
budget  == <<faults, restarts>>
ghosts  == <<owed, broken, loose, unpruned>>
clipVars == <<stored, memory, threads, outside, budget, ghosts>>

Row   == [id : 1..MaxRows, text : Texts, ts : 0..MaxClock]
Entry == [id : Int, text : Texts, ts : 0..MaxClock, pending : BOOLEAN]
Idle  == [pc |-> "idle", text |-> NoText, ts |-> 0, id |-> 0, raced |-> FALSE]

-----------------------------------------------------------------------------
(* Reading and writing the two halves of the history.                      *)

IdsOf(rows)  == {r.id : r \in rows}
Listed       == ToSet(index)
Cutoff       == now - Retention
Unexpired(rows)  == {r \in rows : r.ts >= Cutoff}

\* ORDER BY ts DESC over the index entries_ts: equal stamps in rowid order.
Newer(a, b) == a.ts > b.ts \/ (a.ts = b.ts /\ a.id < b.id)
NewestFirst(rows) ==
  LET Place(r) == Cardinality({q \in rows : q = r \/ Newer(q, r)})
  IN  [n \in 1..Cardinality(rows) |-> CHOOSE r \in rows : Place(r) = n]

NextRowReused == Max({0} \cup IdsOf(disk)) + 1   \* mutant: no AUTOINCREMENT
NextRow == lastRow + 1
\* The entries of the list that E holds for.
Retained(E(_)) == AtPlaces(index, {i \in DOMAIN index : E(index[i])})

\* Entries whose capture was overtaken by attach, a clear or the loader's prune.
Overtaken == loose \cup IF cap.raced THEN {cap.id} ELSE {}

AsEntry(r) == [id |-> r.id, text |-> r.text, ts |-> r.ts, pending |-> FALSE]

\* Bound: no more rows bear one stamp, a second, than the table keeps beyond twice
\* the index, 8,001, and beyond what refused deletes keep above an entry still listed.
SpreadBound == MaxEntries - 2 * IndexEntries + 1 - (IF IndexEntries = 1 THEN 0 ELSE MaxIncidents)
Spread == \A t \in 0..MaxClock : Cardinality({r \in disk' : r.ts = t}) <= SpreadBound

\* What the operating system or the database may refuse.
Fault == faults + restarts < MaxIncidents /\ faults' = faults + 1

\* A DELETE of all rows but these, if the table is reachable. One that is refused
\* comes after the list has dropped the entries.
DeleteAllBut(kept) ==
  IF db # "ready" THEN UNCHANGED <<disk, faults>>
  ELSE \/ disk' = kept /\ UNCHANGED faults
       \/ UNCHANGED disk /\ Fault

\* mutant: by age only
PruneByAge ==
  /\ index' = Retained(LAMBDA e : e.ts >= Cutoff)
  /\ disk' = IF db = "ready" THEN Unexpired(disk) ELSE disk
  /\ UNCHANGED <<faults, unpruned>>

\* prune: age in both halves, count in the table only, and the table only when it is
\* reachable. Each DELETE may be refused, which is ignored.
Prune ==
  /\ index' = Retained(LAMBDA e : e.ts >= Cutoff)
  /\ IF db # "ready" THEN UNCHANGED <<disk, faults, unpruned>>
     ELSE \E aged, counted \in BOOLEAN :
            LET kept == IF aged THEN Unexpired(disk) ELSE disk
            IN  /\ disk' = IF counted THEN ToSet(FirstN(NewestFirst(kept), MaxEntries)) ELSE kept
                /\ unpruned' = ~counted
                /\ IF aged /\ counted THEN UNCHANGED faults ELSE Fault

\* content: the entry's own sealed copy if it has one, or else the row of that id.
Content(id) ==
  LET own == Retained(LAMBDA e : e.id = id)
      row == {r \in disk : r.id = id}
  IN  IF own # <<>> /\ own[1].pending THEN own[1].text
      ELSE IF db = "ready" /\ row # {} THEN (CHOOSE r \in row : TRUE).text
      ELSE NoText

-----------------------------------------------------------------------------
(* The clipboard and the listener thread.                                  *)

Tick ==
  /\ now < MaxClock
  /\ now' = now + 1
  /\ UNCHANGED <<stored, memory, threads, given, budget, ghosts>>

\* WM_CLIPBOARDUPDATE, which any program may cause at any moment: capture
\* begins, and a paused history does not look.
CheckEnabled ==
  /\ cap.pc = "idle" /\ enabled
  /\ cap' = [Idle EXCEPT !.pc = "read"]
  /\ UNCHANGED <<stored, memory, loader, outside, budget, ghosts>>

\* read_clipboard: whatever text is there when it opens, which may be a later
\* copy than the one announced. Nothing is kept when another process holds the
\* clipboard through every attempt, or of what read_open_clipboard refuses: an
\* exclusion format, nothing but blanks, more than MAX_CONTENT_BYTES.
ReadClipboard ==
  /\ cap.pc = "read"
  /\ cap' \in {Idle} \cup {[cap EXCEPT !.pc = "find", !.text = t] : t \in Texts}
  /\ UNCHANGED <<stored, memory, loader, outside, budget, ghosts>>

\* The same thing copied twice is one entry, moved to the top.
Promote ==
  /\ cap.pc = "find"
  /\ \E i \in DOMAIN index :
       /\ index[i].text = cap.text
       /\ \A j \in 1..(i - 1) : index[j].text # cap.text
       /\ index' = <<[index[i] EXCEPT !.ts = now]>> \o RemoveAt(index, i)
       /\ cap' = [cap EXCEPT !.pc = "touch", !.id = index[i].id, !.ts = now]
  /\ UNCHANGED <<stored, db, enabled, deferred, loader, outside, budget, ghosts>>

\* The UPDATE that gives the row the entry's stamp. If it is refused, which is
\* ignored, the row stays as old as it was under an entry that is the newest.
TouchRow ==
  /\ cap.pc = "touch"
  /\ \/ /\ disk' = IF db = "ready"
                   THEN {IF r.id = cap.id THEN [r EXCEPT !.ts = cap.ts] ELSE r : r \in disk} ELSE disk
        /\ Spread
        /\ loose' = Overtaken \ ({cap.id} \cap IdsOf(disk))
        /\ UNCHANGED faults
     \/ /\ db = "ready" /\ Fault
        /\ loose' = Overtaken \cup {cap.id}
        /\ UNCHANGED disk
  /\ cap' = Idle
  /\ UNCHANGED <<lastRow, memory, loader, outside, restarts, owed, broken, unpruned>>

Missing ==
  /\ cap.pc = "find" /\ \A e \in Listed : e.text # cap.text
  /\ cap' = [cap EXCEPT !.pc = "store", !.ts = now]
  /\ UNCHANGED <<stored, memory, loader, outside, budget, ghosts>>

\* Under the db lock: a row if the store is ready, a memory-only id if not.
StoreRow ==
  /\ cap.pc = "store"
  /\ IF db = "ready"
     THEN \/ /\ NextRow <= MaxRows
             /\ disk' = disk \cup {[id |-> NextRow, text |-> cap.text, ts |-> cap.ts]}
             /\ Spread
             /\ lastRow' = NextRow
             /\ cap' = [cap EXCEPT !.pc = "list", !.id = NextRow]
          \/ cap' = Idle /\ UNCHANGED <<disk, lastRow>>
     ELSE /\ cap' = [cap EXCEPT !.pc = "list", !.id = -(cap.ts * 1000 + TextNo[cap.text])]
          /\ UNCHANGED <<disk, lastRow>>
  /\ UNCHANGED <<memory, loader, outside, budget, ghosts>>

\* Under the entries lock, taken after the db lock was given up.
ListEntry ==
  /\ cap.pc = "list"
  /\ index' = FirstN(<<[id |-> cap.id, text |-> cap.text, ts |-> cap.ts, pending |-> cap.id <= 0]>>
                   \o index, IndexEntries)
  /\ loose' = Overtaken \cap {e.id : e \in ToSet(index')}
  /\ cap' = [Idle EXCEPT !.pc = "prune"]
  /\ UNCHANGED <<stored, db, enabled, deferred, loader, outside, budget, owed, broken, unpruned>>

ListenerPrunes ==
  /\ cap.pc = "prune"
  /\ Prune
  /\ cap' = Idle
  /\ UNCHANGED <<lastRow, db, enabled, deferred, loader, outside, restarts, owed, broken, loose>>

-----------------------------------------------------------------------------
(* The loader thread.                                                      *)

\* A capture that is between two of its steps when the store moves under it.
Racing == IF cap.pc \in {"store", "list", "touch"} THEN [cap EXCEPT !.raced = TRUE] ELSE cap

\* A clear promised to forget rows and will not: they are still there.
DropPromise(when) ==
  LET kept == IF when THEN owed \cap IdsOf(disk) ELSE {}
  IN  owed' = owed \ kept /\ broken' = broken \cup kept

\* The directory, the file or the thread itself cannot be had. A clear that
\* was accepted while loading has no one left to apply it.
LoadFails ==
  /\ loader.pc = "opening"
  /\ Fault
  /\ loader' = [pc |-> "done", rows |-> <<>>]
  /\ db' \in {"failed", "loading"}
  /\ DropPromise(deferred)
  /\ UNCHANGED <<stored, index, enabled, deferred, cap, outside, restarts, loose, unpruned>>

\* open_db: the newest rows, without those retention is about to reap.
OpenDb ==
  /\ loader.pc = "opening"
  /\ loader' = [pc |-> "opened", rows |-> FirstN(NewestFirst(Unexpired(disk)), IndexEntries)]
  /\ UNCHANGED <<stored, memory, cap, outside, budget, ghosts>>

\* mutant: a row is adopted but not its id
ReconciledUnadopted(s, e, failing) ==
  [s EXCEPT !.index = <<[e EXCEPT !.pending = e.pending /\ e.text \notin {r.text : r \in s.disk}]>> \o @]

(* Gives one memory-only entry a row: the stored row of the same text is   *)
(* found and adopted, its stamp moved up; otherwise a new one is inserted. *)
(* Of the calls this takes for a text those in failing fail: to find the   *)
(* row (then none is known), to stamp it (ignored), to seal and keep a new *)
(* one (the entry stays memory-only).                                      *)
Reconciled(s, e, failing) ==
  LET fails(call) == <<call, e.text>> \in failing
      twins == IF fails("find") THEN {} ELSE {r \in s.disk : r.text = e.text}
      twin  == CHOOSE r \in twins : \A q \in twins : r.id <= q.id
      kept(id) == [id |-> id, text |-> e.text, ts |-> e.ts, pending |-> FALSE]
  IN  CASE ~e.pending -> [s EXCEPT !.index = <<e>> \o @]
        [] e.pending /\ twins # {} /\ ~fails("stamp") ->
             [s EXCEPT !.disk = (@ \ {twin}) \cup {[twin EXCEPT !.ts = e.ts]},
                       !.index = <<kept(twin.id)>> \o @]
        [] e.pending /\ twins # {} /\ fails("stamp") ->
             [s EXCEPT !.index = <<kept(twin.id)>> \o @, !.loose = @ \cup {twin.id}]
        [] e.pending /\ twins = {} /\ fails("keep") -> [s EXCEPT !.index = <<e>> \o @]
        [] OTHER ->
             [s EXCEPT !.last = @ + 1,
                       !.disk = @ \cup {[id |-> s.last + 1, text |-> e.text, ts |-> e.ts]},
                       !.index = <<kept(s.last + 1)>> \o @]

\* Every entry of the list in turn, the oldest first.
Reconciling(start, failing) ==
  LET after[k \in 0..Len(index)] ==
        IF k = 0 THEN start
        ELSE Reconciled(after[k - 1], index[Len(index) + 1 - k], failing)
  IN  after[Len(index)]

LoadedAnyway == loader.rows   \* mutant: the deferred clear forgets what was already read
LoadedRows == IF deferred THEN <<>> ELSE loader.rows

\* attach, under both locks: a deferred clear, the memory-only entries oldest
\* first, then the rows read that no entry in memory stands for.
Attach ==
  /\ loader.pc = "opened"
  /\ \E wiped \in BOOLEAN,
        failing \in SUBSET ({"find", "stamp", "keep"} \X {e.text : e \in {x \in Listed : x.pending}}) :
       LET start == [disk |-> IF deferred /\ wiped THEN {} ELSE disk, last |-> lastRow, index |-> <<>>,
                     loose |-> loose]
           end   == Reconciling(start, failing)
           seen  == {e.text : e \in Listed}
           older == AtPlaces(LoadedRows, {i \in DOMAIN LoadedRows : LoadedRows[i].text \notin seen})
       IN  /\ ~wiped => deferred
           /\ IF wiped /\ failing = {} THEN UNCHANGED faults ELSE Fault
           /\ end.last <= MaxRows
           /\ disk' = end.disk /\ Spread
           /\ lastRow' = end.last
           /\ index' = FirstN(end.index \o [i \in DOMAIN older |-> AsEntry(older[i])], IndexEntries)
           /\ loose' = end.loose
           /\ DropPromise(~wiped)
  /\ deferred' = FALSE
  /\ db' = "ready"
  /\ loader' = [pc |-> "prune", rows |-> <<>>]
  /\ cap' = Racing
  /\ UNCHANGED <<enabled, outside, restarts, unpruned>>

LoaderPrunes ==
  /\ loader.pc = "prune"
  /\ Prune
  /\ loader' = [loader EXCEPT !.pc = "done"]
  /\ cap' = Racing
  /\ UNCHANGED <<lastRow, db, enabled, deferred, outside, restarts, owed, broken, loose>>

-----------------------------------------------------------------------------
(* The commands of the history view, on the main thread.                   *)

ShowHistory ==
  /\ given' = {[id |-> e.id, text |-> e.text] : e \in Listed}
  /\ UNCHANGED <<stored, memory, threads, now, budget, ghosts>>

\* delete, by an id the view was given: the entry, and the row if it is reachable.
Delete ==
  \E s \in given :
    /\ index' = Retained(LAMBDA e : e.id # s.id)
    /\ DeleteAllBut({r \in disk : r.id # s.id})
    /\ UNCHANGED <<lastRow, db, enabled, deferred, threads, outside, restarts, ghosts>>

\* clear: while the store loads the rows cannot be named yet, and the loader is told
\* to forget them; a loader that is gone, or was never had, will not.
Clear ==
  /\ index' = <<>>
  /\ DeleteAllBut({})
  /\ deferred' = (deferred \/ db = "loading")
  /\ owed' = IF db = "loading" /\ loader.pc # "done" THEN owed \cup IdsOf(disk) ELSE owed
  /\ broken' = IF db = "loading" /\ loader.pc = "done" THEN broken \cup IdsOf(disk) ELSE broken
  /\ cap' = Racing
  /\ UNCHANGED <<lastRow, db, enabled, loader, outside, restarts, loose, unpruned>>

\* clipboard_set_enabled; a settings file that cannot be written is left out.
SetEnabled ==
  /\ enabled' = ~enabled
  /\ UNCHANGED <<stored, db, index, deferred, threads, outside, budget, ghosts>>

\* The shell is killed, or quits, between any two steps, and starts again.
Restart ==
  /\ faults + restarts < MaxIncidents
  /\ restarts' = restarts + 1
  /\ db' = "loading" /\ index' = <<>> /\ deferred' = FALSE
  /\ loader' = [pc |-> "opening", rows |-> <<>>]
  /\ cap' = Idle /\ given' = {}
  /\ DropPromise(deferred)
  /\ loose' = {}
  /\ UNCHANGED <<stored, enabled, now, faults, unpruned>>

-----------------------------------------------------------------------------
\* An earlier session may have left a row.
ClipInit ==
  /\ disk \in {{}} \cup {{[id |-> 1, text |-> t, ts |-> 0]} : t \in Texts}
  /\ lastRow = Cardinality(disk)
  /\ db = "loading" /\ index = <<>> /\ enabled = TRUE /\ deferred = FALSE
  /\ loader = [pc |-> "opening", rows |-> <<>>] /\ cap = Idle
  /\ given = {} /\ now = 0
  /\ faults = 0 /\ restarts = 0
  /\ owed = {} /\ broken = {} /\ loose = {} /\ unpruned = FALSE

Listener == \/ CheckEnabled \/ ReadClipboard \/ Promote \/ TouchRow \/ Missing
            \/ StoreRow \/ ListEntry \/ ListenerPrunes
Loader   == LoadFails \/ OpenDb \/ Attach \/ LoaderPrunes
Main     == ShowHistory \/ Delete \/ Clear \/ SetEnabled
ClipNext == Listener \/ Loader \/ Main \/ Restart \/ Tick
ClipSpec == ClipInit /\ [][ClipNext]_clipVars
-----------------------------------------------------------------------------
(* What the three threads keep true of the two halves.                     *)

\* The two halves keep their types and their caps: the index never exceeds
\* INDEX_ENTRIES, every id was handed out once and only once to one text, and
\* with no thread about to prune the table is within MAX_ENTRIES, unless the last
\* prune was refused its DELETE: the next that is not makes up for it.
StoreOK ==
  /\ \A r \in disk : r \in Row /\ r.id <= lastRow
  /\ \A r, q \in disk : r.id = q.id => r = q
  /\ Len(index) <= IndexEntries
  /\ \A e \in Listed : e \in Entry /\ e.id <= lastRow
  /\ db = "ready" /\ loader.pc = "done" /\ cap.pc # "list" /\ cap.pc # "prune" /\ ~unpruned
       => Cardinality(disk) <= MaxEntries

\* The texts an id handed out for t may name: a row's number just t, a memory-only
\* id, the second of the capture and TextNo, every text that has it in common.
Namesakes(id, t) == IF id > 0 THEN {t} ELSE {u \in Texts : TextNo[u] = TextNo[t]}

\* "Whatever the index lists has to be pastable" (content): an entry in the
\* list yields the text it stands for, from its own copy or from its row, on
\* either side of attach, of a prune and of a restart. Exempt are loose entries,
\* whose capture was overtaken between its two locks or whose row an ignored
\* UPDATE left behind, for a prune may reap it first; and a memory-only id may
\* stand for a namesake.
ListedIsPastable == \A e \in Listed : Content(e.id) \in Namesakes(e.id, e.text) \/ e.id \in Overtaken

\* A clear that arrives while the store loads names the rows the loader has
\* read or is about to: once attach has run, neither half ever brings one back. A
\* promise whose process ends first, whose store is not opened or whose DELETE is
\* refused is dropped (broken); every other is kept, before and after it.
ClearedStaysCleared ==
  db = "ready" => owed \cap (IdsOf(disk) \cup {e.id : e \in Listed}) = {}

\* An id the view still holds, from before attach renumbered an entry, a clear
\* emptied the table or a prune reaped a row, pastes its own text or nothing; a
\* memory-only one its own, a namesake's or nothing.
StaleIdIsSafe == \A s \in given : Content(s.id) \in Namesakes(s.id, s.text) \cup {NoText}

\* Once the store is ready an entry without a row is one whose insert failed
\* or whose capture was overtaken by attach.
MemoryOnlyIsExplained ==
  db = "ready" /\ faults = 0 => \A e \in Listed : e.pending => e.id \in Overtaken

\* The two halves of the history, the list and the table, keep within their
\* caps and to one numbering, and differ only by what a fault or a race explains.
HalvesAgree == StoreOK /\ MemoryOnlyIsExplained

\* clear: "so the success reported here is one that actually happens".
ClearIsKept == db # "loading" => IdsOf(disk) \cap (owed \cup broken) = {}
=============================================================================
