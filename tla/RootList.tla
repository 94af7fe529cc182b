------------------------------ MODULE RootList ------------------------------
(***************************************************************************)
(* The launcher's page (src/apps/shell/src/App.tsx): a query, the rows its *)
(* generation collects from two providers, the selection, the action panel *)
(* and the views opened in place of the list.                              *)
(*                                                                         *)
(* An event handler or an animation frame runs alone; between them lie the *)
(* wire (Tauri's events, in order), the buffers a frame empties, and the   *)
(* gap between committing a list and React rendering it: `rows` and `sel`  *)
(* are what the last commit computed, `shown` is what the user sees.       *)
(* The shell answers at once and sends its rows before it asks for files;  *)
(* files come from the service in batches or from the fallback in one.     *)
(***************************************************************************)
EXTENDS RowMerge

CONSTANTS
  Queries, Empty,       \* texts of the query field, the empty one among them
  ShellRows,            \* ShellRows[q]: calculator, apps, windows, commands, settings, in that order
  FileBatches,          \* FileBatches[q]: the service's batches
  FallbackRows,         \* FallbackRows[q]: what Windows Search finds
  MaxGen, MaxMoves, MaxRuns  \* bounds of a run

ASSUME RootAssumption ==
  /\ Empty \in Queries /\ {MaxGen, MaxMoves, MaxRuns} \subseteq Nat
  /\ InlineCap \in Nat
  /\ {ShellRows, FallbackRows} \subseteq [Queries -> Seq(ListRow)]
  /\ FileBatches \in [Queries -> Seq(Seq(ListRow))]
  /\ ShellRows[Empty] = <<>> /\ FallbackRows[Empty] = <<>> /\ FileBatches[Empty] = << <<>> >>
  /\ \A q \in Queries : Len(FileBatches[q]) > 0

VARIABLES
  lastGen,    \* ipc.ts generation: the counter every consumer draws from
  gen,        \* genRef
  query,      \* query, queryRef
  st,         \* stateRef: [apps, files, frozen, key]
  buffers,    \* shellBufferRef and filesBufferRef with fallbackBufferRef: events of `gen` only
  raf,        \* rafRef # null
  rows, sel,  \* mergedRef, and the selection the same commit chose
  shown,      \* the rendered rows and selection: [rows, sel]
  panel,      \* panelOpen: [key, held], the row the panel was opened over or NoKey, and whether
              \* the list it lies on is the frozen one
  view,       \* "search" or "files"
  wire,       \* events on their way to the page: [gen, from, rows, final]
  stream,     \* the query being answered with files: [gen, batches]
  spoken,     \* announcement: [gen, top, count]
  moves, ran, runs,  \* arrow keys pressed; the last action: [key, aimed, held]; how many
  applied,    \* file rows applied for `gen`, as they came
  cut         \* a view took the service from this query and a reset closed that view

page  == <<gen, query, st, buffers, raf, rows, sel, shown, spoken, applied, cut>>
other == <<lastGen, wire, stream, moves, ran, runs>>
vars  == <<page, panel, view, other>>

Fresh == [apps |-> <<>>, files |-> <<>>, frozen |-> <<>>, key |-> NoKey]
NoPanel == [key |-> NoKey, held |-> FALSE]
Silence == [gen |-> 0, top |-> NoKey, count |-> 0]
Clamp(i, list) == IF i > Len(list) THEN (IF list = <<>> THEN 1 ELSE Len(list)) ELSE IF i < 1 THEN 1 ELSE i
Pointed == IF shown.rows = <<>> THEN NoKey ELSE shown.rows[Clamp(shown.sel, shown.rows)].key

-----------------------------------------------------------------------------
(* Outside the page.                                                       *)

\* The shell's search command: its own rows first, then files from whoever is there.
Answer(g, q) ==
  /\ wire' = Append(wire, [gen |-> g, from |-> "shell", rows |-> ShellRows[q], final |-> FALSE])
  /\ stream' \in {[gen |-> g, batches |-> b] : b \in {FileBatches[q], <<FallbackRows[q]>>}}

SendBatch ==
  /\ stream.batches # <<>>
  /\ wire' = Append(wire, [gen |-> stream.gen, from |-> "files", rows |-> Head(stream.batches),
                           final |-> Len(stream.batches) = 1])
  /\ stream' = [stream EXCEPT !.batches = Tail(@)]
  /\ UNCHANGED <<page, panel, view, lastGen, moves, ran, runs>>

-----------------------------------------------------------------------------
(* Arrivals and frames.                                                    *)

Accepts(e) == e.gen = gen

Receive ==
  /\ wire # <<>>
  /\ IF Accepts(Head(wire)) THEN buffers' = Append(buffers, Head(wire)) /\ raf' = TRUE
     ELSE UNCHANGED <<buffers, raf>>
  /\ wire' = Tail(wire)
  /\ UNCHANGED <<gen, query, st, rows, sel, shown, spoken, applied, cut, panel, view, lastGen, stream, moves, ran, runs>>

FinalSeen(arrived) == \E i \in DOMAIN arrived : arrived[i].final
Announces(arrived) == FinalSeen(arrived)

\* applyBuffered and commit: at most one frame for a burst of arrivals.
ApplyBuffered ==
  /\ raf
  /\ raf' = FALSE /\ buffers' = <<>>
  /\ IF buffers = <<>> THEN UNCHANGED <<st, rows, sel, spoken, applied>>
     ELSE LET From(who) == AtPlaces(buffers, {i \in DOMAIN buffers : buffers[i].from = who})
              mine     == From("shell")
              arrived  == From("files")
              newFiles == FlattenSeq([i \in DOMAIN arrived |-> arrived[i].rows])
          IN  \E now \in {[st EXCEPT !.apps = IF mine = <<>> THEN @ ELSE Last(mine).rows,
                                    !.files = CollapseSameName(@ \o newFiles, InlineCap)]} :
              \E merged \in {MergeRows(now.apps, now.files, now.frozen, now.key)} :
              /\ st' = now /\ rows' = merged /\ sel' = SelectionIndex(merged, now.key)
              /\ applied' = applied \o newFiles
              /\ spoken' = IF ~Announces(arrived) THEN spoken
                           ELSE IF query = Empty THEN Silence
                           ELSE [gen |-> gen, count |-> Len(merged),
                                 top |-> IF merged = <<>> THEN NoKey ELSE merged[1].key]
  /\ UNCHANGED <<gen, query, shown, cut, panel, view, other>>

\* React renders what was committed, some time after the frame.
Render ==
  /\ shown # [rows |-> rows, sel |-> sel]
  /\ shown' = [rows |-> rows, sel |-> sel]
  /\ UNCHANGED <<gen, query, st, buffers, raf, rows, sel, spoken, applied, cut, panel, view, other>>

-----------------------------------------------------------------------------
(* The keyboard.                                                           *)

\* startGeneration; the event that calls it flushes the empty list at once.
StartGeneration(text) ==
  /\ lastGen' = lastGen + 1 /\ gen' = lastGen + 1 /\ query' = text
  /\ st' = Fresh /\ buffers' = <<>> /\ applied' = <<>> /\ cut' = FALSE
  /\ rows' = <<>> /\ sel' = 1 /\ shown' = [rows |-> <<>>, sel |-> 1]
  /\ Answer(lastGen + 1, text)

InList == view = "search" /\ panel = NoPanel

\* A keystroke, or Escape clearing a query that is not empty.
Type(text) ==
  /\ InList /\ text # query /\ lastGen < MaxGen
  /\ StartGeneration(text)
  /\ UNCHANGED <<raf, spoken, panel, view, moves, ran, runs>>

\* moveSelection goes by the last merge, not by what is rendered, and freezes it.
MoveSelection(delta) ==
  /\ InList /\ moves < MaxMoves
  /\ moves' = moves + 1
  /\ LET next == Clamp(IF delta = "down" THEN sel + 1 ELSE sel - 1, rows)
     IN  /\ sel' = next
         /\ st' = IF rows = <<>> THEN st ELSE [st EXCEPT !.key = rows[next].key, !.frozen = rows]
         /\ shown' = [shown EXCEPT !.sel = next]
  /\ UNCHANGED <<gen, query, buffers, raf, rows, spoken, applied, cut, panel, view, lastGen, wire, stream, ran, runs>>

Runs(key, aimed, held) ==
  /\ runs < MaxRuns /\ runs' = runs + 1
  /\ ran' = [key |-> key, aimed |-> aimed, held |-> held]

\* Enter and the modifier chords, on the rendered row.
Enter ==
  /\ InList /\ Pointed # NoKey
  /\ Runs(Pointed, Pointed, TRUE)
  /\ UNCHANGED <<page, panel, view, lastGen, wire, stream, moves>>

OpenPanel ==
  /\ InList /\ Pointed # NoKey
  /\ panel' = [key |-> Pointed, held |-> st.key # NoKey /\ shown.rows = rows]
  /\ UNCHANGED <<page, view, other>>

\* runPanelAction: the row is looked up again when the action is chosen.
RunPanelAction ==
  /\ view = "search" /\ panel # NoPanel /\ Pointed # NoKey
  /\ Runs(Pointed, panel.key, panel.held)
  /\ panel' = NoPanel
  /\ UNCHANGED <<page, view, lastGen, wire, stream, moves>>

ClosePanel ==
  /\ panel # NoPanel
  /\ panel' = NoPanel
  /\ UNCHANGED <<page, view, other>>

-----------------------------------------------------------------------------
(* Views.                                                                  *)

\* A view opens from a row or from the tray, whose menu dismisses the panel.
OpenView ==
  /\ InList /\ lastGen < MaxGen
  /\ view' = "files"
  /\ UNCHANGED <<page, panel, other>>

\* The File Search view draws a generation of its own: the service drops
\* whatever it was still streaming.
FilesQuery ==
  /\ view = "files" /\ lastGen < MaxGen
  /\ lastGen' = lastGen + 1
  /\ stream' = [gen |-> lastGen + 1, batches |-> <<>>]
  /\ UNCHANGED <<page, panel, view, wire, moves, ran, runs>>

\* Escape in a view.
CloseViewKeeping ==   \* mutant: the query is not asked again
  /\ view = "files"
  /\ view' = "search"
  /\ UNCHANGED <<page, panel, other>>
CloseView ==
  /\ view = "files"
  /\ view' = "search"
  /\ IF query = Empty THEN UNCHANGED <<page, lastGen, wire, stream>>
     ELSE StartGeneration(query) /\ UNCHANGED <<raf, spoken>>
  /\ UNCHANGED <<panel, moves, ran, runs>>

\* Dismissed from anywhere, by the hotkey or by losing the focus.
ViewReset ==
  /\ view' = "search" /\ panel' = NoPanel
  /\ cut' = (cut \/ (view = "files" /\ stream.gen # gen))
  /\ UNCHANGED <<gen, query, st, buffers, raf, rows, sel, shown, spoken, applied, other>>

-----------------------------------------------------------------------------
Init ==
  /\ lastGen = 0 /\ gen = 0 /\ query = Empty
  /\ st = Fresh /\ buffers = <<>> /\ raf = FALSE /\ applied = <<>> /\ cut = FALSE
  /\ rows = <<>> /\ sel = 1 /\ shown = [rows |-> <<>>, sel |-> 1]
  /\ panel = NoPanel /\ view = "search"
  /\ wire = <<>> /\ stream = [gen |-> 0, batches |-> <<>>] /\ spoken = Silence
  /\ moves = 0 /\ runs = 0 /\ ran = [key |-> NoKey, aimed |-> NoKey, held |-> FALSE]

Arrivals == SendBatch \/ Receive \/ ApplyBuffered \/ Render
Keys     == \/ \E q \in Queries : Type(q)
            \/ \E d \in {"up", "down"} : MoveSelection(d)
            \/ Enter \/ OpenPanel \/ RunPanelAction \/ ClosePanel
Views    == OpenView \/ FilesQuery \/ CloseView \/ ViewReset
Next     == Arrivals \/ Keys \/ Views

\* The providers answer, events arrive and a visible window gets its frames; a
\* user leaves a view at some time and types no further while a list completes.
Fairness ==
  /\ WF_vars(SendBatch) /\ WF_vars(Receive) /\ WF_vars(Render)
  /\ WF_raf(raf /\ raf' = FALSE)   \* only ApplyBuffered ends a frame, and it always can
  /\ WF_vars(CloseView)
Spec == Init /\ [][Next]_vars /\ Fairness

-----------------------------------------------------------------------------
\* "Merge never moves the selection": once moved it stays on its row, at its
\* place, and every row above and below it that was there stays where it was.
SelectionSticks ==
  [][gen' = gen /\ st.key # NoKey =>
       /\ rows' # <<>> /\ rows'[sel'].key = st'.key
       /\ \A i \in DOMAIN st.frozen : rows'[i].key = rows[i].key]_vars

\* "Announce the SETTLED set, not every batch": what is spoken of a query comes
\* when all its rows are there, and names the row Enter would run and the count.
AllApplied == /\ st.apps = ShellRows[query]
              /\ applied \in {FlattenSeq(FileBatches[query]), FallbackRows[query]}
SpokenIsSettled ==
  spoken.gen = gen /\ gen > 0
    => /\ AllApplied
       /\ \/ st.key # NoKey
          \/ spoken.count = Len(rows) /\ (rows = <<>> \/ spoken.top = rows[1].key)

\* An action runs on the row it was aimed at, also through the panel when that
\* was opened over a selection the user had moved, in the list as it was merged.
AimedActionsHit == [][runs' # runs /\ ran'.held => ran'.key = ran'.aimed]_vars

\* The selection is the user's: no arrival moves it, no action misses it.
SelectionIsKept == SelectionSticks /\ AimedActionsHit

\* A query left in the field gets its whole list, also when the File Search
\* view superseded it half-way and was closed again. A reset is exempt.
ListCompletes ==
  \A q \in Queries \ {Empty} : query = q ~> (query # q \/ (AllApplied /\ shown.rows = rows) \/ cut)

\* The list is whole in the end, and nothing is announced of it before.
ListIsWhole == []SpokenIsSettled /\ ListCompletes

\* SPEC 5.11: "MUST NOT move or re-index the currently selected row".
PanelActsOnItsRow == [][runs' # runs => ran'.key = ran'.aimed]_vars
=============================================================================
