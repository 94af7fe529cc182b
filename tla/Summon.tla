------------------------------- MODULE Summon -------------------------------
(***************************************************************************)
(* Summoning and dismissing the launcher: lib.rs (toggle, show, dismiss,   *)
(* show_view, frontend_ready, set_in_view, set_launcher_height), focus.rs, *)
(* hotkey_signal.rs, tray.rs, clipboard::paste, and the part of App.tsx    *)
(* that opens a view and reports it.                                       *)
(*                                                                         *)
(* Everything the shell does here runs on its main thread, one handler at  *)
(* a time. Between handlers the user and Windows move the foreground, and  *)
(* the page takes the events emitted to it and sends commands, both in     *)
(* order. `w` holds what show and dismiss change together; Shown and       *)
(* Hidden give the outcomes they can have.                                 *)
(***************************************************************************)
EXTENDS Naturals, Sequences

CONSTANTS
  Windows,    \* other programs' windows
  Views,      \* views opened in place of the list
  Height,     \* Height[v] of each of them, and of "search"
  MaxSummons, MaxMoves, MaxQueue  \* bounds: summons, changes of foreground, messages in flight each way

ASSUME SummonAssumption ==
  /\ {MaxSummons, MaxMoves, MaxQueue} \subseteq Nat
  /\ "clipboard" \in Views /\ {"search", "ready", "hide", "paste", "none"} \cap Views = {}
  /\ {"own", "none"} \cap Windows = {}

Own == "own"
None == "none"

VARIABLES
  alive,     \* other programs' windows that still exist
  w,         \* [fg, visible, height: Windows' side; prev: PREV_HWND; inView: ViewState;
             \*  from: the window the user was in when last summoning; raised: summoned again while
             \*  the launcher itself was in front; back: [to, due], the last hand-back that was not refused]
  blurred,   \* Focused(false) not handled yet
  warm, pending,  \* WarmState, PendingView
  paste,     \* clipboard::paste: [at, target], at one of idle, asleep, checked, or slipped
             \*  once the foreground moved after the check
  pasted,    \* [into, due, raised, slipped]: where Ctrl+V went, and where it should have
  toPage,    \* emitted view events: a view, or "search" for view:reset
  toShell,   \* commands: "ready", "hide", "paste", or the surface the page shows
  page,      \* loading, listening, ready
  asked, view,   \* the page's view as last set, and as rendered
  wanted,    \* the surface the user asked for last
  late, merged,  \* see ShowsWhatWasAsked and SurfaceAgrees
  summons, moves

ours == <<w, blurred, warm, pending, paste, pasted>>
wire == <<toPage, toShell>>
client == <<page, asked, view, wanted, merged>>
vars == <<alive, ours, wire, client, late, summons, moves>>

-----------------------------------------------------------------------------
(* show, dismiss and what they are made of.                                *)

\* remember_foreground; placement unless already up; force_foreground, which
\* the foreground lock may refuse.
ShownForgetful(s) ==   \* mutant: the window is remembered after the launcher took its place
  {[s EXCEPT !.prev = f, !.visible = TRUE, !.fg = f, !.from = s.fg,
             !.height = IF s.visible THEN @ ELSE Height["search"]] : f \in {Own, s.fg}}
ShownResized(s) ==   \* mutant: a raise places the window again
  {[s EXCEPT !.prev = s.fg, !.visible = TRUE, !.fg = f, !.height = Height["search"],
             !.from = IF s.fg = Own THEN @ ELSE s.fg,
             !.raised = s.fg = Own] : f \in {Own, s.fg}}
Shown(s) ==
  {[s EXCEPT !.prev = s.fg, !.visible = TRUE, !.fg = f,
             !.height = IF s.visible THEN @ ELSE Height["search"],
             !.from = IF s.fg = Own THEN @ ELSE s.fg,
             !.raised = s.fg = Own] : f \in {Own, s.fg}}

\* hide, then restore_foreground: the remembered window if it still exists
\* and Windows lets it, or whatever Windows put in the launcher's place. The
\* second component is what restore_foreground returns.
Hidden(s) ==
  LET gone   == [s EXCEPT !.visible = FALSE, !.inView = FALSE, !.prev = None]
      picked == IF s.fg = Own THEN alive \cup {None} ELSE {s.fg}
      given  == s.prev \in alive \cup {Own}
  IN  {<<[gone EXCEPT !.fg = f], None>> : f \in picked}
      \cup (IF ~given THEN {} ELSE
              {<<[gone EXCEPT !.fg = s.prev,
                              !.back = IF s.fg = Own THEN [to |-> s.prev, due |-> s.from, raised |-> s.raised]
                                       ELSE @], s.prev>>})

Emit(event) == toPage' = IF page = "loading" THEN toPage ELSE Append(toPage, event)

\* dismiss: the window the focus was given back to, or None; a launcher that is
\* not up is left alone.
Dismiss(given) ==
  IF w.visible
  THEN /\ \E o \in Hidden(w) : w' = o[1] /\ given = o[2]
       /\ Emit("search") /\ wanted' = "search" /\ late' = (late \/ pending # None)
  ELSE UNCHANGED <<w, toPage, wanted, late>> /\ given = None
GivenBack == alive \cup {Own, None}
JustDismiss == UNCHANGED paste /\ \E given \in GivenBack : Dismiss(given)

\* The main thread is free: no paste is asleep on it, and a lost focus, which
\* Windows reports at once, has been handled.
Free == paste.at = "idle" /\ ~blurred /\ Len(toPage) < MaxQueue
Summoned == summons < MaxSummons /\ summons' = summons + 1
Aside == UNCHANGED <<alive, blurred, warm, pasted, page, asked, view, merged, moves>>

-----------------------------------------------------------------------------
(* Ways in and out.                                                        *)

\* The chord, signal 0, a click on the tray icon.
Toggle ==
  /\ Free /\ Summoned /\ Aside
  /\ IF w.visible THEN JustDismiss
     ELSE w' \in Shown(w) /\ UNCHANGED <<paste, toPage, wanted, late>>
  /\ UNCHANGED <<pending, toShell>>

\* Signal 1, a second launch, "Open YSpot" of the tray.
Raise ==
  /\ Free /\ Summoned /\ Aside
  /\ w' \in Shown(w)
  /\ UNCHANGED <<pending, paste, wire, wanted, late>>

\* show_view, from the tray, signals 2 and 3, --settings, first run, a row. A
\* page that has not reported ready gets the event from frontend_ready.
PendingNone(v) == pending   \* mutant: the page is trusted to be listening
PendingFor(v) == IF warm THEN pending ELSE v
OpenView(v) ==
  /\ Free /\ Summoned /\ Aside
  /\ IF w.visible THEN UNCHANGED w ELSE w' \in Shown(w)
  /\ pending' = PendingFor(v)
  /\ Emit(v) /\ wanted' = v
  /\ UNCHANGED <<paste, toShell, late>>

\* Focused(false): a view with controls outlives it.
Blur ==
  /\ blurred /\ paste.at = "idle" /\ Len(toPage) < MaxQueue
  /\ blurred' = FALSE
  /\ IF w.inView THEN UNCHANGED <<w, paste, toPage, wanted, late>> ELSE JustDismiss
  /\ UNCHANGED <<alive, warm, pending, pasted, toShell, page, asked, view, merged, summons, moves>>

-----------------------------------------------------------------------------
(* Commands from the page.                                                 *)

Command(c) ==
  /\ Free /\ toShell # <<>> /\ Head(toShell) = c /\ toShell' = Tail(toShell)
  /\ UNCHANGED <<alive, blurred, pasted, page, asked, view, merged, summons, moves>>

\* set_launcher_height and set_in_view, which one effect sends together.
TakeSurface(v) ==
  /\ Command(v)
  /\ w' = [w EXCEPT !.height = Height[v], !.inView = v # "search"]
  /\ UNCHANGED <<warm, pending, paste, toPage, wanted, late>>

\* frontend_ready replays the view asked for before, once.
TakeReady ==
  /\ Command("ready")
  /\ warm' = TRUE /\ pending' = None
  /\ IF pending = None THEN UNCHANGED toPage ELSE Emit(pending)
  /\ UNCHANGED <<w, paste, wanted, late>>

\* hide_window, and an action that hands the user to another window.
TakeHide ==
  /\ Command("hide")
  /\ JustDismiss
  /\ UNCHANGED <<warm, pending>>

\* clipboard_paste: dismiss first; with a window to paste into, sleep.
TakePaste ==
  /\ Command("paste")
  /\ \E given \in GivenBack :
       /\ Dismiss(given)
       /\ paste' = IF given = None THEN paste ELSE [at |-> "asleep", target |-> given]
  /\ UNCHANGED <<warm, pending>>

\* After the sleep the target has to be in front; the keys follow.
PasteUnchecked ==   \* mutant: Ctrl+V is injected without looking
  /\ paste.at = "asleep"
  /\ paste' = [paste EXCEPT !.at = "checked"]
  /\ UNCHANGED <<alive, w, blurred, warm, pending, pasted, wire, client, late, summons, moves>>
PasteCheck ==
  /\ paste.at = "asleep"
  /\ paste' = IF w.fg = paste.target THEN [paste EXCEPT !.at = "checked"] ELSE [at |-> "idle", target |-> None]
  /\ UNCHANGED <<alive, w, blurred, warm, pending, pasted, wire, client, late, summons, moves>>
PasteKeys ==
  /\ paste.at \in {"checked", "slipped"}
  /\ pasted' = [into |-> w.fg, due |-> w.from, raised |-> w.raised, slipped |-> paste.at = "slipped"]
  /\ paste' = [at |-> "idle", target |-> None]
  /\ UNCHANGED <<alive, w, blurred, warm, pending, wire, client, late, summons, moves>>

-----------------------------------------------------------------------------
(* The page.                                                               *)

Said(c) == Len(toShell) < MaxQueue /\ toShell' = Append(toShell, c)
Elsewhere == UNCHANGED <<alive, ours, summons, moves>>

\* The first effects register the listeners and report the surface; the first
\* frame reports the page ready.
PageListens ==
  /\ page = "loading" /\ page' = "listening"
  /\ Said("search") /\ Elsewhere
  /\ UNCHANGED <<toPage, asked, view, wanted, merged, late>>
PageReady ==
  /\ page = "listening" /\ page' = "ready"
  /\ Said("ready") /\ Elsewhere
  /\ UNCHANGED <<toPage, asked, view, wanted, merged, late>>

\* Events set the view; rendering a view that changed reports it. Two events
\* between two renders may leave nothing to report.
PageTakes ==
  /\ toPage # <<>>
  /\ toPage' = Tail(toPage) /\ asked' = Head(toPage)
  /\ merged' = (merged \/ (asked # view /\ Head(toPage) = view))
  /\ Elsewhere /\ UNCHANGED <<toShell, page, view, wanted, late>>
PageRenders ==
  /\ asked # view
  /\ view' = asked /\ merged' = FALSE
  /\ Said(asked) /\ Elsewhere
  /\ UNCHANGED <<toPage, page, asked, wanted, late>>

\* Esc in a view; Esc or an action in the list; Enter on a clipboard entry. The
\* keyboard is the launcher's only while it is in front.
Typing == w.fg = Own /\ w.visible /\ page = "ready" /\ asked = view
CloseView ==
  /\ Typing /\ view # "search"
  /\ asked' = "search"
  /\ wanted' = IF toPage = <<>> THEN "search" ELSE wanted
  /\ late' = (late \/ pending # None)
  /\ Elsewhere /\ UNCHANGED <<wire, page, view, merged>>
Leave ==
  /\ Typing /\ view = "search" /\ Said("hide")
  /\ Elsewhere /\ UNCHANGED <<toPage, client, late>>
AskPaste ==
  /\ Typing /\ view = "clipboard" /\ Said("paste")
  /\ Elsewhere /\ UNCHANGED <<toPage, client, late>>

-----------------------------------------------------------------------------
(* The user and Windows, also between the check of a paste and its keys.    *)

Moved == moves < MaxMoves /\ moves' = moves + 1
Still == /\ paste' = IF paste.at = "checked" THEN [paste EXCEPT !.at = "slipped"] ELSE paste
         /\ UNCHANGED <<warm, pending, pasted, wire, client, late, summons>>

\* A click on a window, the launcher's too while it is up.
SwitchTo(other) ==
  /\ Moved /\ Still
  /\ other # w.fg /\ (other = Own => w.visible)
  /\ w' = [w EXCEPT !.fg = other]
  /\ blurred' = (blurred \/ w.fg = Own)
  /\ UNCHANGED alive

CloseWindow(other) ==
  /\ Moved /\ Still
  /\ alive' = alive \ {other}
  /\ IF w.fg = other THEN \E f \in alive' \cup {None} : w' = [w EXCEPT !.fg = f] ELSE UNCHANGED w
  /\ UNCHANGED blurred

-----------------------------------------------------------------------------
NoHandBack == [to |-> None, due |-> None, raised |-> FALSE]
Init ==
  /\ alive = Windows
  /\ \E f \in Windows :
       w = [fg |-> f, visible |-> FALSE, height |-> Height["search"], prev |-> None, inView |-> FALSE,
            from |-> None, raised |-> FALSE, back |-> NoHandBack]
  /\ blurred = FALSE /\ warm = FALSE /\ pending = None
  /\ paste = [at |-> "idle", target |-> None] /\ pasted = [into |-> None, due |-> None, raised |-> FALSE, slipped |-> FALSE]
  /\ toPage = <<>> /\ toShell = <<>>
  /\ page = "loading" /\ asked = "search" /\ view = "search" /\ wanted = "search"
  /\ late = FALSE /\ merged = FALSE /\ summons = 0 /\ moves = 0

Shell == \/ Toggle \/ Raise \/ Blur \/ \E v \in Views : OpenView(v)
         \/ TakeReady \/ TakeHide \/ TakePaste \/ PasteCheck \/ PasteKeys
         \/ \E v \in Views \cup {"search"} : TakeSurface(v)
Page  == PageListens \/ PageReady \/ PageTakes \/ PageRenders \/ CloseView \/ Leave \/ AskPaste
User  == \E other \in alive \cup {Own} : SwitchTo(other) \/ (other # Own /\ CloseWindow(other))
Next  == Shell \/ Page \/ User
Spec  == Init /\ [][Next]_vars

-----------------------------------------------------------------------------
Idle == /\ toPage = <<>> /\ toShell = <<>> /\ asked = view /\ page = "ready"
        /\ ~blurred /\ paste.at = "idle"

\* Summoned while it is in front itself the launcher remembers its own window.
Remembered(raised, due) == IF raised THEN Own ELSE due

\* SPEC 5.2: a dismissal hands focus back exactly where it was. Not so after the
\* launcher was raised while it was in front itself: then it goes to its own window;
\* everywhere else it does.
FocusGoesBack == w.back.to = Remembered(w.back.raised, w.back.due)

\* Ctrl+V reaches the window the user summoned the launcher from, or none. Except after
\* the launcher was raised while in front itself: then it remembers its own window
\* (lib.rs:258) and aims there, at no other program's. What moves between the check
\* and the keys cannot be known, and is excused.
PasteIsAimed == pasted.slipped \/ pasted.into = Remembered(pasted.raised, pasted.due)

\* The shell knows which surface is up, so a blur never closes a view or leaves
\* the list standing, and the window has that surface's height. Unless two view
\* events cancelled out between two renders: then nothing was reported; nor is the
\* height claimed after a dismissal before the page was ready (late).
SurfaceAgrees ==
  Idle /\ ~merged => w.inView = (view # "search") /\ (w.visible => late \/ w.height = Height[view])

\* The page ends up showing what was asked for last, a dismissal asking for the
\* list, also when the page was not there yet. Unless it was dismissed or left
\* before the page reported ready: then the view is replayed all the same.
ShowsWhatWasAsked == Idle /\ ~late => view = wanted

\* SPEC 5.2 step 3 without the exemption.
FocusGoesBackAlways == w.back.to = w.back.due
=============================================================================
