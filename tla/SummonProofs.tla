---------------------------- MODULE SummonProofs ----------------------------
(***************************************************************************)
(* Proofs about Summon, for any windows, views and bounds: where the focus *)
(* and a paste go, that the shell and the page agree on the surface that   *)
(* is up, and that the page ends at what was asked for last. And about     *)
(* WindowLayout, for work areas of any size: where windows land.           *)
(***************************************************************************)
EXTENDS Summon, WindowLayout, SequenceTheorems, TLAPS

Surfaces == Views \cup {"search"}
Commands == Surfaces \cup {"ready", "hide", "paste"}
Places == Windows \cup {Own, None}
WindowState ==
  [fg : Places, visible : BOOLEAN, height : {Height[s] : s \in Surfaces}, prev : Places,
   inView : BOOLEAN, from : Places, raised : BOOLEAN,
   back : [to : Places, due : Places, raised : BOOLEAN]]

WindowTyped ==
  /\ alive \subseteq Windows
  /\ w \in WindowState
  /\ paste \in [at : {"idle", "asleep", "checked", "slipped"}, target : Places]
WireTyped ==
  /\ toPage \in Seq(Surfaces) /\ toShell \in Seq(Commands)
  /\ page \in {"loading", "listening", "ready"}
  /\ view \in Surfaces /\ asked \in Surfaces
  /\ pending \in Views \cup {None}
SummonTyped == WindowTyped /\ WireTyped

\* The window remembered is the one the user summoned the launcher from, and
\* stays that until the paste that relies on it is through.
Honest(s, target) == target = Remembered(s.raised, s.from)
FocusInv ==
  /\ w.prev = None \/ Honest(w, w.prev)
  /\ paste.at \in {"asleep", "checked"} => Honest(w, paste.target)
  /\ paste.at = "checked" => w.fg = paste.target

\* A page that is loading has done nothing yet; it has reported ready once it
\* is, and from then on no view waits for that.
Has(s, c) == \E i \in 1..Len(s) : s[i] = c
StartInv ==
  /\ page = "loading" => /\ toPage = <<>> /\ toShell = <<>>
                         /\ view = "search" /\ asked = "search"
  /\ page = "ready" <=> warm \/ Has(toShell, "ready")
  /\ warm => pending = None

\* Where the page will end once all that is under way has arrived.
Destiny == IF pending # None THEN pending
           ELSE IF toPage # <<>> THEN toPage[Len(toPage)] ELSE asked
WantedInv ==
  /\ ~w.visible => wanted = "search"
  /\ ~late => wanted = Destiny

\* Of the surfaces reported and not yet taken, the last is the one that is up.
NoReport(s) == \A i \in 1..Len(s) : s[i] \notin Surfaces
LastReportIs(s, v) ==
  \A i \in 1..Len(s) :
    s[i] \in Surfaces /\ (\A j \in (i + 1)..Len(s) : s[j] \notin Surfaces) => s[i] = v
ReportsInv == LastReportIs(toShell, view)

\* With no report under way, the shell takes the list for what it is; and if it
\* is wrong about a view, the page has yet to act on a dismissal.
ToBeTold == merged \/ asked # view \/ Has(toPage, "search")
Fits == w.inView /\ (w.visible /\ ~late => w.height = Height[view])
SurfaceInv ==
  NoReport(toShell) =>
     /\ view = "search" => ~w.inView /\ w.height = Height["search"]
     /\ view # "search" => Fits \/ ToBeTold

SummonInv ==
  /\ SummonTyped /\ FocusInv /\ FocusGoesBack /\ PasteIsAimed
  /\ StartInv /\ WantedInv /\ ReportsInv /\ SurfaceInv

-----------------------------------------------------------------------------
(* Names, and what show and dismiss can come to.                           *)

LEMMA Names ==
  /\ None # Own /\ None \notin Windows /\ Own \notin Windows
  /\ "search" \notin Views /\ None \notin Views /\ None \notin Surfaces
  /\ "ready" \notin Surfaces /\ "hide" \notin Surfaces /\ "paste" \notin Surfaces
BY SummonAssumption DEF Own, None, Surfaces

LEMMA ShownFacts ==
  ASSUME NEW s \in WindowState, NEW o \in Shown(s)
  PROVE  /\ o \in WindowState /\ o.visible
         /\ Honest(o, o.prev)
         /\ o.back = s.back /\ o.inView = s.inView
         /\ o.height = IF s.visible THEN s.height ELSE Height["search"]
<1>1. PICK f \in {Own, s.fg} :
        o = [s EXCEPT !.prev = s.fg, !.visible = TRUE, !.fg = f,
                      !.height = IF s.visible THEN s.height ELSE Height["search"],
                      !.from = IF s.fg = Own THEN s.from ELSE s.fg,
                      !.raised = s.fg = Own]
  BY DEF Shown
<1>2. /\ Height["search"] \in {Height[v] : v \in Surfaces}
      /\ f \in Places /\ s.fg \in Places /\ Own \in Places
  BY DEF Surfaces, Places, WindowState
<1>3. o \in WindowState
  BY <1>1, <1>2 DEF WindowState
<1>4. /\ o.prev = s.fg /\ o.from = (IF s.fg = Own THEN s.from ELSE s.fg)
      /\ o.raised = (s.fg = Own)
  BY <1>1 DEF WindowState
<1>5. Honest(o, o.prev)
  BY <1>4 DEF Honest, Remembered
<1> QED
  BY <1>1, <1>3, <1>5 DEF WindowState

LEMMA HiddenFacts ==
  ASSUME alive \subseteq Windows, NEW s \in WindowState, NEW o \in Hidden(s)
  PROVE  /\ o[1] \in WindowState /\ ~o[1].visible /\ ~o[1].inView /\ o[1].prev = None
         /\ o[1].from = s.from /\ o[1].raised = s.raised /\ o[1].height = s.height
         /\ o[2] = None \/ o[2] = s.prev
         /\ o[1].back = s.back \/ o[1].back = [to |-> s.prev, due |-> s.from, raised |-> s.raised]
         /\ o[1].back = s.back \/ s.prev # None
<1> DEFINE gone == [s EXCEPT !.visible = FALSE, !.inView = FALSE, !.prev = None]
           given == [to |-> s.prev, due |-> s.from, raised |-> s.raised]
<1>1. /\ gone \in WindowState /\ gone.from = s.from /\ gone.raised = s.raised
      /\ gone.height = s.height /\ gone.back = s.back
      /\ ~gone.visible /\ ~gone.inView /\ gone.prev = None
  BY DEF WindowState, Places
<1>2. given \in [to : Places, due : Places, raised : BOOLEAN]
  BY DEF WindowState
<1>3. \/ \E f \in alive \cup {None, s.fg} : o = <<[gone EXCEPT !.fg = f], None>>
      \/ /\ s.prev \in alive \cup {Own}
         /\ \E b \in {s.back, given} : o = <<[gone EXCEPT !.fg = s.prev, !.back = b], s.prev>>
  <2> HIDE DEF given
  <2>1. o \in {<<[gone EXCEPT !.fg = f], None>> :
                 f \in IF s.fg = Own THEN alive \cup {None} ELSE {s.fg}}
        \/ /\ s.prev \in alive \cup {Own}
           /\ o = <<[gone EXCEPT !.fg = s.prev,
                              !.back = IF s.fg = Own THEN given ELSE @], s.prev>>
    BY DEF Hidden, given
  <2>2. gone.back = s.back
    BY <1>1
  <2> HIDE DEF gone
  <2>3. CASE /\ s.prev \in alive \cup {Own}
             /\ o = <<[gone EXCEPT !.fg = s.prev,
                                !.back = IF s.fg = Own THEN given ELSE @], s.prev>>
    BY <2>2, <2>3
  <2> QED
    BY <2>1, <2>3
<1> HIDE DEF gone, given
<1>4. ASSUME NEW f \in alive \cup {None, s.fg}, o = <<[gone EXCEPT !.fg = f], None>>
      PROVE  /\ o[1] \in WindowState /\ o[1].back = s.back /\ o[1].height = s.height
             /\ ~o[1].visible /\ ~o[1].inView /\ o[1].prev = None
             /\ o[1].from = s.from /\ o[1].raised = s.raised /\ o[2] = None
  <2>1. f \in Places
    BY DEF Places, WindowState
  <2> QED
    BY <1>1, <1>4, <2>1 DEF WindowState
<1>5. ASSUME s.prev \in alive \cup {Own}, NEW b \in {s.back, given},
             o = <<[gone EXCEPT !.fg = s.prev, !.back = b], s.prev>>
      PROVE  /\ o[1] \in WindowState /\ o[1].back = b /\ o[1].height = s.height
             /\ ~o[1].visible /\ ~o[1].inView /\ o[1].prev = None
             /\ o[1].from = s.from /\ o[1].raised = s.raised /\ o[2] = s.prev
             /\ s.prev # None
  <2>1. s.prev \in Places /\ b \in [to : Places, due : Places, raised : BOOLEAN]
    BY <1>2 DEF WindowState
  <2>2. s.prev # None
    BY <1>5, Names
  <2> QED
    BY <1>1, <1>5, <2>1, <2>2 DEF WindowState
<1> QED
  BY <1>3, <1>4, <1>5 DEF given

\* A dismissal, of a launcher that is up, seen from each thing it changes.
LEMMA DismissFacts ==
  ASSUME WindowTyped, NEW given \in GivenBack, Dismiss(given)
  PROVE  /\ w' \in WindowState /\ ~w'.visible
         /\ w'.from = w.from /\ w'.raised = w.raised /\ w'.height = w.height
         /\ w'.prev = None \/ w'.prev = w.prev
         /\ \/ w'.back = w.back
            \/ /\ w'.back = [to |-> w.prev, due |-> w.from, raised |-> w.raised]
               /\ w.prev # None
         /\ given = None \/ given = w.prev
         /\ ~w.visible => UNCHANGED <<w, toPage, wanted, late>>
         /\ w.visible => /\ ~w'.inView /\ wanted' = "search" /\ Emit("search")
                         /\ late' = (late \/ pending # None)
<1>1. w \in WindowState /\ alive \subseteq Windows
  BY DEF WindowTyped
<1>2. CASE w.visible
  <2>1. PICK o \in Hidden(w) : w' = o[1] /\ given = o[2]
    BY <1>2 DEF Dismiss
  <2>2. /\ Emit("search") /\ wanted' = "search" /\ late' = (late \/ pending # None)
    BY <1>2 DEF Dismiss
  <2>3. /\ w' \in WindowState /\ ~w'.visible /\ ~w'.inView
        /\ w'.from = w.from /\ w'.raised = w.raised /\ w'.height = w.height
        /\ w'.prev = None /\ (given = None \/ given = w.prev)
        /\ \/ w'.back = w.back
           \/ /\ w'.back = [to |-> w.prev, due |-> w.from, raised |-> w.raised]
              /\ w.prev # None
    BY <1>1, <2>1, HiddenFacts
  <2> QED
    BY <1>2, <2>2, <2>3, Zenon
<1>3. CASE ~w.visible
  <2>1. UNCHANGED <<w, toPage, wanted, late>> /\ given = None
    BY <1>3 DEF Dismiss
  <2>2. w' = w
    BY <2>1
  <2> QED
    BY <1>1, <1>3, <2>1, <2>2, Zenon
<1> QED
  BY <1>2, <1>3

\* An event goes to the end of what the page will hear, once it listens.
LEMMA EmitFacts ==
  ASSUME toPage \in Seq(Surfaces), NEW v \in Surfaces, Emit(v)
  PROVE  /\ toPage' \in Seq(Surfaces)
         /\ page = "loading" => toPage' = toPage
         /\ page # "loading" => /\ toPage' # <<>> /\ toPage'[Len(toPage')] = v
                                /\ Has(toPage', v)
         /\ \A x : Has(toPage, x) => Has(toPage', x)
<1>1. CASE page = "loading"
  BY <1>1 DEF Emit
<1>2. CASE page # "loading"
  <2>1. toPage' = Append(toPage, v)
    BY <1>2 DEF Emit
  <2>2. /\ Len(toPage') = Len(toPage) + 1 /\ Len(toPage) \in Nat /\ toPage' \in Seq(Surfaces)
        /\ toPage'[Len(toPage) + 1] = v
        /\ \A i \in 1..Len(toPage) : toPage'[i] = toPage[i]
    BY <2>1
  <2>3. Has(toPage', v)
    BY <2>2 DEF Has
  <2>4. \A x : Has(toPage, x) => Has(toPage', x)
    BY <2>2 DEF Has
  <2>5. toPage' # <<>>
    BY <2>2
  <2> QED
    BY <1>2, <2>2, <2>3, <2>4, <2>5
<1> QED
  BY <1>1, <1>2

\* Reading from a queue, and writing to it.
LEMMA QueueTail ==
  ASSUME NEW A, NEW s \in Seq(A), s # <<>>
  PROVE  /\ Tail(s) \in Seq(A) /\ Head(s) \in A
         /\ \A x : Has(s, x) <=> x = Head(s) \/ Has(Tail(s), x)
         /\ Tail(s) = <<>> => s[Len(s)] = Head(s)
         /\ Tail(s) # <<>> => Tail(s)[Len(Tail(s))] = s[Len(s)]
         /\ NoReport(s) <=> Head(s) \notin Surfaces /\ NoReport(Tail(s))
         /\ \A v : LastReportIs(s, v) => LastReportIs(Tail(s), v)
         /\ \A v : LastReportIs(s, v) /\ NoReport(Tail(s)) /\ Head(s) \in Surfaces
                     => Head(s) = v
<1> DEFINE t == Tail(s)
           h == Head(s)
<1>1. /\ t \in Seq(A) /\ h \in A /\ h = s[1]
      /\ Len(t) = Len(s) - 1 /\ Len(s) \in Nat /\ Len(s) > 0
      /\ \A i \in 1..Len(t) : t[i] = s[i + 1]
  BY HeadTailProperties, EmptySeq
<1> HIDE DEF t, h
<1>0. (t = <<>>) <=> (Len(t) = 0)
  BY <1>1, EmptySeq
<1>2. \A i \in 1..Len(s) : i = 1 \/ (i - 1 \in 1..Len(t) /\ (i - 1) + 1 = i)
  BY <1>1
<1>3. \A i \in 1..Len(s) : s[i] = h \/ \E k \in 1..Len(t) : s[i] = t[k]
  BY <1>1, <1>2
<1>4. \A i \in 1..Len(t) : i + 1 \in 1..Len(s) /\ 1 \in 1..Len(s)
  BY <1>1
<1>5. \A x : Has(s, x) <=> x = h \/ Has(t, x)
  <2>1. 1 \in 1..Len(s)
    BY <1>1
  <2> QED
    BY <1>1, <1>3, <1>4, <2>1 DEF Has
<1>6. NoReport(s) <=> h \notin Surfaces /\ NoReport(t)
  <2>1. \A q : NoReport(q) <=> \A x : Has(q, x) => x \notin Surfaces
    BY DEF NoReport, Has
  <2> QED
    BY <1>5, <2>1
<1>7. ASSUME NEW v, LastReportIs(s, v) PROVE LastReportIs(t, v)
  <2> SUFFICES ASSUME NEW i \in 1..Len(t), t[i] \in Surfaces,
                      \A j \in (i + 1)..Len(t) : t[j] \notin Surfaces
               PROVE  t[i] = v
    BY DEF LastReportIs
  <2>1. i + 1 \in 1..Len(s) /\ t[i] = s[i + 1]
    BY <1>1, <1>4
  <2>2. ASSUME NEW j \in ((i + 1) + 1)..Len(s) PROVE s[j] \notin Surfaces
    <3>1. j - 1 \in (i + 1)..Len(t) /\ j - 1 \in 1..Len(t) /\ (j - 1) + 1 = j
      BY <1>1
    <3> QED
      BY <1>1, <3>1
  <2> QED
    BY <1>7, <2>1, <2>2 DEF LastReportIs
<1>8. ASSUME NEW v, LastReportIs(s, v), NoReport(t), h \in Surfaces PROVE h = v
  <2>1. 1 \in 1..Len(s) /\ s[1] = h
    BY <1>1
  <2>2. ASSUME NEW j \in (1 + 1)..Len(s) PROVE s[j] \notin Surfaces
    <3>1. j - 1 \in 1..Len(t) /\ (j - 1) + 1 = j
      BY <1>1
    <3> QED
      BY <1>1, <1>8, <3>1 DEF NoReport
  <2> QED
    BY <1>8, <2>1, <2>2 DEF LastReportIs
<1>9. ASSUME t = <<>> PROVE s[Len(s)] = h
  <2>1. Len(t) = 0
    BY <1>0, <1>9
  <2>2. Len(s) = 1
    BY <1>1, <2>1
  <2> QED
    BY <1>1, <2>2
<1>10. t # <<>> => t[Len(t)] = s[Len(s)]
  <2> SUFFICES ASSUME t # <<>> PROVE t[Len(t)] = s[Len(s)]
    OBVIOUS
  <2>1. Len(t) \in 1..Len(t) /\ Len(t) + 1 = Len(s)
    BY <1>0, <1>1
  <2> QED
    BY <1>1, <2>1
<1> QED
  BY <1>1, <1>5, <1>6, <1>7, <1>8, <1>9, <1>10 DEF t, h

LEMMA QueueAppend ==
  ASSUME NEW A, NEW s \in Seq(A), NEW c \in A
  PROVE  /\ Append(s, c) \in Seq(A)
         /\ \A x : Has(Append(s, c), x) <=> Has(s, x) \/ x = c
         /\ NoReport(Append(s, c)) <=> NoReport(s) /\ c \notin Surfaces
         /\ \A v : LastReportIs(s, v) /\ c \notin Surfaces => LastReportIs(Append(s, c), v)
         /\ c \in Surfaces => LastReportIs(Append(s, c), c)
<1> DEFINE t == Append(s, c)
<1>1. /\ t \in Seq(A) /\ Len(t) = Len(s) + 1 /\ Len(s) \in Nat /\ t[Len(s) + 1] = c
      /\ \A i \in 1..Len(s) : t[i] = s[i]
  OBVIOUS
<1> HIDE DEF t
<1>2. \A i \in 1..Len(t) : i \in 1..Len(s) \/ i = Len(s) + 1
  BY <1>1
<1>3. Len(s) + 1 \in 1..Len(t) /\ \A i \in 1..Len(s) : i \in 1..Len(t)
  BY <1>1
<1>4. \A x : Has(t, x) <=> Has(s, x) \/ x = c
  BY <1>1, <1>2, <1>3 DEF Has
<1>5. NoReport(t) <=> NoReport(s) /\ c \notin Surfaces
  <2>1. \A q : NoReport(q) <=> \A x : Has(q, x) => x \notin Surfaces
    BY DEF NoReport, Has
  <2> QED
    BY <1>4, <2>1
<1>6. ASSUME NEW v, LastReportIs(s, v), c \notin Surfaces PROVE LastReportIs(t, v)
  <2> SUFFICES ASSUME NEW i \in 1..Len(t), t[i] \in Surfaces,
                      \A j \in (i + 1)..Len(t) : t[j] \notin Surfaces
               PROVE  t[i] = v
    BY DEF LastReportIs
  <2>1. i \in 1..Len(s) /\ t[i] = s[i]
    BY <1>1, <1>2, <1>6
  <2>2. ASSUME NEW j \in (i + 1)..Len(s) PROVE s[j] \notin Surfaces
    <3>1. j \in (i + 1)..Len(t) /\ j \in 1..Len(s)
      BY <1>1
    <3> QED
      BY <1>1, <3>1
  <2> QED
    BY <1>6, <2>1, <2>2 DEF LastReportIs
<1>7. ASSUME c \in Surfaces PROVE LastReportIs(t, c)
  <2> SUFFICES ASSUME NEW i \in 1..Len(t), \A j \in (i + 1)..Len(t) : t[j] \notin Surfaces
               PROVE  t[i] = c
    BY DEF LastReportIs
  <2>1. ~(Len(s) + 1 \in (i + 1)..Len(t))
    BY <1>1, <1>7
  <2>2. i = Len(s) + 1
    BY <1>1, <1>2, <2>1
  <2> QED
    BY <1>1, <2>2
<1> QED
  BY <1>1, <1>4, <1>5, <1>6, <1>7 DEF t

-----------------------------------------------------------------------------
LEMMA InitSummonInv == Init => SummonInv
<1> SUFFICES ASSUME Init PROVE SummonInv
    OBVIOUS
<1>1. PICK f \in Windows :
        w = [fg |-> f, visible |-> FALSE, height |-> Height["search"], prev |-> None,
             inView |-> FALSE, from |-> None, raised |-> FALSE, back |-> NoHandBack]
  BY DEF Init
<1>2. WindowTyped
  <2>1. NoHandBack \in [to : Places, due : Places, raised : BOOLEAN]
    BY DEF NoHandBack, Places
  <2>2. w \in WindowState
    BY <1>1, <2>1 DEF WindowState, Places, Surfaces
  <2> QED
    BY <2>2 DEF Init, WindowTyped, Places
<1>3. WireTyped
  BY DEF Init, WireTyped, Surfaces
<1>4. FocusInv /\ FocusGoesBack /\ PasteIsAimed
  BY <1>1 DEF Init, FocusInv, FocusGoesBack, PasteIsAimed, NoHandBack, Remembered
<1>5. StartInv
  BY DEF Init, StartInv, Has
<1>6. WantedInv
  BY DEF Init, WantedInv, Destiny
<1>7. ReportsInv
  BY DEF Init, ReportsInv, LastReportIs
<1>8. SurfaceInv
  BY <1>1 DEF Init, SurfaceInv
<1> QED
  BY <1>2, <1>3, <1>4, <1>5, <1>6, <1>7, <1>8 DEF SummonInv, SummonTyped

LEMMA WindowTypes == WindowTyped /\ [Next]_vars => WindowTyped'
<1> SUFFICES ASSUME WindowTyped, [Next]_vars PROVE WindowTyped'
    OBVIOUS
<1> USE DEF WindowTyped
<1>1. CASE UNCHANGED <<alive, w, paste>>
  BY <1>1
<1>2. ASSUME w' \in WindowState, UNCHANGED <<alive, paste>> PROVE WindowTyped'
  BY <1>2
<1>3. \A o \in Shown(w) : o \in WindowState
  BY ShownFacts
<1>4. CASE JustDismiss /\ UNCHANGED alive
  BY <1>4, <1>2, DismissFacts DEF JustDismiss
<1>5. CASE Toggle
  BY <1>2, <1>3, <1>4, <1>5 DEF Toggle, Aside
<1>6. CASE Raise
  BY <1>2, <1>3, <1>6 DEF Raise, Aside
<1>7. ASSUME NEW v \in Views, OpenView(v) PROVE WindowTyped'
  BY <1>1, <1>2, <1>3, <1>7 DEF OpenView, Aside
<1>8. CASE Blur
  BY <1>1, <1>4, <1>8 DEF Blur
<1>9. CASE TakeReady
  BY <1>1, <1>9 DEF TakeReady, Command
<1>10. CASE TakeHide
  BY <1>4, <1>10 DEF TakeHide, Command
<1>11. CASE TakePaste
  <2>1. PICK given \in GivenBack :
          Dismiss(given) /\ paste' = IF given = None THEN paste
                                     ELSE [at |-> "asleep", target |-> given]
    BY <1>11 DEF TakePaste
  <2>2. given \in Places /\ alive' = alive
    BY <1>11 DEF TakePaste, Command, GivenBack, Places
  <2> QED
    BY <2>1, <2>2, DismissFacts
<1>12. CASE PasteCheck \/ PasteKeys
  BY <1>12 DEF PasteCheck, PasteKeys, Places
<1>13. ASSUME NEW v \in Surfaces, TakeSurface(v) PROVE WindowTyped'
  <2>1. w' = [w EXCEPT !.height = Height[v], !.inView = v # "search"]
    BY <1>13 DEF TakeSurface
  <2>2. w' \in WindowState
    BY <2>1 DEF WindowState
  <2> QED
    BY <1>2, <1>13, <2>2 DEF TakeSurface, Command
<1>14. CASE Page
  BY <1>1, <1>14 DEF Page, PageListens, PageReady, PageTakes, PageRenders, CloseView, Leave,
                     AskPaste, Elsewhere, ours
<1>15. ASSUME NEW other \in alive \cup {Own}, SwitchTo(other) \/ CloseWindow(other)
       PROVE  WindowTyped'
  <2>1. alive' \subseteq Windows /\ other \in Places
    BY <1>15 DEF SwitchTo, CloseWindow, Places
  <2>2. w' = w \/ \E f \in Places : w' = [w EXCEPT !.fg = f]
    BY <1>15, <2>1 DEF SwitchTo, CloseWindow, Places
  <2>3. w' \in WindowState
    BY <2>2 DEF WindowState
  <2>4. paste' \in [at : {"idle", "asleep", "checked", "slipped"}, target : Places]
    BY <1>15 DEF SwitchTo, CloseWindow, Still
  <2> QED
    BY <2>1, <2>3, <2>4
<1>16. CASE UNCHANGED vars
  BY <1>1, <1>16 DEF vars, ours
<1> QED
  BY <1>5, <1>6, <1>7, <1>8, <1>9, <1>10, <1>11, <1>12, <1>13, <1>14, <1>15, <1>16
     DEF Next, Shell, User, Surfaces

LEMMA WireTypes == SummonTyped /\ StartInv /\ [Next]_vars => WireTyped'
<1> SUFFICES ASSUME SummonTyped, StartInv, [Next]_vars PROVE WireTyped'
    OBVIOUS
<1> USE DEF SummonTyped, WireTyped
<1>1. "search" \in Surfaces /\ Views \subseteq Surfaces /\ Surfaces \subseteq Commands
      /\ {"ready", "hide", "paste"} \subseteq Commands
  BY DEF Surfaces, Commands
<1>2. ASSUME UNCHANGED <<toShell, page, view, asked, pending>>, toPage' \in Seq(Surfaces)
      PROVE  WireTyped'
  BY <1>2
<1>3. \A v \in Surfaces : Emit(v) => toPage' \in Seq(Surfaces)
  BY EmitFacts
<1>4. ASSUME NEW given \in GivenBack, Dismiss(given) PROVE toPage' \in Seq(Surfaces)
  BY <1>1, <1>3, <1>4 DEF Dismiss
<1>5. CASE Toggle \/ Raise
  BY <1>2, <1>4, <1>5 DEF Toggle, Raise, JustDismiss, Aside, wire
<1>6. ASSUME NEW v \in Views, OpenView(v) PROVE WireTyped'
  BY <1>1, <1>3, <1>6 DEF OpenView, Aside, PendingFor
<1>7. CASE Blur
  BY <1>2, <1>4, <1>7 DEF Blur, JustDismiss
<1>8. ASSUME NEW c, Command(c), toPage' \in Seq(Surfaces), pending' \in Views \cup {None}
      PROVE  WireTyped'
  <2>1. Tail(toShell) \in Seq(Commands)
    BY <1>8, QueueTail DEF Command
  <2> QED
    BY <1>8, <2>1 DEF Command
<1>9. CASE TakeReady
  <2>1. toPage' \in Seq(Surfaces)
    BY <1>1, <1>3, <1>9 DEF TakeReady
  <2> QED
    BY <1>8, <1>9, <2>1 DEF TakeReady
<1>10. CASE TakeHide
  BY <1>4, <1>8, <1>10 DEF TakeHide, JustDismiss
<1>11. CASE TakePaste
  BY <1>4, <1>8, <1>11 DEF TakePaste
<1>12. CASE PasteCheck \/ PasteKeys
  BY <1>2, <1>12 DEF PasteCheck, PasteKeys, wire, client
<1>13. ASSUME NEW v \in Surfaces, TakeSurface(v) PROVE WireTyped'
  BY <1>8, <1>13 DEF TakeSurface
<1>14. CASE Page
  <2>1. \A c \in Commands : Append(toShell, c) \in Seq(Commands)
    BY QueueAppend
  <2>2. toPage # <<>> => Tail(toPage) \in Seq(Surfaces) /\ Head(toPage) \in Surfaces
    BY QueueTail
  <2>3. pending' = pending
    BY <1>14 DEF Page, PageListens, PageReady, PageTakes, PageRenders, CloseView, Leave,
                 AskPaste, Elsewhere, ours
  <2>4. CASE PageListens \/ PageReady \/ PageRenders
    BY <1>1, <2>1, <2>3, <2>4 DEF PageListens, PageReady, PageRenders, Said
  <2>5. CASE PageTakes \/ CloseView
    BY <1>1, <2>2, <2>3, <2>5 DEF PageTakes, CloseView, wire
  <2>6. CASE Leave \/ AskPaste
    BY <1>1, <2>1, <2>3, <2>6 DEF Leave, AskPaste, Said, client
  <2> QED
    BY <1>14, <2>4, <2>5, <2>6 DEF Page
<1>15. CASE User
  BY <1>2, <1>15 DEF User, SwitchTo, CloseWindow, Still, wire, client
<1>16. CASE UNCHANGED vars
  BY <1>2, <1>16 DEF vars, ours, wire, client
<1> QED
  BY <1>5, <1>6, <1>7, <1>9, <1>10, <1>11, <1>12, <1>13, <1>14, <1>15, <1>16
     DEF Next, Shell, Surfaces

\* The window remembered is Honest whenever it is written; and between the check
\* of a paste and its keys nothing of the shell runs.
LEMMA FocusStep ==
  ASSUME SummonTyped, FocusInv, FocusGoesBack, PasteIsAimed, [Next]_vars
  PROVE  FocusInv' /\ FocusGoesBack' /\ PasteIsAimed'
<1> DEFINE Goal == FocusInv' /\ FocusGoesBack' /\ PasteIsAimed'
<1>0. /\ w \in WindowState /\ alive \subseteq Windows
      /\ paste \in [at : {"idle", "asleep", "checked", "slipped"}, target : Places]
  BY DEF SummonTyped, WindowTyped
<1>1. CASE UNCHANGED <<w, paste, pasted>>
  BY <1>1 DEF FocusInv, FocusGoesBack, PasteIsAimed, Honest
<1>2. ASSUME w' \in Shown(w), UNCHANGED pasted, paste.at = "idle", paste' = paste PROVE Goal
  <2>1. Honest(w', w'.prev) /\ w'.back = w.back
    BY <1>0, <1>2, ShownFacts
  <2> QED
    BY <1>2, <2>1 DEF FocusInv, FocusGoesBack, PasteIsAimed, Honest
<1>3. ASSUME NEW given \in GivenBack, Dismiss(given), UNCHANGED pasted, paste.at = "idle",
             paste' = IF given = None THEN paste ELSE [at |-> "asleep", target |-> given]
      PROVE  Goal
  <2>1. /\ w'.from = w.from /\ w'.raised = w.raised
        /\ w'.prev = None \/ w'.prev = w.prev
        /\ \/ w'.back = w.back
           \/ /\ w'.back = [to |-> w.prev, due |-> w.from, raised |-> w.raised]
              /\ w.prev # None
        /\ given = None \/ given = w.prev
    BY <1>3, DismissFacts DEF SummonTyped
  <2>2. FocusGoesBack'
    BY <2>1 DEF FocusInv, FocusGoesBack, Honest, Remembered
  <2>3. FocusInv'
    BY <1>3, <2>1 DEF FocusInv, Honest
  <2> QED
    BY <1>3, <2>2, <2>3 DEF PasteIsAimed
<1>4. ASSUME JustDismiss, UNCHANGED pasted, paste.at = "idle" PROVE Goal
  <2>1. PICK given \in GivenBack : Dismiss(given)
    BY <1>4 DEF JustDismiss
  <2>2. /\ w'.from = w.from /\ w'.raised = w.raised
        /\ w'.prev = None \/ w'.prev = w.prev
        /\ \/ w'.back = w.back
           \/ /\ w'.back = [to |-> w.prev, due |-> w.from, raised |-> w.raised]
              /\ w.prev # None
    BY <2>1, DismissFacts DEF SummonTyped
  <2>3. FocusGoesBack'
    BY <2>2 DEF FocusInv, FocusGoesBack, Honest, Remembered
  <2>4. FocusInv'
    BY <1>4, <2>2 DEF FocusInv, Honest, JustDismiss
  <2> QED
    BY <1>4, <2>3, <2>4 DEF PasteIsAimed
<1>5. CASE Toggle
  BY <1>2, <1>4, <1>5 DEF Toggle, Aside, Free
<1>6. CASE Raise
  BY <1>2, <1>6 DEF Raise, Aside, Free
<1>7. ASSUME NEW v \in Views, OpenView(v) PROVE Goal
  BY <1>1, <1>2, <1>7 DEF OpenView, Aside, Free
<1>8. CASE Blur
  BY <1>1, <1>4, <1>8 DEF Blur
<1>9. CASE TakeReady
  BY <1>1, <1>9 DEF TakeReady, Command
<1>10. CASE TakeHide
  BY <1>4, <1>10 DEF TakeHide, Command, Free
<1>11. CASE TakePaste
  BY <1>3, <1>11 DEF TakePaste, Command, Free
<1>12. CASE PasteCheck
  <2>1. w' = w /\ pasted' = pasted /\ paste.at = "asleep"
    BY <1>12 DEF PasteCheck
  <2>2. CASE w.fg = paste.target
    <3>1. paste' = [paste EXCEPT !.at = "checked"]
      BY <1>12, <2>2 DEF PasteCheck
    <3>2. paste'.target = paste.target
      BY <1>0, <3>1
    <3> QED
      BY <2>1, <2>2, <3>2 DEF FocusInv, FocusGoesBack, PasteIsAimed, Honest
  <2>3. CASE w.fg # paste.target
    <3>1. paste'.at = "idle"
      BY <1>12, <2>3 DEF PasteCheck
    <3> QED
      BY <2>1, <3>1 DEF FocusInv, FocusGoesBack, PasteIsAimed, Honest
  <2> QED
    BY <2>2, <2>3
<1>13. CASE PasteKeys
  <2>1. /\ w' = w /\ paste'.at = "idle" /\ pasted'.into = w.fg /\ pasted'.due = w.from
        /\ pasted'.raised = w.raised /\ pasted'.slipped = (paste.at = "slipped")
        /\ paste.at \in {"checked", "slipped"}
    BY <1>13 DEF PasteKeys
  <2>2. PasteIsAimed'
    BY <2>1 DEF PasteIsAimed, FocusInv, Honest
  <2> QED
    BY <2>1, <2>2 DEF FocusInv, FocusGoesBack, Honest, Remembered
<1>14. ASSUME NEW v \in Surfaces, TakeSurface(v) PROVE Goal
  <2>1. /\ w'.prev = w.prev /\ w'.raised = w.raised /\ w'.from = w.from /\ w'.back = w.back
        /\ w'.fg = w.fg
    BY <1>0, <1>14 DEF TakeSurface, WindowState
  <2> QED
    BY <1>14, <2>1 DEF TakeSurface, Command, FocusInv, FocusGoesBack, PasteIsAimed, Honest
<1>15. CASE Page
  BY <1>1, <1>15 DEF Page, PageListens, PageReady, PageTakes, PageRenders, CloseView, Leave,
                     AskPaste, Elsewhere, ours
<1>16. ASSUME NEW other \in alive \cup {Own}, SwitchTo(other) \/ CloseWindow(other)
       PROVE  Goal
  <2>1. w' = w \/ \E f \in Places : w' = [w EXCEPT !.fg = f]
    BY <1>0, <1>16 DEF SwitchTo, CloseWindow, Places
  <2>2. /\ w'.prev = w.prev /\ w'.raised = w.raised /\ w'.from = w.from /\ w'.back = w.back
    BY <1>0, <2>1 DEF WindowState
  <2>3. /\ pasted' = pasted /\ paste'.target = paste.target /\ paste'.at # "checked"
        /\ paste'.at = "asleep" => paste.at = "asleep"
    BY <1>0, <1>16 DEF SwitchTo, CloseWindow, Still
  <2> QED
    BY <2>2, <2>3 DEF FocusInv, FocusGoesBack, PasteIsAimed, Honest
<1>17. CASE UNCHANGED vars
  BY <1>1, <1>17 DEF vars, ours
<1> QED
  BY <1>5, <1>6, <1>7, <1>8, <1>9, <1>10, <1>11, <1>12, <1>13, <1>14, <1>15, <1>16, <1>17
     DEF Next, Shell, User, Surfaces

-----------------------------------------------------------------------------
(* The page and the shell, each behind the other by what is under way.      *)

\* A command is taken, and none of another kind with it.
LEMMA CommandFacts ==
  ASSUME SummonTyped, NEW c \in Commands, Command(c)
  PROVE  /\ toShell # <<>> /\ Head(toShell) = c /\ toShell' = Tail(toShell)
         /\ \A x : Has(toShell, x) <=> x = c \/ Has(toShell', x)
         /\ NoReport(toShell) <=> c \notin Surfaces /\ NoReport(toShell')
         /\ \A v : LastReportIs(toShell, v) => LastReportIs(toShell', v)
         /\ \A v : LastReportIs(toShell, v) /\ NoReport(toShell') /\ c \in Surfaces => c = v
         /\ UNCHANGED <<page, view, asked, merged>>
<1>1. toShell \in Seq(Commands) /\ toShell # <<>> /\ Head(toShell) = c /\ toShell' = Tail(toShell)
  BY DEF SummonTyped, WireTyped, Command
<1>2. /\ \A x : Has(toShell, x) <=> x = c \/ Has(toShell', x)
      /\ NoReport(toShell) <=> c \notin Surfaces /\ NoReport(toShell')
  BY <1>1, QueueTail
<1>3. ASSUME NEW v, LastReportIs(toShell, v)
      PROVE  LastReportIs(toShell', v) /\ (NoReport(toShell') /\ c \in Surfaces => c = v)
  BY <1>1, <1>3, QueueTail
<1> QED
  BY <1>1, <1>2, <1>3 DEF Command

LEMMA SaidFacts ==
  ASSUME SummonTyped, NEW c \in Commands, Said(c)
  PROVE  /\ \A x : Has(toShell', x) <=> Has(toShell, x) \/ x = c
         /\ NoReport(toShell') <=> NoReport(toShell) /\ c \notin Surfaces
         /\ c \notin Surfaces /\ LastReportIs(toShell, view) => LastReportIs(toShell', view)
         /\ c \in Surfaces => LastReportIs(toShell', c)
<1>1. toShell \in Seq(Commands) /\ toShell' = Append(toShell, c)
  BY DEF SummonTyped, WireTyped, Said
<1> QED
  BY <1>1, QueueAppend

LEMMA StartStep == SummonTyped /\ StartInv /\ [Next]_vars => StartInv'
<1> SUFFICES ASSUME SummonTyped, StartInv, [Next]_vars PROVE StartInv'
    OBVIOUS
<1>0. /\ toPage \in Seq(Surfaces) /\ toShell \in Seq(Commands)
      /\ {"ready", "hide", "paste"} \subseteq Commands /\ Surfaces \subseteq Commands
      /\ "search" \in Surfaces /\ Views \subseteq Surfaces /\ "ready" \notin Surfaces
  BY Names DEF SummonTyped, WireTyped, Surfaces, Commands
<1>1. ASSUME UNCHANGED <<page, toShell, view, asked, warm, pending>>,
             page = "loading" => toPage' = toPage
      PROVE  StartInv'
  BY <1>1 DEF StartInv
<1>2. \A v \in Surfaces : Emit(v) => (page = "loading" => toPage' = toPage)
  BY <1>0, EmitFacts
<1>3. ASSUME NEW given \in GivenBack, Dismiss(given) PROVE page = "loading" => toPage' = toPage
  BY <1>0, <1>2, <1>3 DEF Dismiss
<1>4. CASE Toggle \/ Raise
  BY <1>1, <1>3, <1>4 DEF Toggle, Raise, JustDismiss, Aside, wire
<1>5. ASSUME NEW v \in Views, OpenView(v) PROVE StartInv'
  <2>1. /\ page = "loading" => toPage' = toPage
        /\ UNCHANGED <<page, toShell, view, asked, warm>> /\ (warm => pending' = pending)
    BY <1>0, <1>2, <1>5 DEF OpenView, Aside, PendingFor
  <2> QED
    BY <2>1 DEF StartInv
<1>6. CASE Blur
  BY <1>1, <1>3, <1>6 DEF Blur, JustDismiss
<1>7. ASSUME NEW c \in Commands, Command(c), c # "ready", UNCHANGED <<warm, pending>>
      PROVE  StartInv'
  <2>1. /\ toShell # <<>> /\ UNCHANGED <<page, view, asked>>
        /\ Has(toShell, "ready") <=> Has(toShell', "ready")
    BY <1>7, CommandFacts
  <2> QED
    BY <1>7, <2>1 DEF StartInv
<1>8. CASE TakeReady
  <2>1. /\ Has(toShell, "ready") /\ page' = page
    BY <1>0, <1>8, CommandFacts DEF TakeReady
  <2>2. warm' = TRUE /\ pending' = None /\ page = "ready"
    BY <1>8, <2>1 DEF TakeReady, StartInv
  <2> QED
    BY <2>1, <2>2 DEF StartInv
<1>9. CASE TakeHide \/ TakePaste
  BY <1>0, <1>7, <1>9 DEF TakeHide, TakePaste
<1>10. ASSUME NEW v \in Surfaces, TakeSurface(v) PROVE StartInv'
  BY <1>0, <1>7, <1>10 DEF TakeSurface
<1>11. CASE PasteCheck \/ PasteKeys
  BY <1>1, <1>11 DEF PasteCheck, PasteKeys, wire, client
<1>12. ASSUME NEW c \in Commands, c # "ready", Said(c), page # "loading", page' = page,
              UNCHANGED <<warm, pending>>
       PROVE  StartInv'
  <2>1. Has(toShell', "ready") <=> Has(toShell, "ready")
    BY <1>12, SaidFacts
  <2> QED
    BY <1>12, <2>1 DEF StartInv
<1>13. CASE PageListens
  <2>1. /\ Has(toShell', "ready") <=> Has(toShell, "ready")
        /\ page = "loading" /\ page' = "listening" /\ UNCHANGED <<warm, pending>>
    BY <1>0, <1>13, SaidFacts DEF PageListens, Elsewhere, ours
  <2> QED
    BY <2>1 DEF StartInv
<1>14. CASE PageReady
  <2>1. Has(toShell', "ready") /\ page' = "ready" /\ UNCHANGED <<warm, pending>>
    BY <1>0, <1>14, SaidFacts DEF PageReady, Elsewhere, ours
  <2> QED
    BY <2>1 DEF StartInv
<1>15. CASE PageTakes \/ CloseView
  <2>1. /\ page # "loading" /\ UNCHANGED <<page, toShell, warm, pending>>
    BY <1>15 DEF PageTakes, CloseView, Typing, Elsewhere, ours, wire, StartInv
  <2> QED
    BY <2>1 DEF StartInv
<1>16. CASE PageRenders
  <2>1. page # "loading" /\ asked \in Surfaces
    BY <1>16 DEF PageRenders, StartInv, SummonTyped, WireTyped
  <2> QED
    BY <1>0, <1>12, <1>16, <2>1 DEF PageRenders, Elsewhere, ours
<1>17. CASE Leave \/ AskPaste
  BY <1>0, <1>12, <1>17 DEF Leave, AskPaste, Typing, Elsewhere, ours, client
<1>18. CASE User
  BY <1>1, <1>18 DEF User, SwitchTo, CloseWindow, Still, wire, client
<1>19. CASE UNCHANGED vars
  BY <1>1, <1>19 DEF vars, ours, wire, client
<1> QED
  BY <1>4, <1>5, <1>6, <1>8, <1>9, <1>10, <1>11, <1>13, <1>14, <1>15, <1>16, <1>17, <1>18,
     <1>19 DEF Next, Shell, Page, Surfaces

LEMMA WantedStep == SummonTyped /\ StartInv /\ WantedInv /\ [Next]_vars => WantedInv'
<1> SUFFICES ASSUME SummonTyped, StartInv, WantedInv, [Next]_vars PROVE WantedInv'
    OBVIOUS
<1>0. /\ toPage \in Seq(Surfaces) /\ w \in WindowState /\ WindowTyped
      /\ "search" \in Surfaces /\ Views \subseteq Surfaces
      /\ None \notin Views /\ pending \in Views \cup {None}
      /\ {"ready", "hide", "paste"} \subseteq Commands
  BY Names DEF SummonTyped, WireTyped, WindowTyped, Surfaces, Commands
<1>1. ASSUME UNCHANGED <<wanted, late, pending, toPage, asked>>, w'.visible \/ ~w.visible
      PROVE  WantedInv'
  <2>1. Destiny' = Destiny
    BY <1>1 DEF Destiny
  <2> QED
    BY <1>1, <2>1 DEF WantedInv
<1>2. ASSUME NEW given \in GivenBack, Dismiss(given), UNCHANGED <<pending, asked>>
      PROVE  WantedInv'
  <2>1. CASE w.visible
    <3>1. wanted' = "search" /\ Emit("search") /\ late' = (late \/ pending # None)
      BY <1>0, <1>2, <2>1, DismissFacts
    <3>2. ASSUME ~late' PROVE Destiny' = "search"
      <4>1. pending = None
        BY <3>1, <3>2
      <4>2. CASE page = "loading"
        <5>1. toPage' = toPage /\ toPage = <<>> /\ asked = "search"
          BY <1>0, <3>1, <4>2, EmitFacts DEF StartInv
        <5> QED
          BY <1>2, <4>1, <5>1 DEF Destiny
      <4>3. CASE page # "loading"
        <5>1. toPage' # <<>> /\ toPage'[Len(toPage')] = "search"
          BY <1>0, <3>1, <4>3, EmitFacts
        <5> QED
          BY <1>2, <4>1, <5>1 DEF Destiny
      <4> QED
        BY <4>2, <4>3
    <3> QED
      BY <3>1, <3>2 DEF WantedInv
  <2>2. CASE ~w.visible
    <3>1. UNCHANGED <<w, toPage, wanted, late>>
      BY <1>0, <1>2, <2>2, DismissFacts
    <3> QED
      BY <1>1, <1>2, <2>2, <3>1
  <2> QED
    BY <2>1, <2>2
<1>3. ASSUME JustDismiss, UNCHANGED <<pending, asked>> PROVE WantedInv'
  BY <1>2, <1>3 DEF JustDismiss
<1>4. \A o \in Shown(w) : o.visible
  BY <1>0, ShownFacts
<1>5. CASE Toggle
  BY <1>1, <1>3, <1>4, <1>5 DEF Toggle, Aside
<1>6. CASE Raise
  BY <1>1, <1>4, <1>6 DEF Raise, Aside, wire
<1>7. ASSUME NEW v \in Views, OpenView(v) PROVE WantedInv'
  <2>1. w'.visible /\ wanted' = v /\ Emit(v) /\ pending' = PendingFor(v)
    BY <1>4, <1>7 DEF OpenView
  <2>2. Destiny' = v
    <3>1. CASE warm
      <4>1. pending' = None /\ page = "ready"
        BY <2>1, <3>1 DEF PendingFor, StartInv
      <4>2. toPage' # <<>> /\ toPage'[Len(toPage')] = v
        BY <1>0, <2>1, <4>1, EmitFacts
      <4> QED
        BY <4>1, <4>2 DEF Destiny
    <3>2. CASE ~warm
      BY <1>0, <2>1, <3>2 DEF PendingFor, Destiny
    <3> QED
      BY <3>1, <3>2
  <2> QED
    BY <2>1, <2>2 DEF WantedInv
<1>8. CASE Blur
  BY <1>1, <1>3, <1>8 DEF Blur
<1>9. CASE TakeReady
  <2>1. /\ UNCHANGED <<w, wanted, late, asked>> /\ pending' = None
        /\ Has(toShell, "ready")
    BY <1>0, <1>9, CommandFacts DEF TakeReady
  <2>2. Destiny' = Destiny
    <3>1. CASE pending = None
      BY <1>9, <2>1, <3>1 DEF TakeReady, Destiny
    <3>2. CASE pending # None
      <4>1. Emit(pending) /\ page = "ready" /\ pending \in Surfaces
        BY <1>0, <1>9, <2>1, <3>2 DEF TakeReady, StartInv
      <4>2. toPage' # <<>> /\ toPage'[Len(toPage')] = pending
        BY <1>0, <4>1, EmitFacts
      <4> QED
        BY <2>1, <3>2, <4>2 DEF Destiny
    <3> QED
      BY <3>1, <3>2
  <2> QED
    BY <2>1, <2>2 DEF WantedInv
<1>10. CASE TakeHide
  BY <1>3, <1>10 DEF TakeHide, Command
<1>11. CASE TakePaste
  BY <1>2, <1>11 DEF TakePaste, Command
<1>12. CASE PasteCheck \/ PasteKeys
  BY <1>1, <1>12 DEF PasteCheck, PasteKeys, wire, client
<1>13. ASSUME NEW v \in Surfaces, TakeSurface(v) PROVE WantedInv'
  <2>1. w'.visible = w.visible
    BY <1>0, <1>13 DEF TakeSurface, WindowState
  <2> QED
    BY <1>1, <1>13, <2>1 DEF TakeSurface, Command
<1>14. CASE PageListens \/ PageReady \/ PageRenders \/ Leave \/ AskPaste
  BY <1>1, <1>14 DEF PageListens, PageReady, PageRenders, Leave, AskPaste, Elsewhere, ours,
                     client
<1>15. CASE PageTakes
  <2>1. /\ UNCHANGED <<w, wanted, late, pending>> /\ toPage # <<>> /\ toPage' = Tail(toPage)
        /\ asked' = Head(toPage)
    BY <1>15 DEF PageTakes, Elsewhere, ours
  <2>2. Destiny' = Destiny
    BY <1>0, <2>1, QueueTail DEF Destiny
  <2> QED
    BY <2>1, <2>2 DEF WantedInv
<1>16. CASE CloseView
  <2>1. /\ UNCHANGED <<w, toPage, pending>> /\ asked' = "search" /\ w.visible
        /\ wanted' = (IF toPage = <<>> THEN "search" ELSE wanted)
        /\ late' = (late \/ pending # None)
    BY <1>16 DEF CloseView, Typing, Elsewhere, ours, wire
  <2>2. ASSUME ~late' PROVE wanted' = Destiny'
    <3>1. ~late /\ pending = None
      BY <2>1, <2>2
    <3> QED
      BY <2>1, <3>1 DEF WantedInv, Destiny
  <2> QED
    BY <2>1, <2>2 DEF WantedInv
<1>17. ASSUME NEW other \in alive \cup {Own}, SwitchTo(other) \/ CloseWindow(other)
       PROVE  WantedInv'
  <2>1. w'.visible = w.visible
    BY <1>0, <1>17 DEF SwitchTo, CloseWindow, WindowState
  <2> QED
    BY <1>1, <1>17, <2>1 DEF SwitchTo, CloseWindow, Still, wire, client
<1>18. CASE UNCHANGED vars
  BY <1>1, <1>18 DEF vars, ours, wire, client
<1> QED
  BY <1>5, <1>6, <1>7, <1>8, <1>9, <1>10, <1>11, <1>12, <1>13, <1>14, <1>15, <1>16, <1>17,
     <1>18 DEF Next, Shell, Page, User, Surfaces

LEMMA ReportsStep == SummonTyped /\ StartInv /\ ReportsInv /\ [Next]_vars => ReportsInv'
<1> SUFFICES ASSUME SummonTyped, StartInv, ReportsInv, [Next]_vars PROVE ReportsInv'
    OBVIOUS
<1>0. /\ {"ready", "hide", "paste", "search"} \subseteq Commands /\ Surfaces \subseteq Commands
      /\ "search" \in Surfaces /\ {"ready", "hide", "paste"} \cap Surfaces = {}
      /\ asked \in Surfaces
  BY Names DEF SummonTyped, WireTyped, Surfaces, Commands
<1>1. ASSUME UNCHANGED <<toShell, view>> PROVE ReportsInv'
  BY <1>1 DEF ReportsInv
<1>2. ASSUME NEW c \in Commands, Command(c) PROVE ReportsInv'
  BY <1>2, CommandFacts DEF ReportsInv
<1>3. ASSUME NEW c \in Commands \ Surfaces, Said(c), UNCHANGED view PROVE ReportsInv'
  BY <1>3, SaidFacts DEF ReportsInv
<1>4. ASSUME NEW c \in Surfaces, Said(c), view' = c PROVE ReportsInv'
  BY <1>0, <1>4, SaidFacts DEF ReportsInv
<1>5. CASE Toggle \/ Raise \/ Blur \/ PasteCheck \/ PasteKeys \/ PageTakes \/ CloseView
  BY <1>1, <1>5 DEF Toggle, Raise, Blur, PasteCheck, PasteKeys, PageTakes, CloseView, Aside,
                    wire, client
<1>6. ASSUME NEW v \in Views, OpenView(v) PROVE ReportsInv'
  BY <1>1, <1>6 DEF OpenView, Aside
<1>7. CASE TakeReady \/ TakeHide \/ TakePaste
  BY <1>0, <1>2, <1>7 DEF TakeReady, TakeHide, TakePaste
<1>8. ASSUME NEW v \in Surfaces, TakeSurface(v) PROVE ReportsInv'
  BY <1>0, <1>2, <1>8 DEF TakeSurface
<1>9. CASE PageListens
  BY <1>0, <1>4, <1>9 DEF PageListens, StartInv
<1>10. CASE PageRenders
  BY <1>0, <1>4, <1>10 DEF PageRenders
<1>11. CASE PageReady \/ Leave \/ AskPaste
  BY <1>0, <1>3, <1>11 DEF PageReady, Leave, AskPaste, client
<1>12. CASE User \/ UNCHANGED vars
  BY <1>1, <1>12 DEF User, SwitchTo, CloseWindow, Still, vars, wire, client
<1> QED
  BY <1>5, <1>6, <1>7, <1>8, <1>9, <1>10, <1>11, <1>12 DEF Next, Shell, Page, Surfaces

LEMMA SurfaceStep ==
  SummonTyped /\ StartInv /\ WantedInv /\ ReportsInv /\ SurfaceInv /\ [Next]_vars
    => SurfaceInv'
<1> SUFFICES ASSUME SummonTyped, StartInv, WantedInv, ReportsInv, SurfaceInv, [Next]_vars
             PROVE  SurfaceInv'
    OBVIOUS
<1>0. /\ toPage \in Seq(Surfaces) /\ w \in WindowState /\ WindowTyped
      /\ {"ready", "hide", "paste", "search"} \subseteq Commands /\ Surfaces \subseteq Commands
      /\ "search" \in Surfaces /\ {"ready", "hide", "paste"} \cap Surfaces = {}
      /\ asked \in Surfaces /\ Views \subseteq Surfaces /\ "search" \notin Views
      /\ None \notin Views /\ pending \in Views \cup {None} /\ None # "search"
  BY Names DEF SummonTyped, WireTyped, WindowTyped, Surfaces, Commands
<1> DEFINE Grown == \A x : Has(toPage, x) => Has(toPage', x)
           Told  == NoReport(toShell') => NoReport(toShell)
<1>1. ASSUME UNCHANGED <<view, asked, merged, late>>, Told, Grown,
             w'.inView = w.inView, w'.height = w.height, w'.visible = w.visible
      PROVE  SurfaceInv'
  BY <1>1 DEF SurfaceInv, Fits, ToBeTold
<1>2. ASSUME w' \in Shown(w), UNCHANGED <<view, asked, merged, late, toShell>>, Grown
      PROVE  SurfaceInv'
  <2>1. /\ w'.visible /\ w'.inView = w.inView
        /\ w'.height = IF w.visible THEN w.height ELSE Height["search"]
    BY <1>0, <1>2, ShownFacts
  <2>2. CASE w.visible
    BY <1>1, <1>2, <2>1, <2>2
  <2>3. CASE ~w.visible
    <3>1. ASSUME ~late PROVE asked = "search" \/ Has(toPage, "search")
      <4>1. pending = None /\ Destiny = "search"
        BY <1>0, <2>3, <3>1 DEF WantedInv, Destiny
      <4>2. CASE toPage = <<>>
        BY <4>1, <4>2 DEF Destiny
      <4>3. CASE toPage # <<>>
        <5>1. toPage[Len(toPage)] = "search" /\ Len(toPage) \in 1..Len(toPage)
          BY <1>0, <4>1, <4>3, EmptySeq DEF Destiny
        <5> QED
          BY <5>1 DEF Has
      <4> QED
        BY <4>2, <4>3
    <3> QED
      BY <1>2, <2>1, <2>3, <3>1 DEF SurfaceInv, Fits, ToBeTold
  <2> QED
    BY <2>2, <2>3
<1>3. ASSUME NEW given \in GivenBack, Dismiss(given), UNCHANGED <<view, asked, merged, page>>,
             Told
      PROVE  SurfaceInv'
  <2>1. CASE w.visible
    <3>1. ~w'.inView /\ ~w'.visible /\ w'.height = w.height /\ Emit("search")
      BY <1>0, <1>3, <2>1, DismissFacts
    <3>2. ASSUME view # "search" PROVE Has(toPage', "search")
      <4>1. page # "loading"
        BY <3>2 DEF StartInv
      <4> QED
        BY <1>0, <3>1, <4>1, EmitFacts
    <3> QED
      BY <1>3, <3>1, <3>2 DEF SurfaceInv, ToBeTold
  <2>2. CASE ~w.visible
    <3>1. UNCHANGED <<w, toPage, late>>
      BY <1>0, <1>3, <2>2, DismissFacts
    <3> QED
      BY <1>1, <1>3, <3>1
  <2> QED
    BY <2>1, <2>2
<1>4. ASSUME JustDismiss, UNCHANGED <<view, asked, merged, page>>, Told PROVE SurfaceInv'
  BY <1>3, <1>4 DEF JustDismiss
<1>5. CASE Toggle
  BY <1>2, <1>4, <1>5 DEF Toggle, Aside
<1>6. CASE Raise
  BY <1>2, <1>6 DEF Raise, Aside, wire
<1>7. ASSUME NEW v \in Views, OpenView(v) PROVE SurfaceInv'
  <2>1. Emit(v) /\ UNCHANGED <<view, asked, merged, late, toShell>>
    BY <1>7 DEF OpenView, Aside
  <2>2. Grown
    BY <1>0, <2>1, EmitFacts
  <2> QED
    BY <1>1, <1>2, <1>7, <2>1, <2>2 DEF OpenView
<1>8. CASE Blur
  BY <1>1, <1>4, <1>8 DEF Blur
<1>9. CASE TakeReady
  <2>1. /\ UNCHANGED <<w, late, view, asked, merged>> /\ Told
    BY <1>0, <1>9, CommandFacts DEF TakeReady
  <2>2. Grown
    BY <1>0, <1>9, EmitFacts DEF TakeReady
  <2> QED
    BY <1>1, <2>1, <2>2
<1>10. CASE TakeHide \/ TakePaste
  <2>1. UNCHANGED <<view, asked, merged, page>> /\ Told
    BY <1>0, <1>10, CommandFacts DEF TakeHide, TakePaste
  <2>2. \E given \in GivenBack : Dismiss(given)
    BY <1>10 DEF TakeHide, TakePaste, JustDismiss
  <2> QED
    BY <1>3, <2>1, <2>2
<1>11. ASSUME NEW v \in Surfaces, TakeSurface(v) PROVE SurfaceInv'
  <2>1. view' = view /\ (NoReport(toShell') => v = view)
    BY <1>0, <1>11, CommandFacts DEF TakeSurface, ReportsInv
  <2>2. w'.height = Height[v] /\ w'.inView = (v # "search")
    BY <1>0, <1>11 DEF TakeSurface, WindowState
  <2> QED
    BY <2>1, <2>2 DEF SurfaceInv, Fits
<1>12. CASE PasteCheck \/ PasteKeys
  BY <1>1, <1>12 DEF PasteCheck, PasteKeys, wire, client
<1>13. CASE PageListens \/ PageRenders
  <2>1. ~NoReport(toShell')
    BY <1>0, <1>13, SaidFacts DEF PageListens, PageRenders
  <2> QED
    BY <2>1 DEF SurfaceInv
<1>14. CASE PageReady \/ Leave \/ AskPaste
  <2>1. Told
    BY <1>0, <1>14, SaidFacts DEF PageReady, Leave, AskPaste
  <2> QED
    BY <1>1, <1>14, <2>1 DEF PageReady, Leave, AskPaste, Elsewhere, ours, client
<1>15. CASE PageTakes
  <2>1. /\ UNCHANGED <<w, late, view, toShell>> /\ toPage # <<>> /\ toPage' = Tail(toPage)
        /\ asked' = Head(toPage) /\ merged' = (merged \/ (asked # view /\ Head(toPage) = view))
    BY <1>15 DEF PageTakes, Elsewhere, ours
  <2>2. Has(toPage, "search") <=> Head(toPage) = "search" \/ Has(toPage', "search")
    BY <1>0, <2>1, QueueTail
  <2> QED
    BY <2>1, <2>2 DEF SurfaceInv, Fits, ToBeTold
<1>16. CASE CloseView
  <2>1. view' = view /\ asked' = "search" /\ view # "search"
    BY <1>16 DEF CloseView
  <2> QED
    BY <2>1 DEF SurfaceInv, ToBeTold
<1>17. ASSUME NEW other \in alive \cup {Own}, SwitchTo(other) \/ CloseWindow(other)
       PROVE  SurfaceInv'
  <2>1. w'.visible = w.visible /\ w'.inView = w.inView /\ w'.height = w.height
    BY <1>0, <1>17 DEF SwitchTo, CloseWindow, WindowState
  <2> QED
    BY <1>1, <1>17, <2>1 DEF SwitchTo, CloseWindow, Still, wire, client
<1>18. CASE UNCHANGED vars
  BY <1>1, <1>18 DEF vars, ours, wire, client
<1> QED
  BY <1>5, <1>6, <1>7, <1>8, <1>9, <1>10, <1>11, <1>12, <1>13, <1>14, <1>15, <1>16, <1>17,
     <1>18 DEF Next, Shell, Page, User, Surfaces

-----------------------------------------------------------------------------
(* What follows, for every window, view and bound.                         *)

\* lib.rs show, dismiss, show_view and frontend_ready, clipboard::paste, and the
\* part of App.tsx that reports the surface keep SummonInv.
THEOREM SummonSafe == Spec => []SummonInv
<1>1. SummonInv /\ [Next]_vars => SummonInv'
  <2> SUFFICES ASSUME SummonInv, [Next]_vars PROVE SummonInv'
      OBVIOUS
  <2>1. SummonTyped'
    BY WindowTypes, WireTypes DEF SummonInv, SummonTyped
  <2>2. FocusInv' /\ FocusGoesBack' /\ PasteIsAimed'
    BY FocusStep DEF SummonInv
  <2>3. StartInv' /\ WantedInv' /\ ReportsInv' /\ SurfaceInv'
    BY StartStep, WantedStep, ReportsStep, SurfaceStep DEF SummonInv
  <2> QED
    BY <2>1, <2>2, <2>3 DEF SummonInv
<1> QED
  BY <1>1, InitSummonInv, PTL DEF Spec

\* A dismissal hands the focus back to the window the user summoned the launcher
\* from (lib.rs show and dismiss, focus.rs), whatever order toggles, raises,
\* blurs, clicks and closing windows come in; after a raise of a launcher that was
\* itself in front, and only then, it goes to the launcher's own window.
THEOREM FocusReturns == Spec => []FocusGoesBack
<1>1. SummonInv => FocusGoesBack
  BY DEF SummonInv
<1> QED
  BY <1>1, SummonSafe, PTL

\* Ctrl+V goes into the window the user summoned the launcher from (clipboard.rs
\* paste), or, after it was raised while in front itself, into its own window and no
\* other program's; unless the foreground moved between the check and the keys.
THEOREM PastesAreAimed == Spec => []PasteIsAimed
<1>1. SummonInv => PasteIsAimed
  BY DEF SummonInv
<1> QED
  BY <1>1, SummonSafe, PTL

\* Once nothing is under way, the shell's ViewState and the window's height are
\* those of the surface the page shows (lib.rs set_in_view and
\* set_launcher_height, App.tsx), unless two view events cancelled out between
\* two renders.
THEOREM SurfacesAgree == Spec => []SurfaceAgrees
<1>1. SummonInv => SurfaceAgrees
  <2> SUFFICES ASSUME SummonInv, Idle, ~merged
               PROVE  w.inView = (view # "search") /\ (w.visible => late \/ w.height = Height[view])
      BY DEF SurfaceAgrees
  <2>1. NoReport(toShell) /\ ~ToBeTold
    BY DEF Idle, NoReport, ToBeTold, Has
  <2>2. w.inView \in BOOLEAN
    BY DEF SummonInv, SummonTyped, WindowTyped, WindowState
  <2> QED
    BY <2>1, <2>2 DEF SummonInv, SurfaceInv, Fits
<1> QED
  BY <1>1, SummonSafe, PTL

\* Once nothing is under way, the page shows what was asked for last (lib.rs
\* show_view, frontend_ready and dismiss), also when it was asked for before the
\* page was there; unless the launcher was dismissed, or the view left, then.
THEOREM ShownIsWhatWasAsked == Spec => []ShowsWhatWasAsked
<1>1. SummonInv => ShowsWhatWasAsked
  <2> SUFFICES ASSUME SummonInv, Idle, ~late PROVE view = wanted
      BY DEF ShowsWhatWasAsked
  <2>1. ~Has(toShell, "ready") /\ page = "ready" /\ toPage = <<>> /\ asked = view
    BY DEF Idle, Has
  <2>2. pending = None
    BY <2>1 DEF SummonInv, StartInv
  <2> QED
    BY <2>1, <2>2 DEF SummonInv, WantedInv, Destiny
<1> QED
  BY <1>1, SummonSafe, PTL

-----------------------------------------------------------------------------
(* Where windows land (WindowLayout), on work areas of any size.           *)

LEMMA Largest ==
  ASSUME NEW n \in Int
  PROVE  AtLeastOne(n) \in Int /\ AtLeastOne(n) = IF n < 1 THEN 1 ELSE n
<1> DEFINE m == IF n < 1 THEN 1 ELSE n
<1>1. m \in {n, 1} /\ \A y \in {n, 1} : m >= y
  OBVIOUS
<1>2. AtLeastOne(n) \in {n, 1} /\ \A y \in {n, 1} : AtLeastOne(n) >= y
  BY <1>1 DEF AtLeastOne, Max
<1> QED
  BY <1>1, <1>2

LEMMA Smallest ==
  ASSUME NEW n \in Int, NEW k \in Int
  PROVE  Min({n, k}) \in Int /\ Min({n, k}) = IF n < k THEN n ELSE k
<1> DEFINE m == IF n < k THEN n ELSE k
<1>1. m \in {n, k} /\ \A y \in {n, k} : m <= y
  OBVIOUS
<1>2. Min({n, k}) \in {n, k} /\ \A y \in {n, k} : Min({n, k}) <= y
  BY <1>1 DEF Min
<1> QED
  BY <1>1, <1>2

LEMMA Rounds ==
  ASSUME NEW n \in Nat
  PROVE  /\ Round(n, 24) \in Nat
         /\ 24 * Round(n, 24) <= n + 12 /\ n < 24 * Round(n, 24) + 12
  BY DEF Round

\* The places of a tile along one side, of a work area or of one side of it.
Spans == {<<0, 12>>, <<12, 12>>, <<0, 24>>, <<0, 8>>, <<8, 8>>, <<16, 8>>, <<0, 16>>, <<8, 16>>, <<6, 12>>, <<3, 18>>}

LEMMA SpanFits ==
  ASSUME NEW extent \in Nat, extent > 0, NEW s \in Spans
  PROVE  LET from == Round(extent * s[1], 24)
             size == AtLeastOne(Round(extent * s[2], 24))
         IN  from \in Nat /\ size \in Nat /\ from + size <= extent + 1
<1>1. ASSUME NEW n \in Nat, NEW k \in Nat, n + k <= 24 * extent
      PROVE  /\ Round(n, 24) \in Nat /\ AtLeastOne(Round(k, 24)) \in Nat
             /\ Round(n, 24) + AtLeastOne(Round(k, 24)) <= extent + 1
  <2> DEFINE p == Round(n, 24)
             q == Round(k, 24)
             m == AtLeastOne(q)
  <2>1. p \in Nat /\ 24 * p <= n + 12 /\ q \in Nat /\ 24 * q <= k + 12
    BY Rounds
  <2> HIDE DEF p, q
  <2>2. m = IF q < 1 THEN 1 ELSE q
    BY <2>1, Largest
  <2> HIDE DEF m
  <2>3. p <= extent /\ p + q <= extent + 1
    BY <1>1, <2>1
  <2>4. m \in Nat /\ p + m <= extent + 1
    BY <2>1, <2>2, <2>3
  <2> QED
    BY <2>1, <2>4 DEF p, q, m
<1> QED
  BY <1>1 DEF Spans

LEMMA AreaFacts ==
  ASSUME NEW a \in Areas
  PROVE  /\ a[1] \in Int /\ a[2] \in Int /\ a[3] \in Int /\ a[4] \in Int
         /\ WidthOf(a) \in Nat /\ WidthOf(a) > 0 /\ a[3] = a[1] + WidthOf(a)
         /\ HeightOf(a) \in Nat /\ HeightOf(a) > 0 /\ a[4] = a[2] + HeightOf(a)
         /\ Dpi[a] \in Nat
  BY LayoutAssumption DEF WidthOf, HeightOf

\* describe lists one row for a program however its dialogs own one another, and
\* never leaves out a visible window whose program shows nothing over it.
THEOREM ProgramsAreListedOnce == OneRowPerOwner
<1> SUFFICES ASSUME NEW d \in Desktops
             PROVE  /\ \A v, u \in Listed(d) : d.owner[v] = d.owner[u] => v = u
                    /\ \A v \in Handles : /\ d.visible[v] /\ d.plain[v] /\ d.owner[v] = v
                                          /\ ~d.visible[d.popup[v]] \/ d.popup[v] = v
                                          => v \in Listed(d)
  BY DEF OneRowPerOwner
<1>1. \A v \in Handles : d.owner[d.owner[v]] = d.owner[v] /\ d.owner[d.popup[v]] = d.owner[v]
  BY DEF Desktops
<1>2. \A v, u \in Listed(d) : d.owner[v] = d.owner[u] => v = u
  BY DEF Listed, Lands, RootOwner, LastPopup
<1>3. ASSUME NEW v \in Handles, d.visible[v] /\ d.plain[v] /\ d.owner[v] = v,
             ~d.visible[d.popup[v]] \/ d.popup[v] = v
      PROVE  v \in Listed(d)
  BY <1>1, <1>3 DEF Listed, Lands, RootOwner, LastPopup
<1> QED
  BY <1>2, <1>3

\* tile_rect on a work area of any size: a tile stays on it but for the pixel that
\* halving an odd extent rounds up, and the tiles of a row meet without a gap; only
\* a display one pixel wide has no room for three.
THEOREM TilesMeetAnywhere ==
  ASSUME \A a \in Areas : WidthOf(a) > 1
  PROVE  TilesMeet
<1> SUFFICES ASSUME NEW a \in Areas
             PROVE  LET R(name) == TileRect(a, Tile[name])
                        Right(name) == R(name)[1] + R(name)[3]
                    IN  /\ \A name \in DOMAIN Tile : Inside(R(name), WithPixel(a))
                        /\ Right("left_half") = R("right_half")[1] /\ Right("top_left") = R("top_right")[1]
                        /\ \A p \in {<<"left_third", "center_third">>, <<"center_third", "right_third">>,
                                     <<"left_third", "right_two_thirds">>, <<"left_two_thirds", "right_third">>} :
                             R(p[2])[1] - Right(p[1]) \in -1..1
                        /\ Right("right_third") = a[3] /\ Right("right_two_thirds") = a[3]
  BY DEF TilesMeet
<1> DEFINE R(name) == TileRect(a, Tile[name])
           Right(name) == R(name)[1] + R(name)[3]
           width == WidthOf(a)
           height == HeightOf(a)
<1>1. /\ a[1] \in Int /\ a[2] \in Int /\ a[3] \in Int /\ a[4] \in Int
      /\ width \in Nat /\ width > 1 /\ a[3] = a[1] + width
      /\ height \in Nat /\ height > 0 /\ a[4] = a[2] + height
  BY AreaFacts
<1>2. ASSUME NEW name \in DOMAIN Tile PROVE Inside(R(name), WithPixel(a))
  <2> DEFINE t == Tile[name]
             x == Round(width * t[1], 24)
             y == Round(height * t[2], 24)
             across == AtLeastOne(Round(width * t[3], 24))
             down == AtLeastOne(Round(height * t[4], 24))
  <2>1. /\ <<t[1], t[3]>> \in Spans /\ <<t[2], t[4]>> \in Spans
    BY DEF Tile, Spans
  <2>2. x \in Nat /\ across \in Nat /\ x + across <= width + 1
    BY <1>1, <2>1, SpanFits
  <2>3. y \in Nat /\ down \in Nat /\ y + down <= height + 1
    BY <1>1, <2>1, SpanFits
  <2>4. R(name) = <<a[1] + x, a[2] + y, across, down>>
    BY DEF TileRect
  <2> HIDE DEF x, y, across, down, R
  <2> QED
    BY <1>1, <2>2, <2>3, <2>4 DEF Inside, WithPixel
<1> DEFINE third == Round(width * 8, 24)
           half == Round(width * 12, 24)
           two == Round(width * 16, 24)
           none == Round(width * 0, 24)
<1>3. /\ third \in Nat /\ half \in Nat /\ two \in Nat
      /\ none = 0 /\ half >= 1 /\ third >= 1 /\ two >= 1 /\ third + two = width
      /\ two - 2 * third \in -1..1
  <2> HIDE DEF width
  <2>1. none = 0 /\ half \in Nat /\ half >= 1
    BY <1>1 DEF Round
  <2>2. third \in Nat /\ two \in Nat /\ third >= 1 /\ two >= 1
    BY <1>1 DEF Round
  <2>3. third + two = width /\ two - 2 * third \in -1..1
    BY <1>1 DEF Round
  <2> QED
    BY <2>1, <2>2, <2>3
<1>4. AtLeastOne(third) = third /\ AtLeastOne(half) = half /\ AtLeastOne(two) = two
  <2> HIDE DEF third, half, two
  <2> QED
    BY <1>3, Largest
<1>5. /\ R("left_half")[1] = a[1] + none /\ R("left_half")[3] = AtLeastOne(half)
      /\ R("top_left")[1] = a[1] + none /\ R("top_left")[3] = AtLeastOne(half)
      /\ R("right_half")[1] = a[1] + half /\ R("top_right")[1] = a[1] + half
      /\ R("left_third")[1] = a[1] + none /\ R("left_third")[3] = AtLeastOne(third)
      /\ R("center_third")[1] = a[1] + third /\ R("center_third")[3] = AtLeastOne(third)
      /\ R("right_third")[1] = a[1] + two /\ R("right_third")[3] = AtLeastOne(third)
      /\ R("left_two_thirds")[1] = a[1] + none /\ R("left_two_thirds")[3] = AtLeastOne(two)
      /\ R("right_two_thirds")[1] = a[1] + third /\ R("right_two_thirds")[3] = AtLeastOne(two)
  BY DEF TileRect, Tile
<1> HIDE DEF third, half, two, none, R, width, height
<1>6. /\ Right("left_half") = R("right_half")[1] /\ Right("top_left") = R("top_right")[1]
      /\ Right("right_third") = a[3] /\ Right("right_two_thirds") = a[3]
  BY <1>1, <1>3, <1>4, <1>5
<1>7. /\ R("center_third")[1] - Right("left_third") \in -1..1
      /\ R("right_third")[1] - Right("center_third") \in -1..1
      /\ R("right_two_thirds")[1] - Right("left_third") \in -1..1
      /\ R("right_third")[1] - Right("left_two_thirds") \in -1..1
  BY <1>1, <1>3, <1>4, <1>5
<1>8. \A p \in {<<"left_third", "center_third">>, <<"center_third", "right_third">>,
               <<"left_third", "right_two_thirds">>, <<"left_two_thirds", "right_third">>} :
        R(p[2])[1] - Right(p[1]) \in -1..1
  BY <1>7
<1>9. \A name \in DOMAIN Tile : Inside(R(name), WithPixel(a))
  BY <1>2
<1> QED
  BY <1>6, <1>8, <1>9 DEF R

LEMMA Scales ==
  ASSUME NEW v \in Nat, NEW dpi \in Nat
  PROVE  Scale(v, dpi) \in Nat
<1> DEFINE d == IF dpi = 0 THEN 96 ELSE dpi
           n == v * d
<1>1. n \in Nat
  OBVIOUS
<1>2. Scale(v, dpi) = n \div 96
  BY DEF Scale
<1> HIDE DEF n
<1> QED
  BY <1>1, <1>2

LEMMA LauncherFacts ==
  ASSUME NEW a \in Areas, NEW dpi \in Nat, NEW tall \in Nat
  PROVE  LET at == ComputeFromHeight(a, dpi, tall)
             room == AtLeastOne(a[4] - (a[2] + AtLeastOne(HeightOf(a)) \div 5))
         IN  /\ Inside(at, a) /\ room \in Nat
             /\ at[4] = AtLeastOne(Min({Scale(tall, dpi), room}))
<1> DEFINE wide == WidthOf(a)
           high == HeightOf(a)
           top == a[2] + high \div 5
           room == AtLeastOne(a[4] - top)
           width == Min({Scale(LogicalWidth, dpi), (wide * 9) \div 10})
           height == Min({Scale(tall, dpi), room})
           left == a[1] + (wide - width) \div 2
           most == (wide * 9) \div 10
           at == ComputeFromHeight(a, dpi, tall)
<1>1. /\ a[1] \in Int /\ a[2] \in Int /\ a[3] \in Int /\ a[4] \in Int
      /\ wide \in Nat /\ wide > 0 /\ a[3] = a[1] + wide
      /\ high \in Nat /\ high > 0 /\ a[4] = a[2] + high
  BY AreaFacts
<1>2. AtLeastOne(wide) = wide /\ AtLeastOne(high) = high
  BY <1>1, Largest
<1>3. at = <<left, top, AtLeastOne(width), AtLeastOne(height)>>
  BY <1>2 DEF ComputeFromHeight
<1>4. Scale(LogicalWidth, dpi) \in Nat /\ Scale(tall, dpi) \in Nat
  BY Scales, LayoutAssumption
<1> HIDE DEF wide, high
<1>5. top \in Int /\ a[2] <= top /\ top < a[4] /\ most \in Nat /\ most < wide
  BY <1>1
<1> HIDE DEF most, top
<1>6. room \in Int /\ room = a[4] - top
  <2>1. a[4] - top \in Int /\ ~ (a[4] - top < 1)
    BY <1>1, <1>5
  <2> QED
    BY <2>1, Largest
<1>7. width \in Int /\ width = IF Scale(LogicalWidth, dpi) < most THEN Scale(LogicalWidth, dpi) ELSE most
  BY <1>4, <1>5, Smallest DEF most
<1> HIDE DEF room
<1>8. height \in Int /\ height = IF Scale(tall, dpi) < room THEN Scale(tall, dpi) ELSE room
  BY <1>4, <1>6, Smallest
<1>9. /\ AtLeastOne(width) = IF width < 1 THEN 1 ELSE width
      /\ AtLeastOne(height) = IF height < 1 THEN 1 ELSE height
  BY <1>7, <1>8, Largest
<1>10. width \in Nat /\ width < wide /\ left \in Int /\ a[1] <= left /\ left + AtLeastOne(width) <= a[3]
  <2>1. width \in Nat /\ width < wide
    BY <1>1, <1>4, <1>5, <1>7
  <2> HIDE DEF width
  <2>2. left \in Int /\ a[1] <= left /\ left + (IF width < 1 THEN 1 ELSE width) <= a[3]
    BY <1>1, <2>1
  <2> QED
    BY <1>9, <2>1, <2>2
<1>11. top + AtLeastOne(height) <= a[4]
  BY <1>1, <1>4, <1>5, <1>6, <1>8, <1>9
<1>12. Inside(at, a)
  <2> HIDE DEF left, width, height, at
  <2> QED
    BY <1>3, <1>5, <1>10, <1>11 DEF Inside
<1>13. room \in Nat
  BY <1>1, <1>5, <1>6
<1> QED
  BY <1>2, <1>3, <1>12, <1>13 DEF room, top, high

\* The launcher lies within the work area of any display, and growing or shrinking it
\* moves neither its top edge nor its sides.
THEOREM LauncherFitsAnywhere == LauncherFits
<1> SUFFICES ASSUME NEW a \in Areas, NEW dpi \in {0, 96, 144, 192}, NEW h1 \in Heights, NEW h2 \in Heights
             PROVE  LET p == ComputeFromHeight(a, dpi, h1)
                        o == ComputeFromHeight(a, dpi, h2)
                    IN  Inside(p, a) /\ p[1] = o[1] /\ p[2] = o[2] /\ p[3] = o[3] /\ (h1 <= h2 => p[4] <= o[4])
  BY DEF LauncherFits
<1> DEFINE p == ComputeFromHeight(a, dpi, h1)
           o == ComputeFromHeight(a, dpi, h2)
           room == AtLeastOne(a[4] - (a[2] + AtLeastOne(HeightOf(a)) \div 5))
           m == Scale(h1, dpi)
           n == Scale(h2, dpi)
<1>1. h1 \in Nat /\ h2 \in Nat /\ dpi \in Nat
  BY LayoutAssumption
<1>2. /\ Inside(p, a) /\ room \in Nat
      /\ p[4] = AtLeastOne(Min({m, room})) /\ o[4] = AtLeastOne(Min({n, room}))
  BY <1>1, LauncherFacts
<1>3. p[1] = o[1] /\ p[2] = o[2] /\ p[3] = o[3]
  BY DEF ComputeFromHeight
<1>4. ASSUME h1 <= h2 PROVE p[4] <= o[4]
  <2>1. m \in Nat /\ n \in Nat
    BY <1>1, Scales
  <2>2. m <= n
    BY <1>1, <1>4 DEF Scale
  <2> HIDE DEF m, n, room
  <2>3. /\ Min({m, room}) = (IF m < room THEN m ELSE room) /\ Min({m, room}) \in Int
        /\ Min({n, room}) = (IF n < room THEN n ELSE room) /\ Min({n, room}) \in Int
    BY <1>2, <2>1, Smallest
  <2> DEFINE s == Min({m, room})
             t == Min({n, room})
  <2>4. s \in Int /\ t \in Int /\ s <= t
    BY <1>2, <2>1, <2>2, <2>3
  <2> HIDE DEF s, t
  <2>5. AtLeastOne(s) = (IF s < 1 THEN 1 ELSE s) /\ AtLeastOne(t) = (IF t < 1 THEN 1 ELSE t)
    BY <2>4, Largest
  <2>6. AtLeastOne(s) <= AtLeastOne(t)
    BY <2>4, <2>5
  <2> QED
    BY <1>2, <2>6 DEF s, t
<1> QED
  BY <1>2, <1>3, <1>4

\* Growing for a view leaves the launcher on its own display, and being summoned puts
\* it on the mouse's, wholly, at any DPI and when the DPI cannot be read.
THEOREM LauncherStaysHome == LauncherStays
<1> SUFFICES ASSUME NEW own \in Areas, NEW cursor \in Areas, NEW reads \in BOOLEAN, NEW tall \in Heights
             PROVE  /\ Inside(PlaceLauncher(FALSE, cursor, own, TRUE, reads, tall), own)
                    /\ Inside(PlaceLauncher(TRUE, cursor, own, TRUE, reads, tall), cursor)
  BY DEF LauncherStays
<1>1. ASSUME NEW a \in Areas PROVE Inside(OnMonitor(a, TRUE, reads, tall), a)
  <2> DEFINE dpi == IF reads THEN Dpi[a] ELSE 96
  <2>1. dpi \in Nat /\ tall \in Nat
    BY AreaFacts, LayoutAssumption
  <2>2. OnMonitor(a, TRUE, reads, tall) = ComputeFromHeight(a, dpi, tall)
    BY DEF OnMonitor
  <2> HIDE DEF dpi
  <2> QED
    BY <2>1, <2>2, LauncherFacts
<1> QED
  BY <1>1 DEF PlaceLauncher, LauncherArea

LEMMA Proportion ==
  ASSUME NEW extent \in Nat, NEW den \in Nat, den > 0, NEW c \in 0..den
  PROVE  Round(extent * c, den) \in 0..extent
<1> DEFINE n == extent * c
           full == extent * den
           q == (2 * n + den) \div (2 * den)
<1>1. n \in Nat /\ full \in Nat /\ n <= full
  BY Z3
<1>2. q \in Nat /\ q * (2 * den) <= 2 * n + den
  <2> HIDE DEF n
  <2> QED
    BY <1>1, Z3
<1>3. q <= extent
  <2> SUFFICES ASSUME q >= extent + 1 PROVE FALSE
    BY <1>2
  <2> HIDE DEF q, n
  <2>1. q * (2 * den) >= (extent + 1) * (2 * den)
    BY <1>2, Z3
  <2>2. (extent + 1) * (2 * den) = 2 * full + 2 * den
    BY Z3
  <2> HIDE DEF full
  <2>3. \A a, b \in Int : a >= b /\ b = 2 * full + 2 * den /\ a <= 2 * n + den => FALSE
    BY <1>1
  <2>4. q * (2 * den) \in Int /\ (extent + 1) * (2 * den) \in Int
    BY <1>2
  <2> QED
    BY <1>2, <2>1, <2>2, <2>3, <2>4
<1> QED
  BY <1>2, <1>3 DEF Round

LEMMA Clamps ==
  ASSUME NEW num \in Int, NEW den \in Nat
  PROVE  Clamped(num, den) \in 0..den
<1> DEFINE least == Min({num, den})
           c == IF least < 0 THEN 0 ELSE least
<1>1. least \in Int /\ least = IF num < den THEN num ELSE den
  BY Smallest
<1> HIDE DEF least
<1>2. c \in {0, least} /\ \A y \in {0, least} : c >= y
  BY <1>1
<1>3. Clamped(num, den) \in {0, least} /\ \A y \in {0, least} : Clamped(num, den) >= y
  BY <1>2 DEF Clamped, Max, least
<1> QED
  BY <1>1, <1>3

\* One side of remap_rect: a share of the target that begins and ends on it.
LEMMA SideFits ==
  ASSUME NEW first \in Int, NEW extent \in Nat, extent > 0, NEW den \in Nat, den > 0,
         NEW offset \in Int, NEW length \in Int
  PROVE  LET size == AtLeastOne(Round(extent * Clamped(length, den), den))
             from == Min({first + Round(extent * Clamped(offset, den), den), first + extent - size})
         IN  size \in Nat /\ size > 0 /\ from \in Int /\ first <= from /\ from + size <= first + extent
<1> DEFINE far == Round(extent * Clamped(offset, den), den)
           long == Round(extent * Clamped(length, den), den)
           size == AtLeastOne(long)
           from == Min({first + far, first + extent - size})
<1>1. far \in 0..extent /\ long \in 0..extent
  BY Clamps, Proportion
<1> HIDE DEF far, long
<1>2. size \in Nat /\ size > 0 /\ size <= extent
  BY <1>1, Largest
<1> HIDE DEF size
<1>3. from \in Int /\ (from = first + far \/ from = first + extent - size) /\ from <= first + extent - size
  BY <1>1, <1>2, Smallest
<1> HIDE DEF from
<1>4. first <= from /\ from + size <= first + extent
  BY <1>1, <1>2, <1>3
<1> QED
  BY <1>2, <1>3, <1>4 DEF from, size, far, long

LEMMA RemapFits ==
  ASSUME NEW at \in Int \X Int \X Int \X Int, NEW from \in Areas, NEW to \in Areas
  PROVE  /\ RemapRect(at, from, to) \in Int \X Int \X Int \X Int
         /\ Inside(RemapRect(at, from, to), to)
<1> DEFINE fw == AtLeastOne(WidthOf(from))
           fh == AtLeastOne(HeightOf(from))
           tw == WidthOf(to)
           th == HeightOf(to)
           width == AtLeastOne(Round(tw * Clamped(at[3], fw), fw))
           height == AtLeastOne(Round(th * Clamped(at[4], fh), fh))
           left == Min({to[1] + Round(tw * Clamped(at[1] - from[1], fw), fw), to[1] + tw - width})
           top == Min({to[2] + Round(th * Clamped(at[2] - from[2], fh), fh), to[2] + th - height})
<1>1. /\ to[1] \in Int /\ to[2] \in Int /\ to[3] \in Int /\ to[4] \in Int
      /\ tw \in Nat /\ tw > 0 /\ to[3] = to[1] + tw
      /\ th \in Nat /\ th > 0 /\ to[4] = to[2] + th
  BY AreaFacts
<1>2. fw \in Nat /\ fw > 0 /\ fh \in Nat /\ fh > 0 /\ from[1] \in Int /\ from[2] \in Int
  BY AreaFacts, Largest
<1>3. at[1] - from[1] \in Int /\ at[2] - from[2] \in Int /\ at[3] \in Int /\ at[4] \in Int
  BY <1>2
<1> HIDE DEF tw, th, fw, fh
<1>4. width \in Nat /\ width > 0 /\ left \in Int /\ to[1] <= left /\ left + width <= to[1] + tw
  BY <1>1, <1>2, <1>3, SideFits
<1>5. height \in Nat /\ height > 0 /\ top \in Int /\ to[2] <= top /\ top + height <= to[2] + th
  BY <1>1, <1>2, <1>3, SideFits
<1>6. RemapRect(at, from, to) = <<left, top, width, height>>
  <2> DEFINE x == to[1] + Round(tw * Clamped(at[1] - from[1], fw), fw)
             y == to[2] + Round(th * Clamped(at[2] - from[2], fh), fh)
  <2>1. RemapRect(at, from, to) = <<Min({x, to[3] - width}), Min({y, to[4] - height}), width, height>>
    BY DEF RemapRect, tw, th, fw, fh
  <2>2. left = Min({x, to[1] + tw - width}) /\ top = Min({y, to[2] + th - height})
    OBVIOUS
  <2> HIDE DEF x, y, width, height, left, top
  <2>3. to[3] - width = to[1] + tw - width /\ to[4] - height = to[2] + th - height
    BY <1>1, <1>4, <1>5
  <2> QED
    BY <2>1, <2>2, <2>3
<1> HIDE DEF left, top, width, height
<1> QED
  BY <1>1, <1>4, <1>5, <1>6 DEF Inside

WindowKind ==
  [mode : {"normal", "zoomed", "iconic", "iconic_zoomed"}, at : Int \X Int \X Int \X Int,
   area : Areas, rescales : BOOLEAN]

\* move_to_next_monitor: a window, of any size and wherever it was, lands wholly on
\* the next display, though its program rescales itself on the way there;
\* maximised if it was, even if it was minimised since, and never iconic. When a
\* call is refused it is as it was, or restored where it was, or restored and on
\* the next display.
THEOREM MovedWindowsFit ==
  ASSUME NEW win \in WindowKind, NEW areas, NextArea(areas, win.area) \in Areas,
         NEW refused \in Calls, ~(Cardinality(areas) < 2)
  PROVE  LET end  == MoveToNextMonitor(win, areas, refused)
             next == NextArea(areas, win.area)
         IN  /\ end.ok <=> refused \notin {"area", "rect", "move", "again"}
             /\ end.ok => /\ end.win.area = next /\ Inside(end.win.at, next)
                          /\ end.win.mode = (IF win.mode \in {"zoomed", "iconic_zoomed"}
                                             THEN "zoomed" ELSE "normal")
             /\ ~end.ok => \/ end.win = win
                           \/ /\ end.win.mode = "normal"
                              /\ \/ end.win.area = win.area /\ end.win.at = win.at
                                 \/ refused = "again" /\ end.win.area = next
<1> DEFINE to == NextArea(areas, win.area)
           flat == Flattened(win)
           rect == RemapRect(flat.at, win.area, to)
           half == SetWindowPos(flat, rect, to)
           moved == SetWindowPos(half, rect, to)
           there == IF Lifted(win).mode = "zoomed" THEN [moved EXCEPT !.mode = "zoomed"] ELSE moved
<1>1. /\ Lifted(win) \in WindowKind /\ Lifted(win).at = win.at /\ Lifted(win).area = win.area
      /\ Lifted(win).mode = (IF win.mode \in {"zoomed", "iconic_zoomed"} THEN "zoomed" ELSE "normal")
  BY DEF WindowKind, Restored, Lifted
<1>2. flat \in WindowKind /\ flat.at = win.at /\ flat.area = win.area /\ flat.mode = "normal"
  BY <1>1 DEF WindowKind, Restored, Flattened
<1> HIDE DEF flat
<1>3. Inside(rect, to)
  BY <1>2, RemapFits DEF WindowKind
<1> HIDE DEF rect
<1>4. half.area = to /\ half.mode = "normal" /\ half = [half EXCEPT !.area = to]
      /\ DOMAIN half = {"mode", "at", "area", "rescales"}
  BY <1>2 DEF SetWindowPos, WindowKind
<1> HIDE DEF half
<1>5. moved.area = to /\ moved.mode = "normal" /\ moved.at = rect
      /\ DOMAIN moved = {"mode", "at", "area", "rescales"}
  <2>1. moved = [half EXCEPT !.area = to, !.at = rect]
    BY <1>4 DEF SetWindowPos
  <2> QED
    BY <1>4, <2>1
<1> HIDE DEF moved, to
<1>6. /\ there.area = to /\ there.at = rect
      /\ there.mode = (IF win.mode \in {"zoomed", "iconic_zoomed"} THEN "zoomed" ELSE "normal")
  <2>1. CASE Lifted(win).mode = "zoomed"
    <3>1. there = [moved EXCEPT !.mode = "zoomed"]
      BY <2>1
    <3> QED
      BY <1>1, <1>5, <2>1, <3>1
  <2>2. CASE Lifted(win).mode # "zoomed"
    <3>1. there = moved
      BY <2>2
    <3> QED
      BY <1>1, <1>5, <2>2, <3>1
  <2> QED
    BY <2>1, <2>2
<1> HIDE DEF there
<1>7. MoveToNextMonitor(win, areas, refused) =
        IF refused = "area" THEN Refuses(win)
        ELSE IF refused \in {"rect", "move"} THEN Refuses(flat)
        ELSE IF refused = "again" THEN Refuses(half) ELSE Did(there)
  BY DEF MoveToNextMonitor, MonitorWorkArea, there, moved, half, rect, flat, to
<1>8. /\ Did(there).ok /\ Did(there).win = there
      /\ \A any : ~Refuses(any).ok /\ Refuses(any).win = any
  BY DEF Did, Refuses
<1>9. CASE refused = "area"
  BY <1>7, <1>8, <1>9
<1>10. CASE refused \in {"rect", "move"}
  BY <1>2, <1>7, <1>8, <1>10
<1>11. CASE refused = "again"
  BY <1>4, <1>7, <1>8, <1>11 DEF to
<1>12. CASE refused \notin {"area", "rect", "move", "again"}
  BY <1>3, <1>6, <1>7, <1>8, <1>12 DEF to
<1> QED
  BY <1>9, <1>10, <1>11, <1>12
=============================================================================
