----------------------------- MODULE WindowLayout -----------------------------
(***************************************************************************)
(* Other programs' windows (winman.rs): which of them are rows, where a    *)
(* layout action puts one, how one moves to the next display; and where    *)
(* the launcher's own window goes (placement.rs). Rectangles are           *)
(* <<left, top, right, bottom>>, a position <<x, y, width, height>>.       *)
(***************************************************************************)
EXTENDS Integers, SequencesExt

CONSTANTS
  Areas,        \* work areas of displays
  Dpi,          \* work area -> its DPI
  Heights,      \* logical heights asked for the launcher
  LogicalWidth, \* LOGICAL_WIDTH
  Handles       \* window handles

WidthOf(a)  == a[3] - a[1]
HeightOf(a) == a[4] - a[2]

ASSUME LayoutAssumption ==
  /\ Areas \subseteq Int \X Int \X Int \X Int
  /\ \A a \in Areas : WidthOf(a) > 0 /\ HeightOf(a) > 0 /\ Dpi[a] \in Nat
  /\ Heights \subseteq Nat /\ LogicalWidth \in Nat

-----------------------------------------------------------------------------
(* enumerate and describe. A desktop: [owner, popup, visible, plain], where *)
(* popup is GetLastActivePopup (external), and plain says the window has a  *)
(* title and is neither a tool window nor cloaked.                          *)

RootOwner(d, w) == d.owner[w]
LastPopup(d, w) == d.popup[w]

Lands(d, w) ==
  LET root  == RootOwner(d, w)
      popup == LastPopup(d, root)
  IN  IF d.visible[popup] THEN popup ELSE RootOwner(d, popup)
Listed(d) == {w \in Handles : d.visible[w] /\ Lands(d, w) = w /\ d.plain[w]}

\* Two levels of ownership are enough: GA_ROOTOWNER climbs all of them at once.
Desktops ==
  {d \in [owner   : [Handles -> Handles], popup : [Handles -> Handles],
          visible : [Handles -> BOOLEAN], plain : [Handles -> BOOLEAN]] :
     \A w \in Handles : /\ d.owner[d.owner[w]] = d.owner[w]
                        /\ d.owner[d.popup[w]] = d.owner[w]
                        /\ d.owner[w] # w => d.popup[w] = w}

-----------------------------------------------------------------------------
(* tile_for, in twenty-fourths of the work area, and tile_rect.            *)

Tile ==
  [left_half |-> <<0, 0, 12, 24>>, right_half |-> <<12, 0, 12, 24>>,
   top_half |-> <<0, 0, 24, 12>>, bottom_half |-> <<0, 12, 24, 12>>,
   left_third |-> <<0, 0, 8, 24>>, center_third |-> <<8, 0, 8, 24>>, right_third |-> <<16, 0, 8, 24>>,
   left_two_thirds |-> <<0, 0, 16, 24>>, right_two_thirds |-> <<8, 0, 16, 24>>,
   top_left |-> <<0, 0, 12, 12>>, top_right |-> <<12, 0, 12, 12>>,
   bottom_left |-> <<0, 12, 12, 12>>, bottom_right |-> <<12, 12, 12, 12>>,
   maximize |-> <<0, 0, 24, 24>>, center |-> <<6, 3, 12, 18>>]

Round(num, den) == (2 * num + den) \div (2 * den)   \* to the nearest, halves up
AtLeastOne(n) == Max({n, 1})

TileRect(work, t) ==
  <<work[1] + Round(WidthOf(work) * t[1], 24), work[2] + Round(HeightOf(work) * t[2], 24),
    AtLeastOne(Round(WidthOf(work) * t[3], 24)), AtLeastOne(Round(HeightOf(work) * t[4], 24))>>

-----------------------------------------------------------------------------
(* remap_rect, next_area and move_to_next_monitor. A window: [mode, at,    *)
(* area, rescales]: its state, its position, the display it is on, and     *)
(* whether the program rescales itself when the DPI changes.               *)

Clamped(num, den) == Max({0, Min({num, den})})
RemapRect(at, from, to) ==
  LET fw == AtLeastOne(WidthOf(from))
      fh == AtLeastOne(HeightOf(from))
      w  == AtLeastOne(Round(WidthOf(to) * Clamped(at[3], fw), fw))
      h  == AtLeastOne(Round(HeightOf(to) * Clamped(at[4], fh), fh))
      x  == to[1] + Round(WidthOf(to) * Clamped(at[1] - from[1], fw), fw)
      y  == to[2] + Round(HeightOf(to) * Clamped(at[2] - from[2], fh), fh)
  IN  <<Min({x, to[3] - w}), Min({y, to[4] - h}), w, h>>

\* work_areas: left to right, top to bottom.
WorkAreas(areas) == SetToSortSeq(areas, LAMBDA a, b : a[1] < b[1] \/ (a[1] = b[1] /\ a[2] < b[2]))
\* A display that is gone counts as the first.
NextArea(areas, current) ==
  LET order == WorkAreas(areas)
      here  == {i \in DOMAIN order : order[i] = current}
      idx   == IF here = {} THEN 1 ELSE Min(here)
  IN  order[(idx % Len(order)) + 1]

Restored(win) ==   \* SW_RESTORE
  [win EXCEPT !.mode = IF @ = "iconic_zoomed" THEN "zoomed" ELSE "normal"]
\* SetWindowPos (external): a program that rescales answers a change of DPI by
\* scaling the size it was given.
SetWindowPos(win, at, to) ==
  IF win.rescales /\ Dpi[win.area] # Dpi[to]
  THEN [win EXCEPT !.area = to, !.at = <<at[1], at[2], AtLeastOne((at[3] * Dpi[to]) \div Dpi[win.area]),
                                         AtLeastOne((at[4] * Dpi[to]) \div Dpi[win.area])>>]
  ELSE [win EXCEPT !.area = to, !.at = at]

\* SW_RESTORE brings a window minimised from maximised back maximised: not minimised
\* any more, and not maximised either, are two calls.
Lifted(win) == IF win.mode \in {"iconic", "iconic_zoomed"} THEN Restored(win) ELSE win
Flattened(win) == IF Lifted(win).mode = "zoomed" THEN Restored(Lifted(win)) ELSE Lifted(win)

-----------------------------------------------------------------------------
(* act, and what it runs. An outcome: [win, ok, raised, calls], the window  *)
(* after it, and the calls that join and leave input queues. refused: the   *)
(* call that fails this time, if one does: to read the work area or the     *)
(* window's rectangle, to move the window, to move it again, to post to it, *)
(* to change its order.                                                     *)

Calls == {"none", "area", "rect", "move", "again", "post", "order"}

Did(win) == [win |-> win, ok |-> TRUE, raised |-> FALSE, calls |-> <<>>]
Refuses(win) == [Did(win) EXCEPT !.ok = FALSE]

\* AttachThreadInput, to the threads of the foreground window and of the target;
\* not to the caller's own, nor to one that is gone. lock: [first, second, joins],
\* whether Windows lets each attempt through and which threads can be joined.
Joined(lock) == SelectSeq(<<"foreground", "target">>, LAMBDA t : t \in lock.joins)
RaiseWindow(win, lock) ==   \* switch_to
  LET join  == Joined(lock)
      leave == Reverse(join)
  IN  IF lock.first THEN [Did(Lifted(win)) EXCEPT !.raised = TRUE]
      ELSE [win |-> Lifted(win), ok |-> lock.second, raised |-> lock.second,
            calls |-> [i \in DOMAIN join |-> <<"attach", join[i]>>]
                      \o [i \in DOMAIN leave |-> <<"detach", leave[i]>>]]

\* monitor_work_area: of the display the window is on.
MonitorWorkArea(win, refused) == IF refused = "area" THEN {} ELSE {win.area}
\* place: moved and sized where it is, whatever its state.
Place(win, tile, refused) ==
  IF MonitorWorkArea(win, refused) = {} \/ refused = "move" THEN Refuses(win)
  ELSE Did([win EXCEPT !.at = TileRect(win.area, tile)])

\* Each call that is refused ends it: a window that was restored to be moved stays
\* restored, and one that was moved once is where it came to be.
MoveToNextMonitor(win, areas, refused) ==
  LET to    == NextArea(areas, win.area)
      flat  == Flattened(win)
      rect  == RemapRect(flat.at, win.area, to)
      half  == SetWindowPos(flat, rect, to)
      moved == SetWindowPos(half, rect, to)
  IN  IF MonitorWorkArea(win, refused) = {} \/ Cardinality(areas) < 2 THEN Refuses(win)
      ELSE IF refused \in {"rect", "move"} THEN Refuses(flat)
      ELSE IF refused = "again" THEN Refuses(half)
      ELSE Did(IF Lifted(win).mode = "zoomed" THEN [moved EXCEPT !.mode = "zoomed"] ELSE moved)

Minimized(win) ==   \* SW_MINIMIZE
  [win EXCEPT !.mode = IF @ \in {"zoomed", "iconic_zoomed"} THEN "iconic_zoomed" ELSE "iconic"]
Act(win, areas, action, lock, refused) ==
  CASE action \in {"open", "switch"}       -> RaiseWindow(win, lock)
    [] action = "minimize"                 -> Did(Minimized(win))
    [] action = "close"                    -> IF refused = "post" THEN Refuses(win) ELSE Did(win)
    [] action \in {"topmost", "untopmost"} -> IF refused = "order" THEN Refuses(win) ELSE Did(win)
    [] action = "next_monitor"             -> MoveToNextMonitor(win, areas, refused)
    [] action \in DOMAIN Tile              -> Place(win, Tile[action], refused)
    [] OTHER                               -> Refuses(win)

\* actions.ts, WINDOW_ACTIONS: what the panel offers.
Offered == {"open", "next_monitor", "topmost", "untopmost", "minimize", "close"} \cup DOMAIN Tile

-----------------------------------------------------------------------------
(* placement.rs.                                                           *)


Scale(v, dpi) == (v * (IF dpi = 0 THEN 96 ELSE dpi)) \div 96
ComputeFromHeight(work, dpi, logical) ==
  LET w == AtLeastOne(WidthOf(work))
      y == work[2] + AtLeastOne(HeightOf(work)) \div 5
      width  == Min({Scale(LogicalWidth, dpi), (w * 9) \div 10})
      height == Min({Scale(logical, dpi), AtLeastOne(work[4] - y)})
  IN  <<work[1] + (w - width) \div 2, y, AtLeastOne(width), AtLeastOne(height)>>

\* compute_placement_of_height and compute_placement_for_window: the display of the
\* cursor when summoned, the window's own when it grows. A DPI that cannot be read
\* is 96, a display that cannot be read gives no placement.
LauncherArea(summoned, cursor, own) == IF summoned THEN cursor ELSE own
OnMonitor(area, readable, reads, logical) ==
  IF ~readable THEN <<>>
  ELSE ComputeFromHeight(area, IF reads THEN Dpi[area] ELSE 96, logical)
PlaceLauncher(summoned, cursor, own, readable, reads, logical) ==
  OnMonitor(LauncherArea(summoned, cursor, own), readable, reads, logical)

-----------------------------------------------------------------------------
(* Properties.                                                             *)

\* A program with a dialog open is one row, and a visible window whose program
\* shows nothing over it is never missing from the list.
OneRowPerOwner ==
  \A d \in Desktops :
    /\ \A v, w \in Listed(d) : d.owner[v] = d.owner[w] => v = w
    /\ \A w \in Handles : /\ d.visible[w] /\ d.plain[w] /\ d.owner[w] = w
                          /\ ~d.visible[d.popup[w]] \/ d.popup[w] = w
                          => w \in Listed(d)

Inside(at, a) == at[1] >= a[1] /\ at[2] >= a[2] /\ at[1] + at[3] <= a[3] /\ at[2] + at[4] <= a[4]
WithPixel(a) == <<a[1], a[2], a[3] + 1, a[4] + 1>>

\* A tile stays on its work area, within the pixel that halving an odd extent
\* rounds up; the tiles of a row meet without a gap.
TilesMeet ==
  \A a \in Areas :
    LET R(name) == TileRect(a, Tile[name])
        Right(name) == R(name)[1] + R(name)[3]
    IN  /\ \A name \in DOMAIN Tile : Inside(R(name), WithPixel(a))
        /\ Right("left_half") = R("right_half")[1] /\ Right("top_left") = R("top_right")[1]
        /\ \A p \in {<<"left_third", "center_third">>, <<"center_third", "right_third">>,
                     <<"left_third", "right_two_thirds">>, <<"left_two_thirds", "right_third">>} :
             R(p[2])[1] - Right(p[1]) \in -1..1
        /\ Right("right_third") = a[3] /\ Right("right_two_thirds") = a[3]

\* A window moved to the next display is wholly on it, flush right if it was flush
\* right, maximised if it was (even if it was minimised since), never left iconic;
\* and as many moves as there are displays bring it home.
MovesArriveWhole ==
  \A areas \in {s \in SUBSET Areas : Len(SetToSeq(s)) >= 2} : \A from \in areas :
    \A name \in DOMAIN Tile, mode \in {"normal", "zoomed", "iconic", "iconic_zoomed"}, r \in BOOLEAN :
      LET win  == [mode |-> mode, at |-> TileRect(from, Tile[name]), area |-> from, rescales |-> r]
          Moved(w) == MoveToNextMonitor(w, areas, "none").win
          next == Moved(win)
          trip == FoldLeft(LAMBDA w, i : Moved(w), win,
                           [i \in 1..Len(SetToSeq(areas)) |-> i])
      IN  /\ next.area # from /\ Inside(next.at, next.area)
          /\ win.at[1] + win.at[3] >= from[3] /\ win.at[1] + win.at[3] = from[3]
               => next.area[3] - (next.at[1] + next.at[3]) \in 0..1
          /\ next.mode = (IF mode \in {"zoomed", "iconic_zoomed"} THEN "zoomed" ELSE "normal")
          /\ trip.area = from

\* The launcher lies within the work area, whatever it is asked to hold, and growing
\* or shrinking it does not move its top edge or its sides.
LauncherFits ==
  \A a \in Areas, dpi \in {0, 96, 144, 192} : \A h1, h2 \in Heights :
    LET p == ComputeFromHeight(a, dpi, h1)
        o == ComputeFromHeight(a, dpi, h2)
    IN  Inside(p, a) /\ p[1] = o[1] /\ p[2] = o[2] /\ p[3] = o[3] /\ (h1 <= h2 => p[4] <= o[4])

\* Growing for a view leaves the launcher on its display, wherever the mouse is.
LauncherStays ==
  \A own, cursor \in Areas, reads \in BOOLEAN, h \in Heights :
    LET grown == PlaceLauncher(FALSE, cursor, own, TRUE, reads, h)
    IN  Inside(grown, own) /\ Inside(PlaceLauncher(TRUE, cursor, own, TRUE, reads, h), cursor)

\* Raising a window never leaves it minimised, nor two programs' input queues joined,
\* however often Windows refuses.
RaisesAreWhole(win, areas) ==
  \A lock \in [first : BOOLEAN, second : BOOLEAN, joins : SUBSET {"foreground", "target"}] :
    LET end == Act(win, areas, "open", lock, "none")
        Count(what, t) == Len(SelectSeq(end.calls, LAMBDA c : c = <<what, t>>))
    IN  /\ end.win.mode = (IF win.mode \in {"zoomed", "iconic_zoomed"} THEN "zoomed" ELSE "normal")
        /\ \A t \in {"foreground", "target"} : Count("attach", t) = Count("detach", t)
        /\ end.ok <=> lock.first \/ lock.second

\* Every action offered for a window is one the shell carries out. One that Windows
\* refuses on the way reports so and has left the window as it was, wherever the
\* refusal came; only a move to the next display leaves it restored, though it may
\* have been maximised or minimised, where it was, or on the next display if it was
\* the second of the two moves that was refused.
ActionsAreWhole ==
  \A area \in Areas, areas \in SUBSET Areas, name \in DOMAIN Tile,
     mode \in {"normal", "zoomed", "iconic", "iconic_zoomed"}, rescales \in BOOLEAN :
    LET win  == [mode |-> mode, at |-> TileRect(area, Tile[name]), area |-> area, rescales |-> rescales]
        all  == areas \cup {area}
        lock == [first |-> TRUE, second |-> TRUE, joins |-> {}]
        Outcome(action, refused) == Act(win, all, action, lock, refused)
    IN  /\ RaisesAreWhole(win, all)
        /\ \A action \in Offered \ {"next_monitor"} : Outcome(action, "none").ok
        /\ Outcome("next_monitor", "none").ok <=> areas \ {area} # {}
        /\ \A action \in Offered, refused \in Calls :
             LET end == Outcome(action, refused)
             IN  \/ end.ok \/ end.win = win
                 \/ /\ action = "next_monitor" /\ end.win.mode = "normal"
                    /\ \/ end.win.area = area /\ end.win.at = win.at
                       \/ refused = "again" /\ end.win.area = NextArea(all, area)
=============================================================================
