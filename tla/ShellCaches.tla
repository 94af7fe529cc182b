----------------------------- MODULE ShellCaches -----------------------------
(***************************************************************************)
(* What the shell remembers of the machine between keystrokes: the app     *)
(* catalogue, enumerated on a thread of its own (apps.rs), the window list *)
(* (winman.rs), and what settings pages this machine can open              *)
(* (settings_catalog.rs). The first two are given as the state a sequence  *)
(* of events leaves: the threads take their turns event by event, and the  *)
(* clock ticks between them.                                               *)
(***************************************************************************)
EXTENDS Naturals, Sequences
LOCAL INSTANCE SequencesExt
LOCAL INSTANCE FiniteSetsExt

CONSTANTS
  StaleAfter,   \* STALE_AFTER, in ticks
  CacheTtl,     \* CACHE_TTL
  MaxEvents     \* length of the sequences checked

ASSUME CachesAssumption == {StaleAfter, CacheTtl, MaxEvents} \subseteq Nat \ {0}

Never == 1000    \* None
Since(now, at) == IF at = Never THEN Never ELSE now - at

-----------------------------------------------------------------------------
(* AppCatalog. machine: how often what is installed has changed; entries:   *)
(* the change the snapshot shows; reading: the changes the enumeration      *)
(* running now may still show, {} while none runs.                          *)

IsStale(s) == Since(s.now, s.enumeratedAt) > StaleAfter

\* refresh_async: one at a time; the thread may fail to spawn.
RefreshTwice(s, spawns) ==   \* mutant: the flag is not looked at
  IF ~spawns THEN s ELSE [s EXCEPT !.refreshing = TRUE, !.workers = @ + 1, !.reading = {s.machine}]
RefreshAsync(s, spawns) ==
  IF s.refreshing \/ ~spawns THEN s
  ELSE [s EXCEPT !.refreshing = TRUE, !.workers = @ + 1, !.reading = {s.machine}]

\* enumerate and describe: an item without a name or an id is left out, and one
\* that cannot be described; a batch that cannot be fetched loses the whole.
Described(item) == item.name /\ item.aumid
EnumerateApps(items, fetches) == IF fetches THEN SelectSeq(items, Described) ELSE <<>>

\* The worker's end: a failed enumeration leaves the snapshot and its age.
RefreshEnds(s, ok) ==
  LET done == [s EXCEPT !.refreshing = FALSE, !.workers = @ - 1, !.reading = {}]
  IN  IF s.workers = 0 THEN s
      ELSE IF ok THEN [done EXCEPT !.entries = Min(s.reading), !.enumeratedAt = s.now]
      ELSE done

-----------------------------------------------------------------------------
(* WindowCache, of a desktop that changes as the machine does.              *)

Snapshot(s) ==
  IF Since(s.now, s.listedAt) > CacheTtl
  THEN [s EXCEPT !.windows = s.machine, !.listedAt = s.now] ELSE s
Invalidate(s) == [s EXCEPT !.listedAt = Never]

\* show, of both caches.
ShowCaches(s, spawns) ==
  Invalidate(IF IsStale(s) THEN RefreshAsync(s, spawns) ELSE s)

\* A change is seen by an enumeration that has not come to it yet.
Changes(s) == [s EXCEPT !.machine = @ + 1, !.changed = Append(@, s.now),
                        !.reading = IF @ = {} THEN {} ELSE @ \cup {s.machine + 1}]

After(s, event) ==
  CASE event = "tick"    -> [s EXCEPT !.now = @ + 1]
    [] event = "change"  -> Changes(s)
    [] event = "show"    -> ShowCaches(s, TRUE)
    [] event = "nothread" -> ShowCaches(s, FALSE)
    [] event = "period"  -> RefreshAsync(s, TRUE)
    [] event = "ends"    -> RefreshEnds(s, TRUE)
    [] event = "fails"   -> RefreshEnds(s, FALSE)
    [] event = "query"   -> Snapshot(s)

\* setup starts with empty lists and an enumeration on its way.
Started == RefreshAsync([now |-> 0, machine |-> 1, changed |-> <<0>>, entries |-> 0, enumeratedAt |-> Never,
                         refreshing |-> FALSE, workers |-> 0, reading |-> {},
                         windows |-> 0, listedAt |-> Never], TRUE)

-----------------------------------------------------------------------------
(* SettingsCatalog::load and probe_capabilities. A gate: [build, requires]. *)

\* GetSystemPowerStatus: 128 is no battery, 255 is unknown.
HasBattery(power) == power.reads /\ power.flag \notin {128, 255}
ProbeCapabilities(build, power) ==
  [build |-> build, has |-> {"cellular", "bluetooth", "pen", "touchpad"}
                            \cup IF HasBattery(power) THEN {"battery"} ELSE {}]
Allows(caps, gate) == caps.build >= gate.build /\ gate.requires \subseteq caps.has
\* The file beside the program if it can be read and parsed, else the built-in copy.
CatalogFile(disk, embedded) == IF disk.parses THEN disk.entries ELSE embedded
LoadSettings(disk, embedded, caps) == SelectSeq(CatalogFile(disk, embedded), LAMBDA e : Allows(caps, e.gate))

\* apps::match_query leaves out the apps a built-in stands for, by AUMID.
Unsuppressed(entries, suppressed) == SelectSeq(entries, LAMBDA a : a.aumid \notin suppressed)

-----------------------------------------------------------------------------
(* Properties.                                                             *)

Events == {"tick", "change", "show", "nothread", "period", "ends", "fails", "query"}
Histories == UNION {[1..n -> Events] : n \in 0..MaxEvents}
Reached(h) == FoldLeft(After, Started, h)

\* The last change the machine had made by a moment.
AsOf(s, t) == Max({i \in DOMAIN s.changed : s.changed[i] <= t})

\* One enumeration runs at a time and the flag says so; a summons with an old
\* catalogue leaves one running, if a thread can be had; a failure keeps the list;
\* and no window row is older than the list may be, or than the last summons.
CachesFollow ==
  \A h \in Histories :
    LET s == Reached(h)
        shown == Max({0} \cup {i \in DOMAIN h : h[i] \in {"show", "nothread"}})
        asked == After(s, "query")
    IN  /\ s.workers \in 0..1 /\ s.refreshing = (s.workers = 1)
        /\ LET n == ShowCaches(s, TRUE) IN ~IsStale(n) \/ n.refreshing
        /\ After(s, "fails").entries = s.entries
        /\ After(s, "ends").entries >= s.entries
        /\ asked.windows >= IF s.now > CacheTtl THEN AsOf(s, s.now - CacheTtl - 1) ELSE 1
        /\ shown # 0 => asked.windows >= Reached(SubSeq(h, 1, shown)).machine

Gate(b, r) == [build |-> b, requires |-> r]
Gates == {Gate(0, {}), Gate(2, {}), Gate(0, {"battery"}), Gate(2, {"pen"}), Gate(0, {"newer"})}
Items == [name : BOOLEAN, aumid : BOOLEAN]

\* A settings page is offered exactly where it can be opened: a requirement this
\* shell does not know hides its page, and a catalogue that cannot be read costs no
\* page of the built-in one. An app that cannot be described costs itself only.
CataloguesFailSoft ==
  /\ \A disk \in [parses : BOOLEAN, entries : [1..2 -> [gate : Gates]]],
        embedded \in [1..1 -> [gate : Gates]], build \in {0, 2}, power \in [reads : BOOLEAN, flag : {1, 128, 255}] :
       LET caps   == ProbeCapabilities(build, power)
           loaded == LoadSettings(disk, embedded, caps)
       IN  /\ \A i \in DOMAIN loaded : "newer" \notin loaded[i].gate.requires
                                       /\ ("battery" \in loaded[i].gate.requires => power = [reads |-> TRUE, flag |-> 1])
           /\ ~disk.parses => loaded = LoadSettings([disk EXCEPT !.entries = embedded], embedded, caps)
           /\ \A i \in DOMAIN disk.entries :
                disk.parses /\ disk.entries[i].gate = Gate(0, {}) => disk.entries[i] \in ToSet(loaded)
  /\ \A n \in 0..3 : \A items \in [1..n -> Items] :
       Len(EnumerateApps(items, TRUE)) = Len(items) - Len(SelectSeq(items, LAMBDA i : ~i.name \/ ~i.aumid))
  \* an app that shares a built-in's name, and not its id, keeps its row
  /\ \A apps \in [1..2 -> [aumid : {"settings", "theirs"}, name : {"Settings"}]] : \A i \in 1..2 :
       apps[i] \in ToSet(Unsuppressed(apps, {"settings"})) <=> apps[i].aumid = "theirs"
=============================================================================
