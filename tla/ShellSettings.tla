---------------------------- MODULE ShellSettings ----------------------------
(***************************************************************************)
(* The shell's settings and what they govern: settings.rs (the store), the *)
(* hotkey part of lib.rs (rebind_hotkey, registrar_action, save_settings,  *)
(* startup), diagnostics.rs (consent), and the views that edit them, each  *)
(* from a copy of its own (Settings.tsx, Onboarding.tsx, Clipboard.tsx).   *)
(*                                                                         *)
(* Commands run one at a time on the shell's main thread, in the order the *)
(* page sent them; replies come back in that order. Other programs take    *)
(* and release chords at any time, also inside a rebind.                   *)
(***************************************************************************)
EXTENDS Naturals, Sequences

CONSTANTS
  Chords, Bad,     \* chords; those shortcut_of or rejection refuses
  Defaults,        \* Settings::default
  MaxEdits, MaxOpens, MaxFails, MaxTakes, MaxQueue  \* bounds

ASSUME SettingsAssumption ==
  /\ Bad \subseteq Chords /\ {MaxEdits, MaxOpens, MaxFails, MaxTakes, MaxQueue} \subseteq Nat
  /\ Defaults \in [chord : Chords, source : {"shell", "ykeys"}, crash : BOOLEAN, clip : BOOLEAN]
  /\ "none" \notin Chords

None == "none"
Closed == [open |-> FALSE, loaded |-> FALSE, settings |-> Defaults, err |-> FALSE]

VARIABLES
  mem, file,    \* the store's copy and settings.json: [chord, source, crash, clip]
  held,         \* the chord registered by this process, or None
  taken,        \* chords other programs hold
  conflict,     \* HotkeyState: a standing conflict is published
  captureOn,    \* CAPTURE_ON
  view,         \* the settings view: [open, loaded, settings: its copy, err: a banner is up]
  session,      \* which opening of the view that is; a reply to an earlier one changes nothing
  requests,     \* commands sent: [kind, next, key, session], kind in get, save, clip
  replies,      \* [settings, err, ok, session]
  chosen,       \* what the user chose last, key by key
  excused,      \* a save was built before another was answered, or was not written
  failed,       \* a write failed since the last one that did not
  edits, opens, fails, takes

store    == <<mem, file, failed>>
hotkey   == <<held, taken, conflict>>
page     == <<view, session, requests, replies>>
counters == <<edits, opens, fails, takes>>
vars     == <<store, hotkey, captureOn, page, chosen, excused, counters>>

-----------------------------------------------------------------------------
(* The registrar.                                                          *)

Binds(chord) == chord \notin Bad \cup taken

\* registrar_action, outcomes [ok, held, conflict, taken].
HandToYkeys == [ok |-> TRUE, held |-> None, conflict |-> FALSE, taken |-> taken]

\* rebind_hotkey from nothing, at startup and for TakeBack and Retry: a refusal
\* is published, and the save goes through.
Anew(chord) == [ok |-> TRUE, held |-> IF Binds(chord) THEN chord ELSE None,
                conflict |-> ~Binds(chord), taken |-> taken]

\* Replace: a chord of ours is released for the attempt and put back when the
\* new one is refused, unless somebody took it meanwhile.
RefusedSilently(next) ==   \* mutant: a chord lost in the attempt is not reported
  {[ok |-> FALSE, held |-> held, conflict |-> conflict, taken |-> taken]}
  \cup {[ok |-> FALSE, held |-> None, conflict |-> conflict, taken |-> taken \cup {held}] :
          lost \in {c \in {held} : c # None /\ next \notin Bad}}
Refused(next) ==
  {[ok |-> FALSE, held |-> held, conflict |-> conflict, taken |-> taken]}
  \cup {[ok |-> FALSE, held |-> None, conflict |-> TRUE, taken |-> taken \cup {lost}] :
          lost \in {c \in {held} : c # None /\ next \notin Bad}}
Replace(next) ==
  IF Binds(next) THEN {[ok |-> TRUE, held |-> next, conflict |-> FALSE, taken |-> taken]}
  ELSE Refused(next)

RegistrarAction(next) ==
  IF next.source = "ykeys" THEN {HandToYkeys}
  ELSE IF mem.source = "ykeys" THEN {Anew(next.chord)}
  ELSE IF next.chord # mem.chord THEN Replace(next.chord)
  ELSE IF conflict THEN {Anew(next.chord)}
  ELSE {[ok |-> TRUE, held |-> held, conflict |-> conflict, taken |-> taken]}

-----------------------------------------------------------------------------
(* Commands.                                                               *)

\* SettingsStore::save: memory first, then write and rename, which may fail.
Store(next) ==
  /\ mem' = next
  /\ \/ file' = next /\ failed' = FALSE /\ fails' = fails
     \/ fails < MaxFails /\ fails' = fails + 1 /\ failed' = TRUE /\ UNCHANGED file

Answer(r) == replies' = Append(replies, r)
Request(kind) ==
  /\ requests # <<>> /\ Head(requests).kind = kind /\ requests' = Tail(requests)
  /\ UNCHANGED <<view, session, edits, opens, takes>>

GetSettings ==
  /\ Request("get")
  /\ Answer([settings |-> mem, err |-> conflict, ok |-> TRUE, session |-> Head(requests).session])
  /\ UNCHANGED <<store, hotkey, captureOn, chosen, excused, fails>>

SetClipWhole ==   \* mutant: the page's copy is saved whole
  /\ Request("clip")
  /\ LET next == Head(requests).next
     IN  Store(next) /\ chosen' = [chosen EXCEPT !.clip = next.clip]
  /\ excused' = (excused \/ failed')
  /\ UNCHANGED <<hotkey, captureOn, replies>>
\* clipboard_set_enabled, and finish_onboarding likewise: read, change, save.
SetClip ==
  /\ Request("clip")
  /\ LET next == [mem EXCEPT !.clip = Head(requests).next.clip]
     IN  Store(next) /\ chosen' = [chosen EXCEPT !.clip = next.clip]
  /\ excused' = (excused \/ failed')
  /\ UNCHANGED <<hotkey, captureOn, replies>>

\* set_crash_capture, when the consent changed; arming may fail.
ConsentArms(next) == captureOn' \in {captureOn, next.crash \/ captureOn}   \* mutant: never disarmed
Consent(next) ==
  IF next.crash = mem.crash THEN captureOn' = captureOn ELSE captureOn' \in {FALSE, next.crash}

\* save_settings: a refused Replace returns before anything else changes.
Save ==
  /\ Request("save")
  /\ LET r == Head(requests)
         key == r.key
     IN \E o \in RegistrarAction(r.next) :
          /\ held' = o.held /\ conflict' = o.conflict /\ taken' = o.taken
          /\ IF o.ok
             THEN /\ Consent(r.next) /\ Store(r.next)
                  /\ chosen' = [chosen EXCEPT ![key] = r.next[key]]
                  /\ excused' = (excused \/ failed')
                  /\ Answer([settings |-> r.next, err |-> o.conflict, ok |-> ~failed', session |-> r.session])
             ELSE /\ UNCHANGED <<store, captureOn, chosen, excused, fails>>
                  /\ Answer([settings |-> mem, err |-> o.conflict, ok |-> FALSE, session |-> r.session])

-----------------------------------------------------------------------------
(* The page.                                                               *)

Send(r) == Len(requests) < MaxQueue /\ requests' = Append(requests, r)
ShellAside == UNCHANGED <<store, hotkey, captureOn, chosen, fails, takes>>

\* Settings or the onboarding wizard opens, from scratch every time.
OpenSettings ==
  /\ ~view.open /\ opens < MaxOpens /\ opens' = opens + 1
  /\ session' = session + 1
  /\ Send([kind |-> "get", next |-> mem, key |-> "clip", session |-> session + 1])
  /\ view' = [Closed EXCEPT !.open = TRUE]
  /\ ShellAside /\ UNCHANGED <<replies, excused, edits>>

\* apply: the whole settings, from the view's copy. The chord cannot be edited
\* while YKeys holds it.
Edits(copy) ==
  {<<"source", [copy EXCEPT !.source = IF @ = "shell" THEN "ykeys" ELSE "shell"]>>,
   <<"crash", [copy EXCEPT !.crash = ~@]>>}
  \cup {<<"chord", [copy EXCEPT !.chord = c]>> : c \in IF copy.source = "shell" THEN Chords ELSE {}}
Apply ==
  /\ view.loaded /\ edits < MaxEdits /\ edits' = edits + 1
  /\ \E e \in Edits(view.settings) :
       Send([kind |-> "save", next |-> e[2], key |-> e[1], session |-> session])
  /\ excused' = (excused \/ requests # <<>> \/ replies # <<>>)
  /\ view' = [view EXCEPT !.err = FALSE]
  /\ ShellAside /\ UNCHANGED <<session, replies, opens>>

\* A reply replaces the copy; a refusal only raises the banner.
TakeReply ==
  /\ replies # <<>> /\ replies' = Tail(replies)
  /\ LET r == Head(replies)
     IN  view' = IF r.session # session THEN view
                 ELSE IF r.ok THEN [open |-> TRUE, loaded |-> TRUE, settings |-> r.settings, err |-> r.err]
                 ELSE [view EXCEPT !.err = TRUE]
  /\ ShellAside /\ UNCHANGED <<session, requests, excused, edits, opens>>

CloseSettings ==
  /\ view.open
  /\ view' = Closed /\ session' = session + 1
  /\ ShellAside /\ UNCHANGED <<requests, replies, excused, edits, opens>>

\* The clipboard view's switch; views replace each other.
ToggleClip ==
  /\ ~view.open /\ edits < MaxEdits /\ edits' = edits + 1
  /\ \E on \in BOOLEAN :
       Send([kind |-> "clip", next |-> [mem EXCEPT !.clip = on], key |-> "clip", session |-> session])
  /\ ShellAside /\ UNCHANGED <<view, session, replies, excused, opens>>

-----------------------------------------------------------------------------
(* Everybody else.                                                         *)

OthersTake ==
  /\ takes < MaxTakes /\ takes' = takes + 1
  /\ \E c \in Chords \ {held} : taken' = taken \cup {c}
  /\ UNCHANGED <<store, held, conflict, captureOn, page, chosen, excused, edits, opens, fails>>
OthersRelease ==
  /\ \E c \in taken : taken' = taken \ {c}
  /\ UNCHANGED <<store, held, conflict, captureOn, page, chosen, excused, counters>>

\* A start: consent and the chord follow the file.
Start(s) ==
  /\ captureOn' \in {FALSE, s.crash}
  /\ LET o == IF s.source = "shell" THEN Anew(s.chord) ELSE HandToYkeys
     IN  held' = o.held /\ conflict' = o.conflict /\ taken' = o.taken

\* The process ends and is started again, whatever was in flight.
Restart ==
  /\ opens < MaxOpens /\ opens' = opens + 1
  /\ mem' = file /\ chosen' = file /\ failed' = FALSE /\ excused' = FALSE
  /\ view' = Closed /\ requests' = <<>> /\ replies' = <<>> /\ session' = session + 1
  /\ Start(file)
  /\ UNCHANGED <<file, edits, fails, takes>>

\* A first start, without a file.
Init ==
  /\ mem = Defaults /\ file = Defaults /\ chosen = Defaults /\ failed = FALSE /\ excused = FALSE
  /\ taken \in SUBSET Chords
  /\ held = IF Defaults.source = "shell" /\ Binds(Defaults.chord) THEN Defaults.chord ELSE None
  /\ conflict = (Defaults.source = "shell" /\ ~Binds(Defaults.chord))
  /\ captureOn = Defaults.crash
  /\ view = Closed /\ session = 0 /\ requests = <<>> /\ replies = <<>>
  /\ edits = 0 /\ opens = 0 /\ fails = 0 /\ takes = 0

Next ==
  \/ GetSettings \/ SetClip \/ Save
  \/ OpenSettings \/ Apply \/ TakeReply \/ CloseSettings \/ ToggleClip
  \/ OthersTake \/ OthersRelease \/ Restart
Spec == Init /\ [][Next]_vars

-----------------------------------------------------------------------------
\* SPEC 5.1, no silent degradation: while the shell owns the chord, a conflict is
\* published exactly as long as that chord is not held; under YKeys nothing is
\* held and nothing reported. One chord at most, and not somebody else's.
HotkeyHonest ==
  /\ mem.source = "shell" => held \in {mem.chord, None} /\ conflict = (held = None)
  /\ mem.source = "ykeys" => held = None /\ ~conflict
  /\ held \notin taken

\* "The file can never name a chord the running shell does not hold", short of
\* a published conflict or a file that could not be written.
FileHonest == file.source = "shell" => held = file.chord \/ conflict \/ failed

\* A save changes what the user changed and nothing else, although every view
\* saves a whole copy: pausing the clipboard is not undone by a later save.
LastChoiceWins == excused \/ mem = chosen

\* No dump is written without consent: capture is never on against the setting.
ConsentHolds == captureOn => mem.crash

\* With nothing in flight an open view shows the settings in force, and its
\* banner is up while the chord it names is not held.
ViewHonest ==
  requests = <<>> /\ replies = <<>> /\ view.loaded /\ ~excused
    => view.settings = mem /\ (conflict => view.err)

\* What the user chose is in the file, in force and on the page.
ChoicesAreKept == FileHonest /\ LastChoiceWins /\ ViewHonest
=============================================================================
