------------------------ MODULE ShellSettingsProofs --------------------------
(***************************************************************************)
(* Why the settings hold what the user chose, and the hotkey and the crash *)
(* capture what the settings say, for any chords, any other programs and   *)
(* any number of commands in flight; why the tray's menu says what is, for *)
(* any number of connections and requests on their way; and why the file   *)
(* search of the shell's own answers what it read, for any rowset.         *)
(*                                                                         *)
(* The argument is about what is between the page and the store. A view    *)
(* that has not loaded waits for its own get, the last command sent; one   *)
(* that has loaded, and has not saved over an answer still out (excused),  *)
(* has at most one save in flight, built from the settings in force. The   *)
(* tray's label is what the service will have been told when everything on *)
(* its way has arrived. What the search has so far is what has a path      *)
(* among the rows it has read.                                             *)
(***************************************************************************)
EXTENDS ShellSettings, Tray, WindowsSearch, SequenceTheorems, TLAPS

Setting == [chord : Chords, source : {"shell", "ykeys"}, crash : BOOLEAN, clip : BOOLEAN]
Key == {"chord", "source", "crash", "clip"}
Command == [kind : {"get", "save", "clip"}, next : Setting, key : Key, session : Nat]
Reply == [settings : Setting, err : BOOLEAN, ok : BOOLEAN, session : Nat]
Copy == [open : BOOLEAN, loaded : BOOLEAN, settings : Setting, err : BOOLEAN]

ShellTyped ==
  /\ mem \in Setting /\ file \in Setting /\ chosen \in Setting
  /\ failed \in BOOLEAN /\ excused \in BOOLEAN /\ captureOn \in BOOLEAN
  /\ held \in Chords \cup {None} /\ taken \in SUBSET Chords /\ conflict \in BOOLEAN
PageTyped ==
  /\ view \in Copy /\ session \in Nat
  /\ requests \in Seq(Command) /\ replies \in Seq(Reply)

\* What a failed write leaves behind is the only way the file lags.
FileFollows == failed \/ file = mem

\* Unless excused, a save waits at the head and changes one key of what is in force.
SavesAreOne ==
  ~excused => \A i \in 1..Len(requests) : requests[i].kind = "save" =>
    i = 1 /\ requests[i].next = [mem EXCEPT ![requests[i].key] = requests[i].next[requests[i].key]]

\* No command and no reply is of an opening still to come.
SessionsPast ==
  /\ \A i \in 1..Len(requests) : requests[i].session <= session
  /\ \A i \in 1..Len(replies) : replies[i].session <= session

Before(seq, n) == \A i \in 1..n : seq[i].session < session

\* A view that waits to be loaded: its get is the last thing sent, or answered.
Waits ==
  \/ /\ requests # <<>> /\ requests[Len(requests)].kind = "get"
     /\ requests[Len(requests)].session = session
     /\ Before(requests, Len(requests) - 1) /\ Before(replies, Len(replies))
  \/ /\ requests = <<>> /\ replies # <<>>
     /\ replies[Len(replies)] = [settings |-> mem, err |-> conflict, ok |-> TRUE, session |-> session]
     /\ Before(replies, Len(replies) - 1)

\* A loaded view: at rest, with one save sent, or with its answer under way.
AtRest == requests = <<>> /\ replies = <<>> /\ view.settings = mem /\ (conflict => view.err)
Sent == replies = <<>> /\ Len(requests) = 1 /\ requests[1].kind = "save"
        /\ requests[1].session = session /\ view.settings = mem
Answered ==
  /\ requests = <<>> /\ Len(replies) = 1 /\ replies[1].session = session
  /\ IF replies[1].ok THEN replies[1].settings = mem /\ (conflict => replies[1].err)
     ELSE view.settings = mem

ViewFollows ==
  /\ view.loaded => view.open
  /\ view.open /\ ~view.loaded => Waits
  /\ view.loaded /\ ~excused => AtRest \/ Sent \/ Answered

\* Nothing that will be answered, and no answer, is of a view that is closed.
ClosedIsQuiet ==
  ~view.open =>
    /\ \A i \in 1..Len(requests) : requests[i].kind = "clip" \/ requests[i].session < session
    /\ \A i \in 1..Len(replies) : replies[i].session < session

SettingsInv ==
  /\ ShellTyped /\ PageTyped
  /\ HotkeyHonest /\ ConsentHolds /\ FileFollows /\ LastChoiceWins
  /\ SavesAreOne /\ SessionsPast /\ ViewFollows /\ ClosedIsQuiet

-----------------------------------------------------------------------------
(* Queues.                                                                 *)

LEMMA TailFacts ==
  ASSUME NEW S, NEW s \in Seq(S), s # <<>>
  PROVE  /\ Head(s) = s[1] /\ s[1] \in S
         /\ Tail(s) \in Seq(S) /\ Len(Tail(s)) = Len(s) - 1 /\ Len(s) \in Nat \ {0}
         /\ \A i \in 1..Len(Tail(s)) : Tail(s)[i] = s[i + 1]
         /\ Len(s) = 1 <=> Tail(s) = <<>>
<1>1. Len(s) \in Nat \ {0} /\ s[1] \in S /\ Head(s) = s[1]
  OBVIOUS
<1>2. Tail(s) \in Seq(S) /\ Len(Tail(s)) = Len(s) - 1
  BY <1>1
<1>3. \A i \in 1..Len(Tail(s)) : Tail(s)[i] = s[i + 1]
  BY <1>1, <1>2
<1>4. Len(Tail(s)) = 0 <=> Tail(s) = <<>>
  BY <1>2, EmptySeq
<1> QED
  BY <1>1, <1>2, <1>3, <1>4

LEMMA AppendFacts ==
  ASSUME NEW S, NEW s \in Seq(S), NEW e \in S
  PROVE  /\ Append(s, e) \in Seq(S) /\ Len(Append(s, e)) = Len(s) + 1 /\ Append(s, e) # <<>>
         /\ Append(s, e)[Len(s) + 1] = e
         /\ \A i \in 1..Len(s) : Append(s, e)[i] = s[i]
OBVIOUS

-----------------------------------------------------------------------------
(* The registrar.                                                          *)

Honest(s, h, c, t) ==
  /\ s.source = "shell" => h \in {s.chord, None} /\ (c <=> h = None)
  /\ s.source = "ykeys" => h = None /\ ~c
  /\ h \notin t

OutcomeTyped(o) ==
  /\ o.ok \in BOOLEAN /\ o.held \in Chords \cup {None}
  /\ o.conflict \in BOOLEAN /\ o.taken \in SUBSET Chords

HonestOutcome(o, next) ==
  /\ OutcomeTyped(o)
  /\ o.ok => Honest(next, o.held, o.conflict, o.taken)
  /\ ~o.ok => Honest(mem, o.held, o.conflict, o.taken)

LEMMA AnewFacts ==
  ASSUME ShellTyped, NEW c \in Chords
  PROVE  /\ OutcomeTyped(Anew(c)) /\ Anew(c).ok /\ Anew(c).held \in {c, None}
         /\ Anew(c).conflict <=> Anew(c).held = None
         /\ Anew(c).held \notin Anew(c).taken
<1>1. /\ Anew(c).ok = TRUE /\ Anew(c).held = (IF Binds(c) THEN c ELSE None)
      /\ Anew(c).conflict = ~Binds(c) /\ Anew(c).taken = taken
  BY DEF Anew
<1>2. None \notin Chords
  BY SettingsAssumption DEF None
<1>3. Binds(c) => c \notin taken
  BY DEF Binds
<1>4. taken \in SUBSET Chords
  BY DEF ShellTyped
<1>5. CASE Binds(c)
  BY <1>1, <1>2, <1>3, <1>4, <1>5 DEF OutcomeTyped
<1>6. CASE ~Binds(c)
  BY <1>1, <1>2, <1>4, <1>6 DEF OutcomeTyped
<1> QED
  BY <1>5, <1>6

\* Whatever it is asked, the registrar leaves a state that is honest about the
\* settings it accepted, and about the present ones when it refused.
LEMMA RegistrarIsHonest ==
  ASSUME ShellTyped, HotkeyHonest, NEW next \in Setting, NEW o \in RegistrarAction(next)
  PROVE  HonestOutcome(o, next)
<1>1. /\ next.chord \in Chords /\ next.source \in {"shell", "ykeys"}
      /\ mem.chord \in Chords /\ mem.source \in {"shell", "ykeys"}
      /\ None \notin Chords
  BY SettingsAssumption DEF ShellTyped, Setting, None
<1>2. Honest(mem, held, conflict, taken)
  BY DEF HotkeyHonest, Honest, ShellTyped
<1>3. ASSUME o = [ok |-> o.ok, held |-> held, conflict |-> conflict, taken |-> taken],
             o.ok \in BOOLEAN,
             ~o.ok \/ Honest(next, held, conflict, taken)
      PROVE  HonestOutcome(o, next)
  <2>1. o.held = held /\ o.conflict = conflict /\ o.taken = taken
    BY <1>3
  <2> QED
    BY <1>2, <1>3, <2>1 DEF HonestOutcome, OutcomeTyped, ShellTyped
<1>4. CASE next.source = "ykeys"
  <2>1. o.ok = TRUE /\ o.held = None /\ o.conflict = FALSE /\ o.taken = taken
    BY <1>4 DEF RegistrarAction, HandToYkeys
  <2>2. taken \in SUBSET Chords
    BY DEF ShellTyped
  <2> QED
    BY <1>1, <1>4, <2>1, <2>2 DEF HonestOutcome, OutcomeTyped, Honest
<1>5. ASSUME next.source = "shell", o = Anew(next.chord)
      PROVE  HonestOutcome(o, next)
  BY <1>1, <1>5, AnewFacts DEF HonestOutcome, Honest
<1>6. CASE next.source = "shell" /\ mem.source = "ykeys"
  BY <1>5, <1>6 DEF RegistrarAction
<1>7. CASE next.source = "shell" /\ mem.source = "shell" /\ next.chord # mem.chord
  <2>1. o \in Replace(next.chord)
    BY <1>7 DEF RegistrarAction
  <2>2. CASE Binds(next.chord)
    <3>1. o.ok = TRUE /\ o.held = next.chord /\ o.conflict = FALSE /\ o.taken = taken
      BY <2>1, <2>2 DEF Replace
    <3>2. next.chord \notin taken /\ taken \in SUBSET Chords
      BY <2>2 DEF Binds, ShellTyped
    <3> QED
      BY <1>1, <1>7, <3>1, <3>2 DEF HonestOutcome, OutcomeTyped, Honest
  <2>3. CASE ~Binds(next.chord)
    <3>1. o \in Refused(next.chord)
      BY <2>1, <2>3 DEF Replace
    <3>2. CASE o = [ok |-> FALSE, held |-> held, conflict |-> conflict, taken |-> taken]
      <4>1. o.ok = FALSE
        BY <3>2
      <4> QED
        BY <1>3, <3>2, <4>1
    <3>3. ASSUME NEW lost \in {c \in {held} : c # None /\ next.chord \notin Bad},
                 o = [ok |-> FALSE, held |-> None, conflict |-> TRUE, taken |-> taken \cup {lost}]
          PROVE  HonestOutcome(o, next)
      <4>1. o.ok = FALSE /\ o.held = None /\ o.conflict = TRUE /\ o.taken = taken \cup {lost}
        BY <3>3
      <4>2. lost \in Chords /\ taken \in SUBSET Chords
        BY <3>3 DEF ShellTyped
      <4> QED
        BY <1>1, <1>7, <4>1, <4>2 DEF HonestOutcome, OutcomeTyped, Honest
    <3> QED
      BY <3>1, <3>2, <3>3 DEF Refused
  <2> QED
    BY <2>2, <2>3
<1>8. CASE next.source = "shell" /\ mem.source = "shell" /\ next.chord = mem.chord
  <2>1. CASE conflict
    BY <1>5, <1>8, <2>1 DEF RegistrarAction
  <2>2. CASE ~conflict
    <3>1. o = [ok |-> TRUE, held |-> held, conflict |-> conflict, taken |-> taken]
      BY <1>8, <2>2 DEF RegistrarAction
    <3>2. o.ok = TRUE
      BY <3>1
    <3>3. Honest(next, held, conflict, taken)
      BY <1>2, <1>8 DEF Honest
    <3> QED
      BY <1>3, <3>1, <3>2, <3>3
  <2> QED
    BY <2>1, <2>2
<1> QED
  BY <1>1, <1>4, <1>6, <1>7, <1>8

-----------------------------------------------------------------------------
(* Commands.                                                               *)

LEMMA OneKeyTyped ==
  ASSUME NEW s \in Setting, NEW next \in Setting, NEW key \in Key
  PROVE  [s EXCEPT ![key] = next[key]] \in Setting
<1>1. CASE key = "chord"
  BY <1>1 DEF Setting
<1>2. CASE key = "source"
  BY <1>2 DEF Setting
<1>3. CASE key = "crash"
  BY <1>3 DEF Setting
<1>4. CASE key = "clip"
  BY <1>4 DEF Setting
<1> QED
  BY <1>1, <1>2, <1>3, <1>4 DEF Key

\* A command served leaves the page alone and, unless excused, no save behind it.
LEMMA Served ==
  ASSUME PageTyped, SavesAreOne, SessionsPast,
         requests # <<>>, requests' = Tail(requests), UNCHANGED <<view, session>>
  PROVE  /\ Head(requests) = requests[1] /\ requests[1] \in Command
         /\ view' \in Copy /\ session' \in Nat /\ requests' \in Seq(Command)
         /\ \A i \in 1..Len(requests') : requests'[i].session <= session'
         /\ ~excused => \A i \in 1..Len(requests') : requests'[i].kind # "save"
         /\ Len(requests') = Len(requests) - 1 /\ Len(requests) \in Nat \ {0}
         /\ \A i \in 1..Len(requests') : requests'[i] = requests[i + 1]
         /\ Len(requests) = 1 <=> requests' = <<>>
<1>1. /\ Head(requests) = requests[1] /\ requests[1] \in Command
      /\ requests' \in Seq(Command)
      /\ Len(requests') = Len(requests) - 1 /\ Len(requests) \in Nat \ {0}
      /\ \A i \in 1..Len(requests') : requests'[i] = requests[i + 1]
      /\ Len(requests) = 1 <=> requests' = <<>>
  BY TailFacts DEF PageTyped
<1>2. \A i \in 1..Len(requests') : i + 1 \in 1..Len(requests) /\ i + 1 # 1
  BY <1>1
<1>3. \A i \in 1..Len(requests') : requests'[i].session <= session'
  BY <1>1, <1>2 DEF SessionsPast
<1>4. ~excused => \A i \in 1..Len(requests') : requests'[i].kind # "save"
  BY <1>1, <1>2 DEF SavesAreOne
<1> QED
  BY <1>1, <1>3, <1>4 DEF PageTyped

\* A reply put behind the others.
LEMMA Replied ==
  ASSUME PageTyped, SessionsPast, NEW a \in Reply, a.session <= session,
         replies' = Append(replies, a), UNCHANGED session
  PROVE  /\ replies' \in Seq(Reply)
         /\ \A i \in 1..Len(replies') : replies'[i].session <= session'
         /\ replies' # <<>> /\ Len(replies') = Len(replies) + 1 /\ Len(replies) \in Nat
         /\ replies'[Len(replies')] = a
         /\ \A i \in 1..Len(replies) : replies'[i] = replies[i]
<1>1. /\ replies' \in Seq(Reply) /\ Len(replies') = Len(replies) + 1 /\ replies' # <<>>
      /\ replies'[Len(replies) + 1] = a /\ Len(replies) \in Nat
      /\ \A i \in 1..Len(replies) : replies'[i] = replies[i]
  BY AppendFacts DEF PageTyped
<1>2. ASSUME NEW i \in 1..Len(replies') PROVE replies'[i].session <= session'
  <2>1. i \in 1..Len(replies) \/ i = Len(replies) + 1
    BY <1>1
  <2> QED
    BY <1>1, <2>1 DEF SessionsPast
<1> QED
  BY <1>1, <1>2

\* A view that waits goes on waiting while an earlier command is served, with or
\* without a reply.
LEMMA StillWaits ==
  ASSUME PageTyped, SavesAreOne, SessionsPast, Waits, Len(requests) > 1,
         requests # <<>>, requests' = Tail(requests), UNCHANGED <<view, session>>,
         \/ UNCHANGED replies
         \/ \E a \in Reply : a.session = requests[1].session /\ replies' = Append(replies, a)
  PROVE  Waits'
<1>1. /\ requests[Len(requests)].kind = "get" /\ requests[Len(requests)].session = session
      /\ Before(requests, Len(requests) - 1) /\ Before(replies, Len(replies))
  BY DEF Waits
<1>2. /\ Len(requests') = Len(requests) - 1 /\ Len(requests) \in Nat \ {0}
      /\ \A i \in 1..Len(requests') : requests'[i] = requests[i + 1]
      /\ requests' # <<>> /\ session \in Nat
      /\ \A i \in 1..Len(requests) : requests[i].session \in Nat
  <2>1. \A i \in 1..Len(requests) : requests[i] \in Command
    BY DEF PageTyped
  <2> QED
    BY <2>1, Served DEF PageTyped, Command
<1>3. requests'[Len(requests')] = requests[Len(requests)]
  BY <1>2
<1>4. \A i \in 1..(Len(requests') - 1) : requests'[i].session < session'
  <2>1. \A i \in 1..(Len(requests') - 1) : i + 1 \in 1..(Len(requests) - 1) /\ i \in 1..Len(requests')
    BY <1>2
  <2> QED
    BY <1>1, <1>2, <2>1 DEF Before
<1>5. requests[1].session < session
  BY <1>1, <1>2 DEF Before
<1>6. \A i \in 1..Len(replies') : replies'[i].session < session'
  <2>1. CASE UNCHANGED replies
    BY <1>1, <2>1 DEF Before
  <2>2. ASSUME NEW a \in Reply, a.session = requests[1].session, replies' = Append(replies, a)
        PROVE  \A i \in 1..Len(replies') : replies'[i].session < session'
    <3>1. a.session <= session
      BY <1>2, <1>5, <2>2
    <3>2. /\ Len(replies') = Len(replies) + 1 /\ Len(replies) \in Nat
          /\ replies'[Len(replies')] = a
          /\ \A i \in 1..Len(replies) : replies'[i] = replies[i]
      BY <2>2, <3>1, Replied
    <3>3. \A i \in 1..Len(replies') : i \in 1..Len(replies) \/ i = Len(replies')
      BY <3>2
    <3> QED
      BY <1>1, <1>5, <2>2, <3>2, <3>3 DEF Before
  <2> QED
    BY <2>1, <2>2
<1> QED
  BY <1>1, <1>2, <1>3, <1>4, <1>6 DEF Waits, Before

LEMMA OneOrMore ==
  ASSUME PageTyped, requests # <<>>
  PROVE  Len(requests) = 1 \/ Len(requests) > 1
<1>1. \A n \in Nat \ {0} : n = 1 \/ n > 1
  OBVIOUS
<1>2. Len(requests) \in Nat \ {0}
  BY TailFacts DEF PageTyped
<1> QED
  BY <1>1, <1>2

\* Only its own get can be the last command a waiting view has sent.
LEMMA WaitsForGet ==
  ASSUME PageTyped, Waits, requests # <<>>, requests[1].kind # "get"
  PROVE  Len(requests) > 1
<1>1. Len(requests) \in Nat \ {0}
  BY TailFacts DEF PageTyped
<1> QED
  BY <1>1 DEF Waits

LEMMA QuietServed ==
  ASSUME PageTyped, SavesAreOne, SessionsPast, ClosedIsQuiet,
         requests # <<>>, requests' = Tail(requests), UNCHANGED <<view, session>>,
         \/ UNCHANGED replies
         \/ /\ requests[1].kind # "clip"
            /\ \E a \in Reply : a.session = requests[1].session /\ replies' = Append(replies, a)
  PROVE  ClosedIsQuiet'
<1> SUFFICES ASSUME ~view.open PROVE ClosedIsQuiet'
  BY DEF ClosedIsQuiet
<1>1. /\ Len(requests') = Len(requests) - 1 /\ Len(requests) \in Nat \ {0}
      /\ \A i \in 1..Len(requests') : requests'[i] = requests[i + 1]
  BY Served
<1>2. \A i \in 1..Len(requests') : requests'[i].kind = "clip" \/ requests'[i].session < session'
  <2>1. \A i \in 1..Len(requests') : i + 1 \in 1..Len(requests)
    BY <1>1
  <2> QED
    BY <1>1, <2>1 DEF ClosedIsQuiet
<1>3. \A i \in 1..Len(replies') : replies'[i].session < session'
  <2>1. CASE UNCHANGED replies
    BY <2>1 DEF ClosedIsQuiet
  <2>2. ASSUME NEW a \in Reply, a.session = requests[1].session, replies' = Append(replies, a),
               requests[1].kind # "clip"
        PROVE  \A i \in 1..Len(replies') : replies'[i].session < session'
    <3>1. a.session < session
      <4>1. 1 \in 1..Len(requests)
        BY <1>1
      <4> QED
        BY <2>2, <4>1 DEF ClosedIsQuiet
    <3>2. a.session <= session
      BY <2>2, <3>1, <1>1 DEF SessionsPast
    <3>3. /\ Len(replies') = Len(replies) + 1 /\ Len(replies) \in Nat
          /\ replies'[Len(replies')] = a
          /\ \A i \in 1..Len(replies) : replies'[i] = replies[i]
      BY <2>2, <3>2, Replied
    <3>4. \A i \in 1..Len(replies') : i \in 1..Len(replies) \/ i = Len(replies')
      BY <3>3
    <3> QED
      BY <3>1, <3>3, <3>4 DEF ClosedIsQuiet
  <2> QED
    BY <2>1, <2>2
<1> QED
  BY <1>2, <1>3 DEF ClosedIsQuiet

\* A refused save changes nothing, a written one exactly what the user changed.
LEMMA SaveKeeps == ASSUME SettingsInv, Save PROVE SettingsInv'
<1> DEFINE r == requests[1]
<1>1. requests # <<>> /\ Head(requests).kind = "save" /\ requests' = Tail(requests)
      /\ UNCHANGED <<view, session>>
  BY DEF Save, Request
<1>2. /\ Head(requests) = r /\ r \in Command /\ r.kind = "save"
      /\ view' \in Copy /\ session' \in Nat /\ requests' \in Seq(Command)
      /\ \A i \in 1..Len(requests') : requests'[i].session <= session'
      /\ ~excused => \A i \in 1..Len(requests') : requests'[i].kind # "save"
      /\ Len(requests) = 1 <=> requests' = <<>>
  BY <1>1, Served DEF SettingsInv
<1>3. r.next \in Setting /\ r.key \in Key /\ r.session \in Nat /\ r.session <= session
  <2>1. 1 \in 1..Len(requests)
    BY <1>1, TailFacts DEF SettingsInv, PageTyped
  <2> QED
    BY <1>2, <2>1 DEF Command, SettingsInv, SessionsPast
<1>4. PICK o \in RegistrarAction(r.next) :
        /\ held' = o.held /\ conflict' = o.conflict /\ taken' = o.taken
        /\ IF o.ok
           THEN /\ Consent(r.next) /\ Store(r.next)
                /\ chosen' = [chosen EXCEPT ![r.key] = r.next[r.key]]
                /\ excused' = (excused \/ failed')
                /\ Answer([settings |-> r.next, err |-> o.conflict, ok |-> ~failed', session |-> r.session])
           ELSE /\ UNCHANGED <<store, captureOn, chosen, excused, fails>>
                /\ Answer([settings |-> mem, err |-> o.conflict, ok |-> FALSE, session |-> r.session])
  BY <1>2 DEF Save
<1>5. HonestOutcome(o, r.next)
  BY <1>3, RegistrarIsHonest DEF SettingsInv
<1>6. held' \in Chords \cup {None} /\ taken' \in SUBSET Chords /\ conflict' \in BOOLEAN
      /\ o.ok \in BOOLEAN
  BY <1>4, <1>5 DEF HonestOutcome, OutcomeTyped
<1>7. CASE o.ok
  <2>1. /\ mem' = r.next /\ failed' \in BOOLEAN
        /\ (file' = r.next /\ failed' = FALSE) \/ (failed' = TRUE /\ file' = file)
    BY <1>4, <1>7 DEF Store
  <2>2. chosen' = [chosen EXCEPT ![r.key] = r.next[r.key]] /\ chosen' \in Setting
    BY <1>3, <1>4, <1>7, OneKeyTyped DEF SettingsInv, ShellTyped
  <2>3. excused' = (excused \/ failed') /\ excused' \in BOOLEAN
    BY <1>4, <1>7, <2>1 DEF SettingsInv, ShellTyped
  <2>4. captureOn' \in BOOLEAN /\ (captureOn' => r.next.crash)
    <3>1. captureOn \in BOOLEAN /\ r.next.crash \in BOOLEAN /\ (captureOn => mem.crash)
      BY <1>3 DEF SettingsInv, ShellTyped, ConsentHolds, Setting
    <3> QED
      BY <1>4, <1>7, <3>1 DEF Consent
  <2>5. ShellTyped'
    BY <1>3, <1>6, <2>1, <2>2, <2>3, <2>4 DEF SettingsInv, ShellTyped
  <2>6. HotkeyHonest'
    BY <1>4, <1>5, <1>7, <2>1, <1>6 DEF HonestOutcome, Honest, HotkeyHonest
  <2>7. ConsentHolds' /\ FileFollows'
    BY <2>1, <2>4 DEF ConsentHolds, FileFollows
  <2>8. LastChoiceWins'
    <3>1. CASE excused'
      BY <3>1 DEF LastChoiceWins
    <3>2. CASE ~excused'
      <4>1. ~excused /\ mem = chosen
        BY <2>3, <3>2 DEF SettingsInv, LastChoiceWins
      <4>2. r.next = [mem EXCEPT ![r.key] = r.next[r.key]]
        <5>1. 1 \in 1..Len(requests)
          BY <1>1, TailFacts DEF SettingsInv, PageTyped
        <5> QED
          BY <1>2, <4>1, <5>1 DEF SettingsInv, SavesAreOne
      <4> QED
        BY <2>1, <2>2, <4>1, <4>2 DEF LastChoiceWins
    <3> QED
      BY <3>1, <3>2
  <2> DEFINE a == [settings |-> r.next, err |-> o.conflict, ok |-> ~failed', session |-> r.session]
  <2>9. a \in Reply /\ replies' = Append(replies, a) /\ a.session = r.session
        /\ a.settings = r.next /\ a.err = o.conflict /\ a.ok = ~failed'
    BY <1>3, <1>4, <1>5, <1>7, <2>1 DEF Reply, Answer, HonestOutcome, OutcomeTyped
  <2> HIDE DEF a
  <2>10. PageTyped' /\ SessionsPast'
    BY <1>1, <1>2, <1>3, <2>9, Replied DEF SettingsInv, PageTyped, SessionsPast
  <2>11. SavesAreOne'
    BY <1>2, <2>3 DEF SavesAreOne
  <2>12. ViewFollows'
    <3>1. view'.loaded => view'.open
      BY <1>1 DEF SettingsInv, ViewFollows
    <3>2. ASSUME view'.open, ~view'.loaded PROVE Waits'
      <4>1. Waits
        BY <1>1, <3>2 DEF SettingsInv, ViewFollows
      <4> QED
        BY <1>1, <1>2, <2>9, <4>1, WaitsForGet, StillWaits DEF SettingsInv
    <3>3. ASSUME view'.loaded, ~excused' PROVE Answered'
      <4>1. ~excused /\ ~failed' /\ Sent
        BY <1>1, <2>1, <2>3, <3>3 DEF SettingsInv, ViewFollows, AtRest, Answered
      <4>2. requests' = <<>> /\ Len(replies') = 1 /\ replies'[1] = a /\ r.session = session
        BY <1>1, <1>2, <1>3, <2>9, <4>1, Replied DEF SettingsInv, Sent
      <4> QED
        BY <1>1, <1>4, <2>1, <2>9, <4>1, <4>2 DEF Answered
    <3> QED
      BY <3>1, <3>2, <3>3 DEF ViewFollows
  <2>13. ClosedIsQuiet'
    BY <1>1, <1>2, <2>9, QuietServed DEF SettingsInv
  <2> QED
    BY <2>5, <2>6, <2>7, <2>8, <2>10, <2>11, <2>12, <2>13 DEF SettingsInv
<1>8. CASE ~o.ok
  <2>1. UNCHANGED <<store, captureOn, chosen, excused>>
    BY <1>4, <1>8
  <2>2. ShellTyped' /\ ConsentHolds' /\ FileFollows' /\ LastChoiceWins'
    BY <1>6, <2>1 DEF SettingsInv, store, ShellTyped, ConsentHolds, FileFollows, LastChoiceWins
  <2>3. HotkeyHonest'
    BY <1>4, <1>5, <1>6, <1>8, <2>1 DEF store, HonestOutcome, Honest, HotkeyHonest
  <2> DEFINE a == [settings |-> mem, err |-> o.conflict, ok |-> FALSE, session |-> r.session]
  <2>4. a \in Reply /\ replies' = Append(replies, a) /\ a.session = r.session /\ a.ok = FALSE
    BY <1>3, <1>4, <1>5, <1>8 DEF Reply, Answer, HonestOutcome, OutcomeTyped, SettingsInv, ShellTyped
  <2> HIDE DEF a
  <2>5. PageTyped' /\ SessionsPast'
    BY <1>1, <1>2, <1>3, <2>4, Replied DEF SettingsInv, PageTyped, SessionsPast
  <2>6. SavesAreOne'
    BY <1>2, <2>1 DEF SavesAreOne
  <2>7. ViewFollows'
    <3>1. view'.loaded => view'.open
      BY <1>1 DEF SettingsInv, ViewFollows
    <3>2. ASSUME view'.open, ~view'.loaded PROVE Waits'
      <4>1. Waits
        BY <1>1, <3>2 DEF SettingsInv, ViewFollows
      <4> QED
        BY <1>1, <1>2, <2>4, <4>1, WaitsForGet, StillWaits DEF SettingsInv
    <3>3. ASSUME view'.loaded, ~excused' PROVE Answered'
      <4>1. Sent
        BY <1>1, <2>1, <3>3 DEF SettingsInv, ViewFollows, AtRest, Answered
      <4>2. requests' = <<>> /\ Len(replies') = 1 /\ replies'[1] = a /\ r.session = session
        BY <1>1, <1>2, <1>3, <2>4, <4>1, Replied DEF SettingsInv, Sent
      <4> QED
        BY <1>1, <2>1, <2>4, <4>1, <4>2 DEF store, Sent, Answered
    <3> QED
      BY <3>1, <3>2, <3>3 DEF ViewFollows
  <2>8. ClosedIsQuiet'
    BY <1>1, <1>2, <2>4, QuietServed DEF SettingsInv
  <2> QED
    BY <2>2, <2>3, <2>5, <2>6, <2>7, <2>8 DEF SettingsInv
<1> QED
  BY <1>6, <1>7, <1>8

\* What the store, the registrar and the choice are, when a step leaves them alone.
ShellPart == ShellTyped /\ HotkeyHonest /\ ConsentHolds /\ FileFollows

LEMMA ShellAsideKeeps ==
  ASSUME SettingsInv, UNCHANGED <<store, hotkey, captureOn, chosen>>,
         excused' \in BOOLEAN, excused => excused'
  PROVE  ShellPart' /\ LastChoiceWins'
BY DEF SettingsInv, ShellPart, store, hotkey, ShellTyped, HotkeyHonest, ConsentHolds,
       FileFollows, LastChoiceWins

LEMMA GetKeeps == ASSUME SettingsInv, GetSettings PROVE SettingsInv'
<1> DEFINE r == requests[1]
           a == [settings |-> mem, err |-> conflict, ok |-> TRUE, session |-> r.session]
<1>1. requests # <<>> /\ Head(requests).kind = "get" /\ requests' = Tail(requests)
      /\ UNCHANGED <<view, session>> /\ UNCHANGED <<store, hotkey, captureOn, chosen, excused>>
  BY DEF GetSettings, Request
<1>2. /\ Head(requests) = r /\ r \in Command /\ r.kind = "get"
      /\ view' \in Copy /\ session' \in Nat /\ requests' \in Seq(Command)
      /\ \A i \in 1..Len(requests') : requests'[i].session <= session'
      /\ ~excused => \A i \in 1..Len(requests') : requests'[i].kind # "save"
      /\ Len(requests) \in Nat \ {0}
      /\ Len(requests) = 1 <=> requests' = <<>>
  BY <1>1, Served DEF SettingsInv
<1>3. r.session \in Nat /\ r.session <= session
  <2>1. 1 \in 1..Len(requests)
    BY <1>2
  <2> QED
    BY <1>2, <2>1 DEF Command, SettingsInv, SessionsPast
<1>4. a \in Reply /\ replies' = Append(replies, a) /\ a.session = r.session
  BY <1>2, <1>3 DEF GetSettings, Answer, Reply, SettingsInv, ShellTyped
<1>5. ShellPart' /\ LastChoiceWins'
  BY <1>1, ShellAsideKeeps DEF SettingsInv, ShellTyped
<1>6. PageTyped' /\ SessionsPast'
  BY <1>1, <1>2, <1>3, <1>4, Replied DEF SettingsInv, PageTyped, SessionsPast
<1>7. SavesAreOne'
  BY <1>1, <1>2 DEF SavesAreOne
<1>8. ViewFollows'
  <2>1. view'.loaded => view'.open
    BY <1>1 DEF SettingsInv, ViewFollows
  <2>2. ASSUME view'.open, ~view'.loaded PROVE Waits'
    <3>1. Waits
      BY <1>1, <2>2 DEF SettingsInv, ViewFollows
    <3>2. CASE Len(requests) > 1
      BY <1>1, <1>4, <3>1, <3>2, StillWaits DEF SettingsInv
    <3>3. CASE Len(requests) = 1
      <4>1. requests' = <<>> /\ r.session = session /\ Before(replies, Len(replies))
        BY <1>1, <1>2, <3>1, <3>3 DEF Waits
      <4>2. /\ replies' # <<>> /\ Len(replies') = Len(replies) + 1 /\ Len(replies) \in Nat
            /\ replies'[Len(replies')] = a
            /\ \A i \in 1..Len(replies) : replies'[i] = replies[i]
        BY <1>1, <1>3, <1>4, Replied DEF SettingsInv
      <4>4. \A i \in 1..(Len(replies') - 1) : replies'[i].session < session'
        BY <1>1, <4>1, <4>2 DEF Before
      <4>5. a = [settings |-> mem', err |-> conflict', ok |-> TRUE, session |-> session']
        BY <1>1, <4>1 DEF store, hotkey
      <4> QED
        BY <4>1, <4>2, <4>4, <4>5 DEF Waits, Before
    <3> QED
      BY <1>1, <3>2, <3>3, OneOrMore DEF SettingsInv
  <2>3. ~(view'.loaded /\ ~excused')
    BY <1>1, <1>2 DEF SettingsInv, ViewFollows, AtRest, Sent, Answered
  <2> QED
    BY <2>1, <2>2, <2>3 DEF ViewFollows
<1>9. ClosedIsQuiet'
  BY <1>1, <1>2, <1>4, QuietServed DEF SettingsInv
<1> QED
  BY <1>5, <1>6, <1>7, <1>8, <1>9 DEF SettingsInv, ShellPart

\* The switch saves the store's own copy, so it undoes no save before it.
LEMMA SetClipKeeps == ASSUME SettingsInv, SetClip PROVE SettingsInv'
<1> DEFINE r == requests[1]
           next == [mem EXCEPT !.clip = r.next.clip]
<1>1. requests # <<>> /\ Head(requests).kind = "clip" /\ requests' = Tail(requests)
      /\ UNCHANGED <<view, session>> /\ UNCHANGED <<hotkey, captureOn, replies>>
      /\ excused' = (excused \/ failed')
  BY DEF SetClip, Request
<1>2. /\ Head(requests) = r /\ r \in Command /\ r.kind = "clip"
      /\ view' \in Copy /\ session' \in Nat /\ requests' \in Seq(Command)
      /\ \A i \in 1..Len(requests') : requests'[i].session <= session'
      /\ ~excused => \A i \in 1..Len(requests') : requests'[i].kind # "save"
  BY <1>1, Served DEF SettingsInv
<1>3. r.next.clip \in BOOLEAN
  BY <1>2 DEF Command, Setting
<1>4. /\ next \in Setting /\ next.chord = mem.chord /\ next.source = mem.source
      /\ next.crash = mem.crash /\ next.clip = r.next.clip
  BY <1>3 DEF SettingsInv, ShellTyped, Setting
<1>5. /\ mem' = next /\ failed' \in BOOLEAN
      /\ (file' = next /\ failed' = FALSE) \/ (failed' = TRUE /\ file' = file)
      /\ chosen' = [chosen EXCEPT !.clip = next.clip]
  BY <1>2 DEF SetClip, Store
<1>6. chosen' \in Setting
  BY <1>4, <1>5 DEF SettingsInv, ShellTyped, Setting
<1>7. mem = chosen => mem' = chosen'
  BY <1>4, <1>5
<1> HIDE DEF next
<1>8. ShellTyped'
  BY <1>1, <1>4, <1>5, <1>6 DEF SettingsInv, ShellTyped, hotkey
<1>9. HotkeyHonest' /\ ConsentHolds' /\ FileFollows'
  BY <1>1, <1>4, <1>5 DEF SettingsInv, HotkeyHonest, ConsentHolds, FileFollows, hotkey
<1>10. LastChoiceWins'
  BY <1>1, <1>7 DEF SettingsInv, LastChoiceWins
<1>11. PageTyped' /\ SessionsPast' /\ SavesAreOne'
  BY <1>1, <1>2 DEF SettingsInv, PageTyped, SessionsPast, SavesAreOne
<1>12. ViewFollows'
  <2>1. view'.loaded => view'.open
    BY <1>1 DEF SettingsInv, ViewFollows
  <2>2. ASSUME view'.open, ~view'.loaded PROVE Waits'
    <3>1. Waits
      BY <1>1, <2>2 DEF SettingsInv, ViewFollows
    <3> QED
      BY <1>1, <1>2, <3>1, WaitsForGet, StillWaits DEF SettingsInv
  <2>3. ~(view'.loaded /\ ~excused')
    BY <1>1, <1>2 DEF SettingsInv, ViewFollows, AtRest, Sent, Answered
  <2> QED
    BY <2>1, <2>2, <2>3 DEF ViewFollows
<1>13. ClosedIsQuiet'
  BY <1>1, <1>2, QuietServed DEF SettingsInv
<1> QED
  BY <1>8, <1>9, <1>10, <1>11, <1>12, <1>13 DEF SettingsInv

-----------------------------------------------------------------------------
(* The page.                                                               *)

\* A command put behind the others.
LEMMA Asked ==
  ASSUME PageTyped, NEW c \in Command, requests' = Append(requests, c)
  PROVE  /\ requests' \in Seq(Command) /\ requests' # <<>>
         /\ Len(requests') = Len(requests) + 1 /\ Len(requests) \in Nat
         /\ requests'[Len(requests')] = c
         /\ \A i \in 1..Len(requests) : requests'[i] = requests[i]
         /\ \A i \in 1..Len(requests') : i \in 1..Len(requests) \/ requests'[i] = c
<1>1. /\ requests' \in Seq(Command) /\ requests' # <<>>
      /\ Len(requests') = Len(requests) + 1 /\ Len(requests) \in Nat
      /\ requests'[Len(requests) + 1] = c
      /\ \A i \in 1..Len(requests) : requests'[i] = requests[i]
  BY AppendFacts DEF PageTyped
<1>2. \A i \in 1..Len(requests') : i \in 1..Len(requests) \/ i = Len(requests) + 1
  BY <1>1
<1> QED
  BY <1>1, <1>2

LEMMA ClosedFacts == Closed \in Copy /\ ~Closed.open /\ ~Closed.loaded
BY SettingsAssumption DEF Closed, Copy, Setting

LEMMA OpenKeeps == ASSUME SettingsInv, OpenSettings PROVE SettingsInv'
<1> DEFINE c == [kind |-> "get", next |-> mem, key |-> "clip", session |-> session + 1]
<1>1. /\ ~view.open /\ session' = session + 1 /\ requests' = Append(requests, c)
      /\ UNCHANGED <<store, hotkey, captureOn, chosen>> /\ UNCHANGED <<replies, excused>>
  BY DEF OpenSettings, Send, ShellAside
<1>2. session \in Nat /\ c \in Command /\ c.kind = "get" /\ c.session = session'
  BY <1>1 DEF SettingsInv, PageTyped, ShellTyped, Command, Key
<1> HIDE DEF c
<1>3. view' = [Closed EXCEPT !.open = TRUE]
  BY DEF OpenSettings
<1>4. view' \in Copy /\ view'.open /\ ~view'.loaded
  BY <1>3, ClosedFacts DEF Copy, Closed
<1>5. /\ requests' \in Seq(Command) /\ requests' # <<>>
      /\ Len(requests') = Len(requests) + 1 /\ Len(requests) \in Nat
      /\ requests'[Len(requests')] = c
      /\ \A i \in 1..Len(requests) : requests'[i] = requests[i]
      /\ \A i \in 1..Len(requests') : i \in 1..Len(requests) \/ requests'[i] = c
  BY <1>1, <1>2, Asked DEF SettingsInv
<1>6. ShellPart' /\ LastChoiceWins'
  BY <1>1, ShellAsideKeeps DEF SettingsInv, ShellTyped
<1>7. PageTyped'
  BY <1>1, <1>2, <1>4, <1>5 DEF SettingsInv, PageTyped
<1>8. /\ \A i \in 1..Len(requests) : requests[i].session \in Nat /\ requests[i].session <= session
      /\ \A i \in 1..Len(replies) : replies[i].session \in Nat /\ replies[i].session <= session
  <2>1. /\ \A i \in 1..Len(requests) : requests[i] \in Command
        /\ \A i \in 1..Len(replies) : replies[i] \in Reply
    BY DEF SettingsInv, PageTyped
  <2> QED
    BY <2>1 DEF SettingsInv, SessionsPast, Command, Reply
<1>9. SessionsPast'
  BY <1>1, <1>2, <1>5, <1>8 DEF SessionsPast
<1>10. SavesAreOne'
  <2>1. mem' = mem /\ excused' = excused
    BY <1>1 DEF store
  <2>2. ASSUME ~excused', NEW i \in 1..Len(requests'), requests'[i].kind = "save"
        PROVE  i \in 1..Len(requests) /\ requests'[i] = requests[i]
    BY <1>2, <1>5, <2>2
  <2> QED
    BY <2>1, <2>2 DEF SettingsInv, SavesAreOne
<1>11. ViewFollows'
  <2>1. \A i \in 1..(Len(requests') - 1) : requests'[i].session < session'
    <3>1. \A i \in 1..(Len(requests') - 1) : i \in 1..Len(requests)
      BY <1>5
    <3> QED
      BY <1>1, <1>2, <1>5, <1>8, <3>1
  <2>2. \A i \in 1..Len(replies') : replies'[i].session < session'
    BY <1>1, <1>2, <1>8
  <2> QED
    BY <1>2, <1>4, <1>5, <2>1, <2>2 DEF ViewFollows, Waits, Before
<1>12. ClosedIsQuiet'
  BY <1>4 DEF ClosedIsQuiet
<1> QED
  BY <1>6, <1>7, <1>9, <1>10, <1>11, <1>12 DEF SettingsInv, ShellPart

\* An edit changes one key of the view's copy.
LEMMA EditFacts ==
  ASSUME NEW copy \in Setting, NEW e \in Edits(copy)
  PROVE  e[1] \in Key /\ e[2] \in Setting /\ e[2] = [copy EXCEPT ![e[1]] = e[2][e[1]]]
<1>1. CASE e = <<"source", [copy EXCEPT !.source = IF @ = "shell" THEN "ykeys" ELSE "shell"]>>
  BY <1>1 DEF Setting, Key
<1>2. CASE e = <<"crash", [copy EXCEPT !.crash = ~@]>>
  BY <1>2 DEF Setting, Key
<1>3. ASSUME NEW ch \in Chords, e = <<"chord", [copy EXCEPT !.chord = ch]>>
      PROVE  e[1] \in Key /\ e[2] \in Setting /\ e[2] = [copy EXCEPT ![e[1]] = e[2][e[1]]]
  BY <1>3 DEF Setting, Key
<1> QED
  BY <1>1, <1>2, <1>3 DEF Edits

LEMMA ApplyKeeps == ASSUME SettingsInv, Apply PROVE SettingsInv'
<1>1. PICK e \in Edits(view.settings) :
        requests' = Append(requests, [kind |-> "save", next |-> e[2], key |-> e[1], session |-> session])
  BY DEF Apply, Send
<1> DEFINE c == [kind |-> "save", next |-> e[2], key |-> e[1], session |-> session]
<1>2. /\ view.loaded /\ view' = [view EXCEPT !.err = FALSE]
      /\ UNCHANGED <<store, hotkey, captureOn, chosen>> /\ UNCHANGED <<replies, session>>
      /\ excused' = (excused \/ requests # <<>> \/ replies # <<>>)
  BY DEF Apply, ShellAside
<1>3. view \in Copy /\ view.settings \in Setting /\ session \in Nat
  BY DEF SettingsInv, PageTyped, Copy
<1>4. e[1] \in Key /\ e[2] \in Setting /\ e[2] = [view.settings EXCEPT ![e[1]] = e[2][e[1]]]
  BY <1>3, EditFacts
<1>5. c \in Command /\ c.kind = "save" /\ c.session = session /\ c.next = e[2] /\ c.key = e[1]
      /\ requests' = Append(requests, c)
  BY <1>1, <1>3, <1>4 DEF Command
<1> HIDE DEF c
<1>6. /\ requests' \in Seq(Command) /\ requests' # <<>>
      /\ Len(requests') = Len(requests) + 1 /\ Len(requests) \in Nat
      /\ requests'[Len(requests')] = c
      /\ \A i \in 1..Len(requests) : requests'[i] = requests[i]
      /\ \A i \in 1..Len(requests') : i \in 1..Len(requests) \/ requests'[i] = c
  BY <1>5, Asked DEF SettingsInv
<1>7. view' \in Copy /\ view'.settings = view.settings /\ view'.loaded /\ view'.open = view.open
  BY <1>2, <1>3 DEF Copy
<1>8. ShellPart' /\ LastChoiceWins'
  BY <1>2, ShellAsideKeeps DEF SettingsInv, ShellTyped
<1>9. PageTyped' /\ SessionsPast'
  BY <1>2, <1>3, <1>5, <1>6, <1>7 DEF SettingsInv, PageTyped, SessionsPast
<1>10. ~excused' => ~excused /\ AtRest
  <2>1. ~excused' => ~excused /\ Len(requests) = 0 /\ Len(replies) = 0
    BY <1>2, EmptySeq
  <2> QED
    BY <1>2, <2>1 DEF SettingsInv, ViewFollows, Sent, Answered
<1>11. ~excused' => Len(requests') = 1 /\ requests'[1] = c /\ view.settings = mem /\ replies' = <<>>
  BY <1>2, <1>6, <1>10 DEF AtRest
<1>12. SavesAreOne'
  BY <1>2, <1>4, <1>5, <1>11 DEF SavesAreOne, store
<1>13. ViewFollows'
  <2>1. ~excused' => Sent'
    BY <1>2, <1>5, <1>7, <1>11 DEF Sent, store
  <2> QED
    BY <1>2, <1>7, <2>1 DEF SettingsInv, ViewFollows
<1>14. ClosedIsQuiet'
  BY <1>2, <1>7 DEF SettingsInv, ViewFollows, ClosedIsQuiet
<1> QED
  BY <1>8, <1>9, <1>12, <1>13, <1>14 DEF SettingsInv, ShellPart

LEMMA TakeReplyKeeps == ASSUME SettingsInv, TakeReply PROVE SettingsInv'
<1> DEFINE r == replies[1]
<1>1. /\ replies # <<>> /\ replies' = Tail(replies)
      /\ UNCHANGED <<store, hotkey, captureOn, chosen>> /\ UNCHANGED <<session, requests, excused>>
  BY DEF TakeReply, ShellAside
<1>2. /\ Head(replies) = r /\ r \in Reply /\ replies' \in Seq(Reply)
      /\ Len(replies') = Len(replies) - 1 /\ Len(replies) \in Nat \ {0}
      /\ \A i \in 1..Len(replies') : replies'[i] = replies[i + 1]
      /\ Len(replies) = 1 <=> replies' = <<>>
  BY <1>1, TailFacts DEF SettingsInv, PageTyped
<1>3. view' = IF r.session # session THEN view
              ELSE IF r.ok THEN [open |-> TRUE, loaded |-> TRUE, settings |-> r.settings, err |-> r.err]
              ELSE [view EXCEPT !.err = TRUE]
  BY <1>2 DEF TakeReply
<1> HIDE DEF r
<1>4. r.session \in Nat /\ r.ok \in BOOLEAN /\ r.settings \in Setting /\ r.err \in BOOLEAN
  BY <1>2 DEF Reply
<1>5. view \in Copy /\ view' \in Copy
  BY <1>3, <1>4 DEF SettingsInv, PageTyped, Copy
<1>6. ShellPart' /\ LastChoiceWins'
  BY <1>1, ShellAsideKeeps DEF SettingsInv, ShellTyped
<1>7. PageTyped'
  BY <1>1, <1>2, <1>5 DEF SettingsInv, PageTyped
<1>8. SessionsPast'
  <2>1. \A i \in 1..Len(replies') : i + 1 \in 1..Len(replies)
    BY <1>2
  <2> QED
    BY <1>1, <1>2, <2>1 DEF SettingsInv, SessionsPast
<1>9. SavesAreOne'
  BY <1>1 DEF SettingsInv, SavesAreOne, store
<1>10. CASE r.session # session
  <2>1. view' = view
    BY <1>3, <1>10
  <2>2. ASSUME view.open, ~view.loaded PROVE Waits'
    <3>1. Waits
      BY <2>2 DEF SettingsInv, ViewFollows
    <3>2. \A i \in 1..Len(replies') : i + 1 \in 1..Len(replies)
      BY <1>2
    <3>3. CASE requests # <<>>
      BY <1>1, <1>2, <3>1, <3>2, <3>3 DEF Waits, Before
    <3>4. CASE requests = <<>>
      <4>1. /\ replies[Len(replies)] = [settings |-> mem, err |-> conflict, ok |-> TRUE, session |-> session]
            /\ Before(replies, Len(replies) - 1)
        BY <3>1, <3>4 DEF Waits
      <4>2. Len(replies) # 1
        BY <1>10, <4>1 DEF r
      <4>3. replies' # <<>> /\ replies'[Len(replies')] = replies[Len(replies)]
        BY <1>2, <4>2
      <4>4. \A i \in 1..(Len(replies') - 1) : i + 1 \in 1..(Len(replies) - 1) /\ i \in 1..Len(replies')
        BY <1>2
      <4>5. mem' = mem /\ conflict' = conflict /\ session' = session /\ requests' = <<>>
        BY <1>1, <3>4 DEF store, hotkey
      <4>6. \A i \in 1..(Len(replies') - 1) : replies'[i].session < session'
        BY <1>2, <4>1, <4>4, <4>5 DEF Before
      <4> QED
        BY <4>1, <4>3, <4>5, <4>6 DEF Waits, Before
    <3> QED
      BY <3>3, <3>4
  <2>3. ~(view.loaded /\ ~excused)
    BY <1>1, <1>10 DEF SettingsInv, ViewFollows, AtRest, Sent, Answered, r
  <2>4. ViewFollows'
    BY <1>1, <2>1, <2>2, <2>3 DEF SettingsInv, ViewFollows
  <2>5. ClosedIsQuiet'
    <3>1. \A i \in 1..Len(replies') : i + 1 \in 1..Len(replies)
      BY <1>2
    <3> QED
      BY <1>1, <1>2, <2>1, <3>1 DEF SettingsInv, ClosedIsQuiet
  <2> QED
    BY <1>6, <1>7, <1>8, <1>9, <2>4, <2>5 DEF SettingsInv, ShellPart
<1>11. CASE r.session = session
  <2>1. ASSUME view.open, ~view.loaded
        PROVE  requests = <<>> /\ Len(replies) = 1 /\ r.ok /\ r.settings = mem /\ (conflict => r.err)
    <3>1. Waits /\ 1 \in 1..Len(replies)
      BY <1>2, <2>1 DEF SettingsInv, ViewFollows
    <3>2. ~(r.session < session)
      BY <1>4, <1>11
    <3>3. requests = <<>> /\ replies[Len(replies)] = [settings |-> mem, err |-> conflict, ok |-> TRUE, session |-> session]
          /\ Before(replies, Len(replies) - 1)
      BY <3>1, <3>2 DEF Waits, Before, r
    <3>4. Len(replies) = 1
      <4>1. Len(replies) # 1 => 1 \in 1..(Len(replies) - 1)
        BY <1>2
      <4> QED
        BY <3>2, <3>3, <4>1 DEF Before, r
    <3> QED
      BY <3>3, <3>4 DEF r
  <2>2. mem' = mem /\ conflict' = conflict
    BY <1>1 DEF store, hotkey
  <2>3. view.open
    <3>1. 1 \in 1..Len(replies)
      BY <1>2
    <3> QED
      BY <1>4, <1>11, <3>1 DEF SettingsInv, ClosedIsQuiet, r
  <2>4. ClosedIsQuiet'
    BY <1>3, <1>5, <1>11, <2>3 DEF ClosedIsQuiet, Copy
  <2>5. ViewFollows'
    <3>1. CASE r.ok
      <4>1. view'.open /\ view'.loaded /\ view'.settings = r.settings /\ view'.err = r.err
        BY <1>3, <1>11, <3>1
      <4>2. ASSUME ~excused' PROVE AtRest'
        <5>1. ~excused
          BY <1>1, <4>2
        <5>2. view.loaded => Answered
          BY <1>1, <5>1 DEF SettingsInv, ViewFollows, AtRest, Sent
        <5>3. view.loaded => requests = <<>> /\ Len(replies) = 1 /\ r.settings = mem /\ (conflict => r.err)
          BY <3>1, <5>2 DEF Answered, r
        <5>4. view.open
          BY <2>3
        <5> QED
          BY <1>1, <1>2, <2>1, <2>2, <4>1, <5>3, <5>4 DEF AtRest
      <4> QED
        BY <4>1, <4>2 DEF ViewFollows
    <3>2. CASE ~r.ok
      <4>1. view' = [view EXCEPT !.err = TRUE]
        BY <1>3, <1>11, <3>2
      <4>2. view'.open = view.open /\ view'.loaded = view.loaded /\ view'.settings = view.settings /\ view'.err
        BY <1>5, <4>1 DEF Copy
      <4>3. ~(view.open /\ ~view.loaded)
        BY <2>1, <3>2
      <4>4. ASSUME view.loaded, ~excused PROVE AtRest'
        <5>1. Answered
          BY <1>1, <4>4 DEF SettingsInv, ViewFollows, AtRest, Sent
        <5> QED
          BY <1>1, <1>2, <2>2, <3>2, <4>2, <5>1 DEF Answered, AtRest, r
      <4> QED
        BY <1>1, <4>2, <4>3, <4>4 DEF SettingsInv, ViewFollows
    <3> QED
      BY <3>1, <3>2
  <2> QED
    BY <1>6, <1>7, <1>8, <1>9, <2>5, <2>4 DEF SettingsInv, ShellPart
<1> QED
  BY <1>10, <1>11

LEMMA CloseKeeps == ASSUME SettingsInv, CloseSettings PROVE SettingsInv'
<1>1. /\ view' = Closed /\ session' = session + 1
      /\ UNCHANGED <<store, hotkey, captureOn, chosen>> /\ UNCHANGED <<requests, replies, excused>>
  BY DEF CloseSettings, ShellAside
<1>2. ShellPart' /\ LastChoiceWins'
  BY <1>1, ShellAsideKeeps DEF SettingsInv, ShellTyped
<1>3. PageTyped'
  BY <1>1, ClosedFacts DEF SettingsInv, PageTyped
<1>4. SavesAreOne'
  BY <1>1 DEF SettingsInv, SavesAreOne, store
<1>5. /\ session \in Nat
      /\ \A i \in 1..Len(requests) : requests[i].session \in Nat /\ requests[i].session <= session
      /\ \A i \in 1..Len(replies) : replies[i].session \in Nat /\ replies[i].session <= session
  <2>1. /\ \A i \in 1..Len(requests) : requests[i] \in Command
        /\ \A i \in 1..Len(replies) : replies[i] \in Reply
    BY DEF SettingsInv, PageTyped
  <2> QED
    BY <2>1 DEF SettingsInv, SessionsPast, PageTyped, Command, Reply
<1>6. SessionsPast' /\ ClosedIsQuiet'
  BY <1>1, <1>5 DEF SessionsPast, ClosedIsQuiet
<1>7. ViewFollows'
  BY <1>1, ClosedFacts DEF ViewFollows
<1> QED
  BY <1>2, <1>3, <1>4, <1>6, <1>7 DEF SettingsInv, ShellPart

LEMMA ToggleKeeps == ASSUME SettingsInv, ToggleClip PROVE SettingsInv'
<1>1. PICK on \in BOOLEAN :
        requests' = Append(requests, [kind |-> "clip", next |-> [mem EXCEPT !.clip = on],
                                      key |-> "clip", session |-> session])
  BY DEF ToggleClip, Send
<1> DEFINE c == [kind |-> "clip", next |-> [mem EXCEPT !.clip = on], key |-> "clip", session |-> session]
<1>2. /\ ~view.open /\ UNCHANGED <<view, session, replies, excused>>
      /\ UNCHANGED <<store, hotkey, captureOn, chosen>>
  BY DEF ToggleClip, ShellAside
<1>3. [mem EXCEPT !.clip = on] \in Setting
  BY DEF SettingsInv, ShellTyped, Setting
<1>4. c \in Command /\ c.kind = "clip" /\ c.session = session /\ session \in Nat
  BY <1>3 DEF SettingsInv, PageTyped, Command, Key
<1> HIDE DEF c
<1>5. /\ requests' \in Seq(Command) /\ requests' # <<>>
      /\ Len(requests') = Len(requests) + 1 /\ Len(requests) \in Nat
      /\ requests'[Len(requests')] = c
      /\ \A i \in 1..Len(requests) : requests'[i] = requests[i]
      /\ \A i \in 1..Len(requests') : i \in 1..Len(requests) \/ requests'[i] = c
  BY <1>1, <1>4, Asked DEF SettingsInv, c
<1>6. ShellPart' /\ LastChoiceWins'
  BY <1>2, ShellAsideKeeps DEF SettingsInv, ShellTyped
<1>7. PageTyped' /\ SessionsPast'
  BY <1>2, <1>4, <1>5 DEF SettingsInv, PageTyped, SessionsPast
<1>8. SavesAreOne'
  <2>1. mem' = mem /\ excused' = excused
    BY <1>2 DEF store
  <2>2. ASSUME ~excused', NEW i \in 1..Len(requests'), requests'[i].kind = "save"
        PROVE  i \in 1..Len(requests) /\ requests'[i] = requests[i]
    BY <1>4, <1>5, <2>2
  <2>3. ~excused => \A i \in 1..Len(requests) : requests[i].kind = "save" =>
          i = 1 /\ requests[i].next = [mem EXCEPT ![requests[i].key] = requests[i].next[requests[i].key]]
    BY DEF SettingsInv, SavesAreOne
  <2>4. ASSUME ~excused', NEW i \in 1..Len(requests'), requests'[i].kind = "save"
        PROVE  i = 1 /\ requests'[i].next
                          = [mem' EXCEPT ![requests'[i].key] = requests'[i].next[requests'[i].key]]
    <3>1. i \in 1..Len(requests) /\ requests'[i] = requests[i] /\ requests[i].kind = "save" /\ ~excused
      BY <2>1, <2>2, <2>4
    <3> QED
      BY <2>1, <2>3, <3>1
  <2> QED
    BY <2>4 DEF SavesAreOne
<1>9. ViewFollows'
  BY <1>2 DEF SettingsInv, ViewFollows
<1>10. ClosedIsQuiet'
  BY <1>2, <1>4, <1>5 DEF SettingsInv, ClosedIsQuiet
<1> QED
  BY <1>6, <1>7, <1>8, <1>9, <1>10 DEF SettingsInv, ShellPart

-----------------------------------------------------------------------------
(* Everybody else, and the whole.                                          *)

\* Other programs take and release chords, never the one that is held.
LEMMA OthersKeep == ASSUME SettingsInv, OthersTake \/ OthersRelease PROVE SettingsInv'
<1>1. UNCHANGED <<store, held, conflict, captureOn, page, chosen, excused>>
  BY DEF OthersTake, OthersRelease
<1>2. taken' \in SUBSET Chords /\ held \notin taken'
  BY DEF OthersTake, OthersRelease, SettingsInv, ShellTyped, HotkeyHonest
<1>3. ShellTyped' /\ HotkeyHonest'
  BY <1>1, <1>2 DEF SettingsInv, ShellTyped, HotkeyHonest, store
<1>4. ConsentHolds' /\ FileFollows' /\ LastChoiceWins'
  BY <1>1 DEF SettingsInv, ConsentHolds, FileFollows, LastChoiceWins, store
<1>5. PageTyped' /\ SavesAreOne' /\ SessionsPast' /\ ClosedIsQuiet'
  BY <1>1 DEF SettingsInv, PageTyped, SavesAreOne, SessionsPast, ClosedIsQuiet, store, page
<1>6. Waits => Waits'
  BY <1>1 DEF Waits, Before, store, page
<1>7. (AtRest \/ Sent \/ Answered) => (AtRest \/ Sent \/ Answered)'
  BY <1>1 DEF AtRest, Sent, Answered, store, page
<1>8. ViewFollows'
  BY <1>1, <1>6, <1>7 DEF SettingsInv, ViewFollows, page
<1> QED
  BY <1>3, <1>4, <1>5, <1>8 DEF SettingsInv

\* What the registrar does at a start is honest about the settings started with.
LEMMA StartIsHonest ==
  ASSUME NEW s \in Setting, ShellTyped, Start(s), mem' = s
  PROVE  /\ HotkeyHonest' /\ ConsentHolds' /\ captureOn' \in BOOLEAN
         /\ held' \in Chords \cup {None} /\ taken' \in SUBSET Chords /\ conflict' \in BOOLEAN
<1>1. /\ s.chord \in Chords /\ s.source \in {"shell", "ykeys"} /\ s.crash \in BOOLEAN
      /\ None \notin Chords /\ taken \in SUBSET Chords
  BY SettingsAssumption DEF Setting, None, ShellTyped
<1>2. ConsentHolds' /\ captureOn' \in BOOLEAN
  BY <1>1 DEF Start, ConsentHolds
<1>3. CASE s.source = "shell"
  <2>1. held' = Anew(s.chord).held /\ conflict' = Anew(s.chord).conflict /\ taken' = Anew(s.chord).taken
    BY <1>3 DEF Start
  <2> QED
    BY <1>1, <1>2, <1>3, <2>1, AnewFacts DEF OutcomeTyped, HotkeyHonest
<1>4. CASE s.source = "ykeys"
  <2>1. held' = None /\ conflict' = FALSE /\ taken' = taken
    BY <1>4 DEF Start, HandToYkeys
  <2> QED
    BY <1>1, <1>2, <1>4, <2>1 DEF HotkeyHonest
<1> QED
  BY <1>1, <1>3, <1>4

\* A start with nothing in flight, from the file as it is.
LEMMA RestartKeeps == ASSUME SettingsInv, Restart PROVE SettingsInv'
<1>1. /\ mem' = file /\ chosen' = file /\ failed' = FALSE /\ excused' = FALSE /\ file' = file
      /\ view' = Closed /\ requests' = <<>> /\ replies' = <<>> /\ session' = session + 1
      /\ Start(file)
  BY DEF Restart
<1>2. file \in Setting /\ session \in Nat
  BY DEF SettingsInv, ShellTyped, PageTyped
<1>3. /\ HotkeyHonest' /\ ConsentHolds' /\ captureOn' \in BOOLEAN
      /\ held' \in Chords \cup {None} /\ taken' \in SUBSET Chords /\ conflict' \in BOOLEAN
  BY <1>1, <1>2, StartIsHonest DEF SettingsInv
<1>4. ShellTyped' /\ FileFollows' /\ LastChoiceWins'
  BY <1>1, <1>2, <1>3 DEF ShellTyped, FileFollows, LastChoiceWins
<1>5. PageTyped' /\ SavesAreOne' /\ SessionsPast' /\ ClosedIsQuiet'
  BY <1>1, <1>2, ClosedFacts, EmptySeq DEF PageTyped, SavesAreOne, SessionsPast, ClosedIsQuiet
<1>6. ViewFollows'
  BY <1>1, ClosedFacts DEF ViewFollows
<1> QED
  BY <1>3, <1>4, <1>5, <1>6 DEF SettingsInv

LEMMA InitSettingsInv == Init => SettingsInv
<1> SUFFICES ASSUME Init PROVE SettingsInv
  OBVIOUS
<1>1. Defaults \in Setting /\ None \notin Chords
  BY SettingsAssumption DEF Setting, None
<1>2. Defaults.chord \in Chords /\ Defaults.source \in {"shell", "ykeys"} /\ Defaults.crash \in BOOLEAN
  BY <1>1 DEF Setting
<1>3. taken \in SUBSET Chords /\ held \in Chords \cup {None} /\ conflict \in BOOLEAN
  BY <1>2 DEF Init
<1>4. ShellTyped
  BY <1>1, <1>2, <1>3 DEF Init, ShellTyped
<1>5. HotkeyHonest
  <2>1. CASE Defaults.source = "shell" /\ Binds(Defaults.chord)
    BY <1>1, <1>2, <2>1 DEF Init, HotkeyHonest, Binds
  <2>2. CASE ~(Defaults.source = "shell" /\ Binds(Defaults.chord))
    BY <1>1, <1>2, <1>3, <2>2 DEF Init, HotkeyHonest
  <2> QED
    BY <2>1, <2>2
<1>6. ConsentHolds /\ FileFollows /\ LastChoiceWins
  BY DEF Init, ConsentHolds, FileFollows, LastChoiceWins
<1>7. PageTyped /\ SavesAreOne /\ SessionsPast /\ ClosedIsQuiet /\ ViewFollows
  BY ClosedFacts, EmptySeq DEF Init, PageTyped, SavesAreOne, SessionsPast, ClosedIsQuiet, ViewFollows
<1> QED
  BY <1>4, <1>5, <1>6, <1>7 DEF SettingsInv

LEMMA StutterKeeps == ASSUME SettingsInv, UNCHANGED vars PROVE SettingsInv'
<1>1. UNCHANGED <<mem, file, failed, held, taken, conflict, captureOn, view, session, requests,
                  replies, chosen, excused>>
  BY DEF vars, store, hotkey, page
<1>2. ShellTyped' /\ HotkeyHonest' /\ ConsentHolds' /\ FileFollows' /\ LastChoiceWins'
  BY <1>1 DEF SettingsInv, ShellTyped, HotkeyHonest, ConsentHolds, FileFollows, LastChoiceWins
<1>3. PageTyped' /\ SavesAreOne' /\ SessionsPast' /\ ClosedIsQuiet'
  BY <1>1 DEF SettingsInv, PageTyped, SavesAreOne, SessionsPast, ClosedIsQuiet
<1>4. ViewFollows'
  BY <1>1 DEF SettingsInv, ViewFollows, Waits, Before, AtRest, Sent, Answered
<1> QED
  BY <1>2, <1>3, <1>4 DEF SettingsInv

THEOREM SettingsSafe == Spec => []SettingsInv
<1>1. SettingsInv /\ [Next]_vars => SettingsInv'
  BY GetKeeps, SetClipKeeps, SaveKeeps, OpenKeeps, ApplyKeeps, TakeReplyKeeps, CloseKeeps,
     ToggleKeeps, OthersKeep, RestartKeeps, StutterKeeps DEF Next
<1> QED
  BY <1>1, InitSettingsInv, PTL DEF Spec

\* No silent degradation: whatever other programs do to the chord, also inside a
\* rebind, the shell publishes a conflict exactly when it does not hold it.
THEOREM HotkeyIsHonest == Spec => []HotkeyHonest
BY SettingsSafe, PTL DEF SettingsInv

\* No dump is written against the setting, whatever arming fails or is refused.
THEOREM ConsentIsKept == Spec => []ConsentHolds
BY SettingsSafe, PTL DEF SettingsInv

\* However many views, saves and switches are in flight, what the user chose is
\* in force, in the file, and on the page once nothing is in flight.
THEOREM ChoicesHold == Spec => []ChoicesAreKept
<1>1. SettingsInv => FileHonest
  <2> SUFFICES ASSUME SettingsInv, file.source = "shell", ~failed, ~conflict PROVE held = file.chord
    BY DEF FileHonest
  <2>1. file = mem /\ HotkeyHonest
    BY DEF SettingsInv, FileFollows
  <2> QED
    BY <2>1 DEF HotkeyHonest
<1>2. SettingsInv => ViewHonest
  <2>1. Len(<<>>) = 0
    BY EmptySeq
  <2> QED
    BY <2>1 DEF SettingsInv, ViewFollows, AtRest, Sent, Answered, ViewHonest
<1>3. SettingsInv => ChoicesAreKept
  BY <1>1, <1>2 DEF SettingsInv, ChoicesAreKept
<1> QED
  BY <1>3, SettingsSafe, PTL

-----------------------------------------------------------------------------
(* The tray.                                                               *)

PauseRequest == [epoch : Nat, pause : BOOLEAN]
TrayTyped ==
  /\ label \in BOOLEAN /\ service \in BOOLEAN /\ astray \in BOOLEAN
  /\ click \in {"none", "checked", "cut"} /\ link \in {"down", "numbered", "up"}
  /\ epoch \in Nat /\ sent \in Seq(PauseRequest) /\ wire \in Seq(PauseRequest)
  /\ ~touched => tick = run

\* No request is of a connection still to come, and one of this connection is behind
\* those of all others.
LastIsOurs(queue) ==
  /\ \A i \in DOMAIN queue : queue[i].epoch <= epoch
  /\ Ours(queue) # {} => queue[Len(queue)].epoch = epoch

\* What the service will have been told when everything on its way has arrived.
ToBe == IF Ours(sent) # {} THEN sent[Len(sent)].pause
        ELSE IF Ours(wire) # {} THEN wire[Len(wire)].pause ELSE service

\* Unless something else has settled it, that is what the label says, and nothing is
\* on its way without a connection.
LabelFollows ==
  /\ click = "checked" => link = "up"
  /\ ~astray => label = ToBe /\ (link # "up" => ~OnTheWay)

TrayInv == TrayTyped /\ LastIsOurs(sent) /\ LastIsOurs(wire) /\ LabelFollows

\* A request of this connection appended to a queue, one taken from its head.
LEMMA AskedMore ==
  ASSUME TrayInv, NEW s \in Seq(PauseRequest), LastIsOurs(s), NEW r \in PauseRequest, r.epoch = epoch
  PROVE  /\ Append(s, r) \in Seq(PauseRequest) /\ LastIsOurs(Append(s, r)) /\ Ours(Append(s, r)) # {}
         /\ Append(s, r)[Len(Append(s, r))] = r
<1> DEFINE t == Append(s, r)
<1>1. t \in Seq(PauseRequest) /\ Len(t) = Len(s) + 1 /\ t[Len(s) + 1] = r /\ \A i \in 1..Len(s) : t[i] = s[i]
  BY AppendFacts
<1>2. Len(s) \in Nat /\ DOMAIN t = 1..(Len(s) + 1) /\ DOMAIN s = 1..Len(s)
  BY <1>1
<1>3. epoch \in Nat
  BY DEF TrayInv, TrayTyped
<1> HIDE DEF t
<1>4. \A i \in DOMAIN t : t[i].epoch <= epoch
  BY <1>1, <1>2, <1>3 DEF LastIsOurs
<1>5. Len(s) + 1 \in Ours(t)
  BY <1>1, <1>2 DEF Ours
<1> QED
  BY <1>1, <1>4, <1>5 DEF LastIsOurs, t

LEMMA AskedLess ==
  ASSUME NEW s \in Seq(PauseRequest), s # <<>>, LastIsOurs(s)
  PROVE  /\ Tail(s) \in Seq(PauseRequest) /\ LastIsOurs(Tail(s)) /\ Head(s) \in PauseRequest
         /\ Ours(Tail(s)) # {} => Ours(s) # {} /\ Tail(s)[Len(Tail(s))] = s[Len(s)]
         /\ Head(s).epoch # epoch /\ Ours(s) # {} => Ours(Tail(s)) # {}
         /\ Head(s).epoch = epoch => Ours(s) # {}
         /\ Ours(s) # {} /\ Ours(Tail(s)) = {} => s[Len(s)] = Head(s) \/ s[Len(s)].epoch # epoch
<1> DEFINE t == Tail(s)
<1>1. /\ t \in Seq(PauseRequest) /\ Len(t) = Len(s) - 1 /\ Len(s) \in Nat \ {0}
      /\ Head(s) = s[1] /\ s[1] \in PauseRequest /\ \A i \in 1..Len(t) : t[i] = s[i + 1]
  BY TailFacts
<1>2. DOMAIN t = 1..(Len(s) - 1) /\ DOMAIN s = 1..Len(s)
  BY <1>1
<1> HIDE DEF t
<1>3. ASSUME NEW i \in DOMAIN t PROVE i + 1 \in DOMAIN s /\ t[i] = s[i + 1]
  BY <1>1, <1>2
<1>4. ASSUME NEW i \in Ours(t) PROVE i + 1 \in Ours(s)
  BY <1>3 DEF Ours
<1>5. Ours(t) # {} => Ours(s) # {} /\ t[Len(t)] = s[Len(s)]
  <2> SUFFICES ASSUME Ours(t) # {} PROVE Ours(s) # {} /\ t[Len(t)] = s[Len(s)]
    OBVIOUS
  <2>1. PICK i : i \in Ours(t)
    OBVIOUS
  <2>2. i \in DOMAIN t
    BY <2>1 DEF Ours
  <2>3. Len(t) \in 1..Len(t) /\ Len(t) + 1 = Len(s)
    BY <1>1, <1>2, <2>2
  <2> QED
    BY <2>1, <2>3, <1>4, <1>1
<1>6. ASSUME NEW i \in Ours(s), i # 1 PROVE i - 1 \in Ours(t)
  <2>1. i \in 2..Len(s) /\ s[i].epoch = epoch
    BY <1>1, <1>2, <1>6 DEF Ours
  <2>2. i - 1 \in 1..Len(t) /\ (i - 1) + 1 = i
    BY <2>1, <1>1
  <2>3. t[i - 1] = s[i]
    BY <2>2, <1>1
  <2> QED
    BY <2>1, <2>2, <2>3, <1>1, <1>2 DEF Ours
<1>7. LastIsOurs(t)
  BY <1>3, <1>5 DEF LastIsOurs
<1>8. Head(s).epoch # epoch /\ Ours(s) # {} => Ours(t) # {}
  BY <1>1, <1>6 DEF Ours
<1>9. Head(s).epoch = epoch => Ours(s) # {}
  BY <1>1, <1>2 DEF Ours
<1>10. Ours(s) # {} /\ Ours(t) = {} => s[Len(s)] = Head(s) \/ s[Len(s)].epoch # epoch
  <2> SUFFICES ASSUME Ours(t) = {}, s[Len(s)].epoch = epoch PROVE s[Len(s)] = Head(s)
    OBVIOUS
  <2>1. Len(s) \in Ours(s)
    BY <1>1, <1>2 DEF Ours
  <2> QED
    BY <2>1, <1>6, <1>1
<1> QED
  BY <1>1, <1>5, <1>7, <1>8, <1>9, <1>10 DEF t

\* One read from the middle, the first of its connection.
LEMMA Removed ==
  ASSUME NEW S, NEW s \in Seq(S), NEW i \in 1..Len(s)
  PROVE  LET t == SubSeq(s, 1, i - 1) \o SubSeq(s, i + 1, Len(s))
         IN  /\ t \in Seq(S) /\ Len(t) = Len(s) - 1
             /\ \A j \in 1..Len(t) : t[j] = IF j < i THEN s[j] ELSE s[j + 1]
<1> DEFINE a == SubSeq(s, 1, i - 1)
           b == SubSeq(s, i + 1, Len(s))
<1>0. Len(s) \in Nat /\ i \in Nat /\ 1 <= i /\ i <= Len(s)
  OBVIOUS
<1>1. a \in Seq(S) /\ Len(a) = i - 1 /\ \A j \in 1..(i - 1) : a[j] = s[j]
  BY <1>0, SubSeqProperties
<1>2. b \in Seq(S) /\ Len(b) = Len(s) - i /\ \A j \in 1..(Len(s) - i) : b[j] = s[i + j]
  BY <1>0, SubSeqProperties
<1> HIDE DEF a, b
<1>3. /\ a \o b \in Seq(S) /\ Len(a \o b) = Len(a) + Len(b)
      /\ \A j \in 1..(Len(a) + Len(b)) : (a \o b)[j] = IF j <= Len(a) THEN a[j] ELSE b[j - Len(a)]
  BY <1>1, <1>2, ConcatProperties
<1>4. ASSUME NEW j \in 1..(Len(s) - 1) PROVE (a \o b)[j] = IF j < i THEN s[j] ELSE s[j + 1]
  <2>1. (a \o b)[j] = IF j <= i - 1 THEN a[j] ELSE b[j - (i - 1)]
    BY <1>0, <1>1, <1>2, <1>3
  <2>2. CASE j < i
    BY <2>1, <2>2, <1>0, <1>1
  <2>3. CASE ~(j < i)
    <3>1. j - (i - 1) \in 1..(Len(s) - i) /\ i + (j - (i - 1)) = j + 1 /\ ~(j <= i - 1)
      BY <2>3, <1>0
    <3> QED
      BY <2>1, <2>3, <3>1, <1>2
  <2> QED
    BY <2>2, <2>3
<1>5. a \o b \in Seq(S) /\ Len(a \o b) = Len(s) - 1
  BY <1>0, <1>1, <1>2, <1>3
<1>6. \A j \in 1..Len(a \o b) : (a \o b)[j] = IF j < i THEN s[j] ELSE s[j + 1]
  BY <1>4, <1>5
<1> QED
  BY <1>5, <1>6, Zenon DEF a, b

LEMMA AskedRead ==
  ASSUME NEW s \in Seq(PauseRequest), LastIsOurs(s), NEW i \in DOMAIN s,
         \A j \in 1..(i - 1) : s[j].epoch # s[i].epoch
  PROVE  LET t == SubSeq(s, 1, i - 1) \o SubSeq(s, i + 1, Len(s))
         IN  /\ t \in Seq(PauseRequest) /\ LastIsOurs(t)
             /\ Ours(t) # {} => Ours(s) # {} /\ t[Len(t)] = s[Len(s)]
             /\ s[i].epoch = epoch /\ Ours(t) = {} => Ours(s) # {} /\ s[Len(s)] = s[i]
<1> DEFINE t == SubSeq(s, 1, i - 1) \o SubSeq(s, i + 1, Len(s))
           From(j) == IF j < i THEN j ELSE j + 1
<1>0. i \in 1..Len(s) /\ Len(s) \in Nat /\ DOMAIN s = 1..Len(s)
  OBVIOUS
<1>a. /\ t \in Seq(PauseRequest) /\ Len(t) = Len(s) - 1
      /\ \A j \in 1..Len(t) : t[j] = IF j < i THEN s[j] ELSE s[j + 1]
  BY <1>0, Removed, Zenon
<1> HIDE DEF t
<1>1. /\ t \in Seq(PauseRequest) /\ Len(t) = Len(s) - 1 /\ i \in 1..Len(s) /\ Len(s) \in Nat
      /\ \A j \in 1..Len(t) : t[j] = IF j < i THEN s[j] ELSE s[j + 1]
  BY <1>0, <1>a
<1>2. DOMAIN t = 1..(Len(s) - 1) /\ DOMAIN s = 1..Len(s)
  BY <1>0, <1>1
<1>3. ASSUME NEW j \in DOMAIN t PROVE From(j) \in DOMAIN s /\ t[j] = s[From(j)]
  BY <1>1, <1>2
<1>4. ASSUME NEW j \in Ours(t) PROVE From(j) \in Ours(s) /\ j \in 1..(Len(s) - 1)
  BY <1>2, <1>3 DEF Ours
<1>5. Ours(t) # {} => Ours(s) # {} /\ t[Len(t)] = s[Len(s)]
  <2> SUFFICES ASSUME NEW j \in Ours(t) PROVE Ours(s) # {} /\ t[Len(t)] = s[Len(s)]
    OBVIOUS
  <2>1. Ours(s) # {} /\ s[Len(s)].epoch = epoch /\ j \in 1..(Len(s) - 1)
    BY <1>4 DEF LastIsOurs
  <2>2. i # Len(s)
    <3> SUFFICES ASSUME i = Len(s) PROVE FALSE
      OBVIOUS
    <3>1. j \in 1..(i - 1) /\ t[j] = s[j]
      BY <2>1, <1>1, <1>2
    <3>2. s[j].epoch = epoch
      BY <3>1 DEF Ours
    <3> QED
      BY <3>1, <3>2, <2>1
  <2>3. Len(t) \in 1..Len(t) /\ ~(Len(t) < i) /\ Len(t) + 1 = Len(s)
    BY <2>1, <2>2, <1>1
  <2> QED
    BY <2>1, <2>3, <1>1
<1>6. LastIsOurs(t)
  <2>1. \A j \in DOMAIN t : t[j].epoch <= epoch
    BY <1>3 DEF LastIsOurs
  <2> QED
    BY <2>1, <1>5 DEF LastIsOurs
<1>7. s[i].epoch = epoch /\ Ours(t) = {} => Ours(s) # {} /\ s[Len(s)] = s[i]
  <2> SUFFICES ASSUME s[i].epoch = epoch, Ours(t) = {} PROVE Ours(s) # {} /\ s[Len(s)] = s[i]
    OBVIOUS
  <2>1. i \in Ours(s)
    BY DEF Ours
  <2>2. s[Len(s)].epoch = epoch
    BY <2>1 DEF LastIsOurs
  <2>3. i = Len(s)
    <3> SUFFICES ASSUME i # Len(s) PROVE FALSE
      OBVIOUS
    <3>1. Len(s) - 1 \in 1..Len(t) /\ ~(Len(s) - 1 < i) /\ (Len(s) - 1) + 1 = Len(s)
      BY <1>1
    <3>2. t[Len(s) - 1] = s[Len(s)]
      BY <3>1, <1>1
    <3>3. Len(s) - 1 \in Ours(t)
      BY <3>1, <3>2, <2>2, <1>1, <1>2 DEF Ours
    <3> QED
      BY <3>3
  <2> QED
    BY <2>1, <2>3
<1> QED
  BY <1>1, <1>5, <1>6, <1>7 DEF t

\* The two queues and the connection's number are as they were.
LEMMA QueuesStay ==
  ASSUME epoch' = epoch, sent' = sent, wire' = wire
  PROVE  /\ Ours(sent)' = Ours(sent) /\ Ours(wire)' = Ours(wire) /\ OnTheWay' = OnTheWay
         /\ LastIsOurs(sent)' = LastIsOurs(sent) /\ LastIsOurs(wire)' = LastIsOurs(wire)
         /\ service' = service => ToBe' = ToBe
BY DEF Ours, OnTheWay, LastIsOurs, ToBe

LEMMA TrayStart == TrayInit => TrayInv
<1> SUFFICES ASSUME TrayInit PROVE TrayInv
  OBVIOUS
<1>1. sent = <<>> /\ wire = <<>> /\ DOMAIN sent = {} /\ DOMAIN wire = {}
  BY DEF TrayInit
<1>2. Ours(sent) = {} /\ Ours(wire) = {}
  BY <1>1 DEF Ours
<1>3. LastIsOurs(sent) /\ LastIsOurs(wire)
  BY <1>1, <1>2 DEF LastIsOurs
<1>4. TrayTyped
  <2>1. sent \in Seq(PauseRequest) /\ wire \in Seq(PauseRequest)
    BY <1>1
  <2> QED
    BY <2>1 DEF TrayInit, TrayTyped
<1>5. LabelFollows
  BY <1>2 DEF TrayInit, LabelFollows, ToBe, OnTheWay
<1> QED
  BY <1>3, <1>4, <1>5 DEF TrayInv

LEMMA AskKeeps == ASSUME TrayInv, AskPause PROVE TrayInv'
<1>1. UNCHANGED <<label, astray, link, epoch, sent, wire, service, tick, run, touched>>
  BY DEF AskPause, channel, autostart
<1>2. TrayTyped' /\ LabelFollows'
  BY <1>1, QueuesStay DEF TrayInv, TrayTyped, LabelFollows, AskPause
<1> QED
  BY <1>1, <1>2, QueuesStay DEF TrayInv

LEMMA SendKeeps == ASSUME TrayInv, SendPause PROVE TrayInv'
<1> DEFINE r == [epoch |-> epoch, pause |-> ~label]
<1>1. /\ UNCHANGED <<link, epoch, wire, service, tick, run, touched>>
      /\ sent' = Append(sent, r) /\ label' = ~label /\ click' = "none" /\ astray' = (click = "cut")
      /\ click # "none"
  BY DEF SendPause, autostart
<1>2. sent \in Seq(PauseRequest) /\ wire \in Seq(PauseRequest) /\ LastIsOurs(sent) /\ label \in BOOLEAN
  BY DEF TrayInv, TrayTyped
<1>3. r \in PauseRequest /\ r.epoch = epoch /\ r.pause = ~label
  BY DEF TrayInv, TrayTyped, PauseRequest
<1> HIDE DEF r
<1>4. /\ sent' \in Seq(PauseRequest) /\ LastIsOurs(sent') /\ Ours(sent') # {} /\ sent'[Len(sent')] = r
  BY <1>1, <1>2, <1>3, AskedMore
<1>5. Ours(sent)' = Ours(sent') /\ LastIsOurs(sent)' /\ LastIsOurs(wire)' /\ Ours(sent)' # {}
  BY <1>1, <1>4 DEF Ours, LastIsOurs, TrayInv
<1>6. ToBe' = r.pause
  BY <1>4, <1>5 DEF ToBe
<1>7. TrayTyped'
  BY <1>1, <1>2, <1>4 DEF TrayInv, TrayTyped
<1>8. ~astray' => link' = "up"
  BY <1>1 DEF TrayInv, TrayTyped, LabelFollows
<1>9. LabelFollows'
  BY <1>1, <1>3, <1>6, <1>8 DEF LabelFollows
<1> QED
  BY <1>5, <1>7, <1>9 DEF TrayInv

LEMMA WriterKeeps == ASSUME TrayInv, WriterTakes PROVE TrayInv'
<1>1. /\ UNCHANGED <<label, click, astray, link, epoch, service, tick, run, touched>>
      /\ sent # <<>> /\ sent' = Tail(sent)
      /\ wire' = IF ToUs THEN Append(wire, Head(sent)) ELSE wire
  BY DEF WriterTakes, pausing, autostart
<1>2. sent \in Seq(PauseRequest) /\ wire \in Seq(PauseRequest) /\ LastIsOurs(sent) /\ LastIsOurs(wire)
  BY DEF TrayInv, TrayTyped
<1>3. /\ sent' \in Seq(PauseRequest) /\ LastIsOurs(sent') /\ Head(sent) \in PauseRequest
      /\ Ours(sent') # {} => Ours(sent) # {} /\ sent'[Len(sent')] = sent[Len(sent)]
      /\ Head(sent).epoch # epoch /\ Ours(sent) # {} => Ours(sent') # {}
      /\ Head(sent).epoch = epoch => Ours(sent) # {}
      /\ Ours(sent) # {} /\ Ours(sent') = {} => sent[Len(sent)] = Head(sent) \/ sent[Len(sent)].epoch # epoch
  BY <1>1, <1>2, AskedLess
<1>4. /\ Ours(sent)' = Ours(sent') /\ Ours(wire)' = Ours(wire')
      /\ LastIsOurs(sent)' = LastIsOurs(sent') /\ LastIsOurs(wire)' = LastIsOurs(wire')
  BY <1>1 DEF Ours, LastIsOurs
<1>5. CASE ToUs
  <2>1. /\ wire' \in Seq(PauseRequest) /\ LastIsOurs(wire') /\ Ours(wire') # {} /\ wire'[Len(wire')] = Head(sent)
    BY <1>1, <1>2, <1>3, <1>5, AskedMore DEF ToUs
  <2>2. sent[Len(sent)].epoch = epoch /\ Ours(sent) # {}
    BY <1>2, <1>3, <1>5 DEF LastIsOurs, ToUs
  <2>3. ToBe' = ToBe
    <3>1. ToBe = sent[Len(sent)].pause
      BY <2>2 DEF ToBe
    <3>2. CASE Ours(sent') # {}
      BY <1>3, <1>4, <3>1, <3>2 DEF ToBe
    <3>3. CASE Ours(sent') = {}
      BY <1>3, <1>4, <2>1, <2>2, <3>1, <3>3 DEF ToBe
    <3> QED
      BY <3>2, <3>3
  <2>4. TrayTyped' /\ LabelFollows'
    BY <1>1, <1>3, <1>5, <2>1, <2>3 DEF TrayInv, TrayTyped, LabelFollows, ToUs
  <2> QED
    BY <1>3, <1>4, <2>1, <2>4 DEF TrayInv
<1>6. CASE ~ToUs
  <2>1. wire' = wire /\ Ours(wire') = Ours(wire)
    BY <1>1, <1>6
  <2>2. CASE astray
    BY <1>1, <1>2, <1>3, <1>4, <2>1, <2>2 DEF TrayInv, TrayTyped, LabelFollows
  <2>3. CASE ~astray
    <3>1. link # "up" => Ours(sent) = {} /\ Ours(wire) = {}
      BY <2>3 DEF TrayInv, LabelFollows, OnTheWay
    <3>2. link = "up" => (Ours(sent) # {} <=> Ours(sent') # {})
      BY <1>1, <1>3, <1>6 DEF ToUs
    <3>3. Ours(sent) # {} <=> Ours(sent') # {}
      BY <1>3, <3>1, <3>2
    <3>4. ToBe' = ToBe
      BY <1>1, <1>3, <1>4, <2>1, <3>3 DEF ToBe
    <3>5. OnTheWay' <=> OnTheWay
      BY <1>4, <2>1, <3>3 DEF OnTheWay
    <3>6. TrayTyped' /\ LabelFollows'
      BY <1>1, <1>3, <2>1, <3>4, <3>5 DEF TrayInv, TrayTyped, LabelFollows
    <3> QED
      BY <1>2, <1>3, <1>4, <2>1, <3>6 DEF TrayInv
  <2> QED
    BY <2>2, <2>3
<1> QED
  BY <1>5, <1>6

LEMMA EndsKeep ==
  ASSUME TrayInv, Ends, UNCHANGED <<wire, service, autostart>>,
         sent' \in Seq(PauseRequest), LastIsOurs(sent)', astray' \in BOOLEAN,
         ~astray' => ~astray /\ ~OnTheWay /\ sent' = sent
  PROVE  TrayInv'
<1>1. /\ link = "up" /\ link' = "down" /\ epoch' = epoch /\ label' = label
      /\ click' = IF click = "none" THEN "none" ELSE "cut"
  BY DEF Ends
<1>2. UNCHANGED <<wire, service, tick, run, touched>>
  BY DEF autostart
<1>3. LastIsOurs(wire)'
  BY <1>1, <1>2 DEF LastIsOurs, Ours, TrayInv
<1>4. TrayTyped'
  BY <1>1, <1>2 DEF TrayInv, TrayTyped
<1>5. ~astray' => label' = ToBe' /\ ~OnTheWay'
  <2> SUFFICES ASSUME ~astray' PROVE label' = ToBe' /\ ~OnTheWay'
    OBVIOUS
  <2>1. ToBe' = ToBe /\ OnTheWay' = OnTheWay
    BY <1>1, <1>2, QueuesStay
  <2> QED
    BY <1>1, <2>1 DEF TrayInv, LabelFollows
<1>6. LabelFollows'
  BY <1>1, <1>5 DEF LabelFollows
<1> QED
  BY <1>3, <1>4, <1>6 DEF TrayInv

LEMMA DropKeeps == ASSUME TrayInv, Drops PROVE TrayInv'
<1>1. Ends /\ astray' = (astray \/ OnTheWay) /\ UNCHANGED <<sent, wire, service, autostart>>
  BY DEF Drops
<1>2. epoch' = epoch
  BY <1>1 DEF Ends
<1>3. LastIsOurs(sent)' /\ sent' \in Seq(PauseRequest)
  BY <1>1, <1>2 DEF LastIsOurs, Ours, TrayInv, TrayTyped
<1>4. astray' \in BOOLEAN /\ (~astray' => ~astray /\ ~OnTheWay)
  BY <1>1 DEF TrayInv, TrayTyped
<1> QED
  BY <1>1, <1>3, <1>4, EndsKeep

LEMMA FailKeeps == ASSUME TrayInv, WriteFails PROVE TrayInv'
<1>1. /\ Ends /\ sent # <<>> /\ sent' = Tail(sent) /\ astray' = TRUE
      /\ UNCHANGED <<wire, service, autostart>>
  BY DEF WriteFails, ToUs
<1>2. epoch' = epoch
  BY <1>1 DEF Ends
<1>3. sent' \in Seq(PauseRequest) /\ LastIsOurs(sent')
  BY <1>1, AskedLess DEF TrayInv, TrayTyped
<1>4. LastIsOurs(sent)'
  BY <1>2, <1>3 DEF LastIsOurs, Ours
<1> QED
  BY <1>1, <1>3, <1>4, EndsKeep

\* No request is of the connection just numbered.
LEMMA NumberKeeps == ASSUME TrayInv, Numbers PROVE TrayInv'
<1>1. /\ link = "down" /\ link' = "numbered" /\ epoch' = epoch + 1 /\ epoch \in Nat
      /\ UNCHANGED <<label, click, astray, sent, wire, service, tick, run, touched>>
  BY DEF Numbers, pausing, autostart, TrayInv, TrayTyped
<1>2. ASSUME NEW s \in Seq(PauseRequest), LastIsOurs(s)
      PROVE  Ours(s)' = {} /\ LastIsOurs(s)'
  <2>2. ASSUME NEW i \in DOMAIN s PROVE s[i].epoch <= epoch' /\ s[i].epoch # epoch'
    <3>1. s[i] \in PauseRequest
      OBVIOUS
    <3>2. s[i].epoch \in Nat
      BY <3>1 DEF PauseRequest
    <3>3. s[i].epoch <= epoch
      BY <1>2 DEF LastIsOurs
    <3> QED
      BY <1>1, <3>2, <3>3
  <2>3. Ours(s)' = {}
    BY <2>2 DEF Ours
  <2> QED
    BY <2>2, <2>3 DEF LastIsOurs
<1>3. Ours(sent)' = {} /\ Ours(wire)' = {} /\ LastIsOurs(sent)' /\ LastIsOurs(wire)'
  BY <1>1, <1>2 DEF TrayInv, TrayTyped
<1>4. TrayTyped'
  BY <1>1 DEF TrayInv, TrayTyped
<1>5. ~astray => label = service
  BY <1>1 DEF TrayInv, LabelFollows, ToBe, OnTheWay
<1>6. LabelFollows'
  BY <1>1, <1>3, <1>5 DEF TrayInv, LabelFollows, ToBe, OnTheWay
<1> QED
  BY <1>3, <1>4, <1>6 DEF TrayInv

LEMMA ConnectKeeps == ASSUME TrayInv, Connects PROVE TrayInv'
<1>1. /\ link = "numbered" /\ link' = "up"
      /\ UNCHANGED <<label, click, astray, epoch, sent, wire, service, tick, run, touched>>
  BY DEF Connects, pausing, autostart
<1>2. TrayTyped' /\ LabelFollows'
  BY <1>1, QueuesStay DEF TrayInv, TrayTyped, LabelFollows
<1> QED
  BY <1>1, <1>2, QueuesStay DEF TrayInv

LEMMA ReadKeeps == ASSUME TrayInv, ServiceReads PROVE TrayInv'
<1>1. PICK i \in DOMAIN wire :
        /\ \A j \in 1..(i - 1) : wire[j].epoch # wire[i].epoch
        /\ wire' = SubSeq(wire, 1, i - 1) \o SubSeq(wire, i + 1, Len(wire))
        /\ service' = wire[i].pause
        /\ astray' = (astray \/ wire[i].epoch # epoch)
        /\ UNCHANGED <<label, click, link, epoch, peer, sent, autostart>>
  BY DEF ServiceReads
<1>2. UNCHANGED <<label, click, link, epoch, sent, tick, run, touched>>
  BY <1>1 DEF autostart
<1>3. wire \in Seq(PauseRequest) /\ LastIsOurs(wire) /\ wire[i] \in PauseRequest
  BY DEF TrayInv, TrayTyped
<1>4. /\ wire' \in Seq(PauseRequest) /\ LastIsOurs(wire')
      /\ Ours(wire') # {} => Ours(wire) # {} /\ wire'[Len(wire')] = wire[Len(wire)]
      /\ wire[i].epoch = epoch /\ Ours(wire') = {} => Ours(wire) # {} /\ wire[Len(wire)] = wire[i]
  BY <1>1, <1>3, AskedRead
<1>5. /\ Ours(sent)' = Ours(sent) /\ Ours(wire)' = Ours(wire')
      /\ LastIsOurs(sent)' = LastIsOurs(sent) /\ LastIsOurs(wire)' = LastIsOurs(wire')
  BY <1>2 DEF Ours, LastIsOurs
<1>6. TrayTyped'
  BY <1>1, <1>2, <1>3, <1>4 DEF TrayInv, TrayTyped, PauseRequest
<1>7. LabelFollows'
  <2>1. CASE astray'
    BY <1>2, <2>1 DEF TrayInv, LabelFollows
  <2>2. CASE ~astray'
    <3>1. ~astray /\ wire[i].epoch = epoch
      BY <1>1, <2>2
    <3>2. ToBe' = ToBe
      <4>1. CASE Ours(sent) # {}
        BY <1>2, <1>5, <4>1 DEF ToBe
      <4>2. CASE Ours(sent) = {} /\ Ours(wire') # {}
        BY <1>4, <1>5, <4>2 DEF ToBe
      <4>3. CASE Ours(sent) = {} /\ Ours(wire') = {}
        BY <1>1, <1>4, <1>5, <3>1, <4>3 DEF ToBe
      <4> QED
        BY <4>1, <4>2, <4>3
    <3>3. OnTheWay' => OnTheWay
      BY <1>4, <1>5 DEF OnTheWay
    <3> QED
      BY <1>2, <3>1, <3>2, <3>3 DEF TrayInv, LabelFollows
  <2> QED
    BY <2>1, <2>2
<1> QED
  BY <1>4, <1>5, <1>6, <1>7 DEF TrayInv

LEMMA OthersAskKeeps == ASSUME TrayInv, OthersAsk PROVE TrayInv'
<1>1. /\ UNCHANGED <<label, click, link, epoch, sent, wire, tick, run, touched>>
      /\ service' = ~service /\ astray' = TRUE
  BY DEF OthersAsk, channel, autostart
<1>2. TrayTyped' /\ LabelFollows'
  BY <1>1 DEF TrayInv, TrayTyped, LabelFollows
<1> QED
  BY <1>1, <1>2, QueuesStay DEF TrayInv

LEMMA RestartForgets == ASSUME TrayInv, ServiceRestarts PROVE TrayInv'
<1>1. /\ UNCHANGED <<label, click, link, epoch, sent, tick, run, touched>>
      /\ service' = FALSE /\ wire' = <<>> /\ astray' = (astray \/ service \/ wire # <<>>)
  BY DEF ServiceRestarts, autostart
<1>2. DOMAIN wire' = {} /\ wire' \in Seq(PauseRequest)
  BY <1>1
<1>3. /\ Ours(sent)' = Ours(sent) /\ LastIsOurs(sent)' = LastIsOurs(sent)
      /\ Ours(wire)' = {} /\ LastIsOurs(wire)'
  BY <1>1, <1>2 DEF Ours, LastIsOurs
<1>4. TrayTyped'
  BY <1>1, <1>2 DEF TrayInv, TrayTyped
<1>5. LabelFollows'
  <2>1. CASE astray'
    BY <1>1, <2>1 DEF TrayInv, LabelFollows
  <2>2. CASE ~astray'
    <3>1. ~astray /\ service = FALSE /\ wire = <<>>
      BY <1>1, <2>2 DEF TrayInv, TrayTyped
    <3>2. Ours(wire) = {}
      BY <3>1 DEF Ours
    <3> QED
      BY <1>1, <1>3, <3>1, <3>2 DEF TrayInv, LabelFollows, ToBe, OnTheWay
  <2> QED
    BY <2>1, <2>2
<1> QED
  BY <1>3, <1>4, <1>5 DEF TrayInv

LEMMA AutostartKeeps ==
  ASSUME TrayInv, ToggleAutostart \/ SetAutostart \/ UNCHANGED trayVars PROVE TrayInv'
<1>1. UNCHANGED <<label, click, astray, link, epoch, sent, wire, service>>
  BY DEF ToggleAutostart, SetAutostart, trayVars, pausing, channel
<1>2. ~touched' => tick' = run'
  BY DEF ToggleAutostart, SetAutostart, trayVars, autostart, TrayInv, TrayTyped
<1>3. TrayTyped' /\ LabelFollows'
  BY <1>1, <1>2, QueuesStay DEF TrayInv, TrayTyped, LabelFollows
<1> QED
  BY <1>1, <1>3, QueuesStay DEF TrayInv

THEOREM TrayInvariant == TraySpec => []TrayInv
<1>1. TrayInv /\ [TrayNext]_trayVars => TrayInv'
  BY AskKeeps, SendKeeps, WriterKeeps, DropKeeps, FailKeeps, NumberKeeps, ConnectKeeps, ReadKeeps,
     OthersAskKeeps, RestartForgets, AutostartKeeps DEF TrayNext
<1> QED
  BY <1>1, TrayStart, PTL DEF TraySpec

\* The tray's label says what the service holds once what was asked has arrived, over
\* any number of connections and requests, and its tick what the registry holds.
THEOREM TrayIsTrue == TraySpec => []TrayIsHonest
<1>1. TrayInv => TrayIsHonest
  BY DEF TrayInv, TrayTyped, LabelFollows, TrayIsHonest, ToBe, OnTheWay
<1> QED
  BY <1>1, TrayInvariant, PTL

-----------------------------------------------------------------------------
(* The fallback's answer.                                                  *)

Late == {"fetch", "row", "release"}
SearchTyped ==
  /\ blank \in BOOLEAN /\ max \in Nat /\ rowset \in Seq(RowKinds)
  /\ step \in {"search", "call", "fetch", "data", "end", "done"}
  /\ at \in Nat /\ upto \in Nat /\ at <= upto /\ upto <= Len(rowset)
  /\ hits \in Seq(Nat) /\ fetch_error \in Late \union {"none"}

\* The hits are the rows with a path among those read, in their order.
HitsAreRead ==
  /\ \A i, j \in 1..Len(hits) : i < j => hits[i] < hits[j]
  /\ \A i \in 1..Len(hits) : hits[i] \in 1..at /\ rowset[hits[i]] = "path"
  /\ \A r \in 1..at : rowset[r] = "path" => \E i \in 1..Len(hits) : hits[i] = r

\* What fails while rows are read is noted; no batch brings more than is wanted; and
\* there are three reasons to stop.
UnderWay ==
  /\ broke \subseteq Late /\ (fetch_error = "none" <=> broke = {})
  /\ HitsAreRead /\ Len(hits) + (upto - at) <= max
  /\ step \in {"search", "call"} => hits = <<>> /\ broke = {} /\ at = 0 /\ upto = 0
  /\ step = "end" => broke # {} \/ Len(hits) >= max \/ at = Len(rowset)

SearchInv == SearchTyped /\ (step # "done" => UnderWay) /\ FallbackIsHonest

LEMMA SearchStart == SearchInit => SearchInv
<1> SUFFICES ASSUME SearchInit PROVE SearchInv
  OBVIOUS
<1>1. /\ step = "search" /\ at = 0 /\ upto = 0 /\ hits = <<>> /\ fetch_error = "none" /\ broke = {}
      /\ max \in Nat /\ blank \in BOOLEAN
  BY SearchAssumption DEF SearchInit
<1>2. rowset \in Seq(RowKinds) /\ Len(rowset) \in Nat /\ Len(hits) = 0 /\ hits \in Seq(Nat)
  <2>1. PICK n \in 0..MaxRows : rowset \in [1..n -> RowKinds]
    BY DEF SearchInit
  <2>2. n \in Nat
    BY SearchAssumption
  <2> QED
    BY <1>1, <2>1, <2>2
<1>3. SearchTyped
  BY <1>1, <1>2 DEF SearchTyped
<1>4. HitsAreRead
  BY <1>1, <1>2 DEF HitsAreRead
<1>5. UnderWay
  BY <1>1, <1>2, <1>4 DEF UnderWay
<1> QED
  BY <1>1, <1>3, <1>5 DEF SearchInv, FallbackIsHonest

\* An answer without hits.
LEMMA NoHits ==
  ASSUME NEW a, a.hits = <<>>, answer' = a, step' = "done",
         a.kind = "unavailable" <=> broke' \cap Absent # {},
         a = Hits(<<>>) => broke' = {}, max \in Nat, max' = max,
         broke' = {} /\ ~blank' => max = 0 \/ rowset' = <<>>
  PROVE  FallbackIsHonest'
<1>1. Len(<<>>) = 0 /\ DOMAIN <<>> = {}
  OBVIOUS
<1>2. rowset' = <<>> => DOMAIN rowset' = {}
  OBVIOUS
<1> QED
  BY <1>1, <1>2 DEF FallbackIsHonest, Found, Hits

LEMMA AskedForNothing == ASSUME SearchInv, Search PROVE SearchInv'
<1>1. /\ step = "search" /\ UnderWay /\ UNCHANGED <<blank, max, rowset, at, upto, hits, fetch_error, broke>>
  BY DEF Search, SearchInv, query, reading
<1>2. SearchTyped'
  BY <1>1 DEF SearchInv, SearchTyped, Search, Answers
<1>3. CASE blank \/ max = 0
  <2>1. answer' = Hits(<<>>) /\ step' = "done" /\ broke' = {}
    BY <1>1, <1>3 DEF Search, Answers, UnderWay
  <2>2. Hits(<<>>).hits = <<>> /\ Hits(<<>>).kind = "ok"
    BY DEF Hits
  <2>3. FallbackIsHonest'
    BY <1>1, <1>3, <2>1, <2>2, NoHits DEF SearchInv, SearchTyped
  <2> QED
    BY <1>2, <2>1, <2>3 DEF SearchInv
<1>4. CASE ~(blank \/ max = 0)
  <2>1. step' = "call"
    BY <1>4 DEF Search
  <2>2. UnderWay'
    BY <1>1, <2>1 DEF UnderWay, HitsAreRead
  <2> QED
    BY <1>2, <2>1, <2>2 DEF SearchInv, FallbackIsHonest
<1> QED
  BY <1>3, <1>4

LEMMA CallFails == ASSUME SearchInv, Fails PROVE SearchInv'
<1> DEFINE c == Calls[made + 1]
<1>1. /\ step = "call" /\ step' = "done" /\ answer' = Failure(c) /\ broke' = {c}
      /\ UNCHANGED <<blank, max, rowset, at, upto, hits, fetch_error>>
  BY DEF Fails, Answers, query, reading
<1> HIDE DEF c
<1>2. Failure(c).hits = <<>> /\ (Failure(c).kind = "unavailable" <=> c \in Absent) /\ Failure(c) # Hits(<<>>)
  BY DEF Failure, Hits
<1>3. broke' # {} /\ (broke' \cap Absent # {} <=> c \in Absent)
  BY <1>1
<1>4. FallbackIsHonest'
  BY <1>1, <1>2, <1>3, NoHits DEF SearchInv, SearchTyped
<1>5. SearchTyped'
  BY <1>1 DEF SearchInv, SearchTyped
<1> QED
  BY <1>1, <1>4, <1>5 DEF SearchInv

LEMMA CallSucceeds == ASSUME SearchInv, Succeeds PROVE SearchInv'
<1>1. /\ step = "call" /\ step' \in {"call", "fetch"}
      /\ UNCHANGED <<blank, max, rowset, at, upto, hits, fetch_error, answer, broke>>
  BY DEF Succeeds, query, reading
<1>2. SearchTyped' /\ UnderWay'
  BY <1>1 DEF SearchInv, SearchTyped, UnderWay, HitsAreRead
<1> QED
  BY <1>1, <1>2 DEF SearchInv, FallbackIsHonest

LEMMA NothingToRead == ASSUME SearchInv, NoRowset PROVE SearchInv'
<1>1. /\ step = "call" /\ step' = "done" /\ answer' = Hits(<<>>) /\ rowset' = <<>> /\ UnderWay
      /\ UNCHANGED <<blank, max, at, upto, hits, fetch_error, broke>>
  BY DEF NoRowset, Answers, query, reading, SearchInv
<1>2. broke' = {} /\ at' = 0 /\ upto' = 0
  BY <1>1 DEF UnderWay
<1>3. Hits(<<>>).hits = <<>> /\ Hits(<<>>).kind = "ok"
  BY DEF Hits
<1>4. FallbackIsHonest'
  BY <1>1, <1>2, <1>3, NoHits DEF SearchInv, SearchTyped
<1>5. rowset' \in Seq(RowKinds) /\ Len(rowset') = 0
  BY <1>1
<1>6. SearchTyped'
  BY <1>1, <1>2, <1>5 DEF SearchInv, SearchTyped
<1> QED
  BY <1>1, <1>4, <1>6 DEF SearchInv

LEMMA FetchKeeps == ASSUME SearchInv, FetchRows PROVE SearchInv'
<1>1. /\ step = "fetch" /\ Len(hits) < max /\ UnderWay
      /\ UNCHANGED <<blank, max, rowset, at, hits, fetch_error, broke>>
  BY DEF FetchRows, Reading, query, SearchInv
<1>2. PICK n \in 0..Want :
        /\ at + n <= Len(rowset) /\ (n = 0 => at = Len(rowset))
        /\ upto' = at + n /\ step' = IF n = 0 THEN "end" ELSE "data"
  BY DEF FetchRows
<1>3. at \in Nat /\ max \in Nat /\ Len(hits) \in Nat /\ Len(rowset) \in Nat
  BY DEF SearchInv, SearchTyped
<1>4. n \in Nat /\ n <= max - Len(hits)
  BY <1>1, <1>3, SearchAssumption DEF Want
<1>5. Len(hits) + (upto' - at) <= max /\ upto' \in Nat /\ at <= upto' /\ upto' <= Len(rowset)
  BY <1>2, <1>3, <1>4
<1>6. SearchTyped'
  BY <1>1, <1>2, <1>5 DEF SearchInv, SearchTyped
<1>7. UnderWay'
  BY <1>1, <1>2, <1>5 DEF UnderWay, HitsAreRead
<1> QED
  BY <1>2, <1>6, <1>7 DEF SearchInv, FallbackIsHonest

LEMMA FetchStops == ASSUME SearchInv, FetchFails \/ Enough PROVE SearchInv'
<1>1. /\ step = "fetch" /\ step' = "end" /\ UnderWay /\ UNCHANGED <<blank, max, rowset, at, upto, hits>>
  BY DEF FetchFails, Enough, Reading, query, reading, SearchInv
<1>2. /\ fetch_error' \in Late \union {"none"} /\ broke' \subseteq Late
      /\ fetch_error' = "none" <=> broke' = {}
      /\ broke' # {} \/ Len(hits) >= max
  BY <1>1 DEF FetchFails, Enough, Notes, reading, SearchInv, SearchTyped, UnderWay, Late
<1>3. SearchTyped' /\ UnderWay'
  BY <1>1, <1>2 DEF SearchInv, SearchTyped, UnderWay, HitsAreRead
<1> QED
  BY <1>1, <1>3 DEF SearchInv, FallbackIsHonest

LEMMA ReleaseKeeps == ASSUME SearchInv, ReleaseRows PROVE SearchInv'
<1>1. /\ step = "data" /\ step' = "fetch" /\ UnderWay /\ UNCHANGED <<blank, max, rowset, at, upto, hits>>
  BY DEF ReleaseRows, Reading, query, SearchInv
<1>2. /\ fetch_error' \in Late \union {"none"} /\ broke' \subseteq Late
      /\ fetch_error' = "none" <=> broke' = {}
  BY <1>1 DEF ReleaseRows, Notes, SearchInv, SearchTyped, UnderWay, Late
<1>3. SearchTyped' /\ UnderWay'
  BY <1>1, <1>2 DEF SearchInv, SearchTyped, UnderWay, HitsAreRead
<1> QED
  BY <1>1, <1>3 DEF SearchInv, FallbackIsHonest

LEMMA DataKeeps == ASSUME SearchInv, GetData PROVE SearchInv'
<1> DEFINE row == at + 1
<1>1. /\ step = "data" /\ step' = "data" /\ at < upto /\ at' = row /\ UnderWay
      /\ hits' = IF rowset[row] = "path" THEN Append(hits, row) ELSE hits
      /\ UNCHANGED <<blank, max, rowset, upto>>
  BY DEF GetData, Reading, query, SearchInv
<1>2. /\ fetch_error' \in Late \union {"none"} /\ broke' \subseteq Late
      /\ fetch_error' = "none" <=> broke' = {}
  BY <1>1 DEF GetData, Notes, SearchInv, SearchTyped, UnderWay, Late
<1>3. at \in Nat /\ upto \in Nat /\ upto <= Len(rowset) /\ hits \in Seq(Nat) /\ Len(hits) \in Nat
  BY DEF SearchInv, SearchTyped
<1>4. row \in Nat /\ row <= upto /\ at < row /\ 1..row = 1..at \union {row}
  BY <1>1, <1>3
<1>5. HitsAreRead
  BY <1>1 DEF UnderWay
<1>6. ASSUME rowset[row] = "path"
      PROVE  HitsAreRead' /\ hits' \in Seq(Nat) /\ Len(hits') = Len(hits) + 1
  <2>1. /\ hits' \in Seq(Nat) /\ Len(hits') = Len(hits) + 1 /\ hits'[Len(hits) + 1] = row
        /\ \A i \in 1..Len(hits) : hits'[i] = hits[i]
    BY <1>1, <1>3, <1>4, <1>6
  <2>2. 1..Len(hits') = 1..Len(hits) \union {Len(hits) + 1}
    BY <1>3, <2>1
  <2> HIDE DEF row
  <2>3. ASSUME NEW i \in 1..Len(hits'), NEW j \in 1..Len(hits'), i < j PROVE hits'[i] < hits'[j]
    <3>1. i \in 1..Len(hits) /\ hits'[i] = hits[i] /\ hits[i] \in 1..at
      BY <1>3, <1>5, <2>1, <2>2, <2>3 DEF HitsAreRead
    <3>2. CASE j \in 1..Len(hits)
      BY <1>5, <2>1, <2>3, <3>1, <3>2 DEF HitsAreRead
    <3>3. CASE j = Len(hits) + 1
      BY <1>3, <1>4, <2>1, <3>1, <3>3
    <3> QED
      BY <2>2, <3>2, <3>3
  <2>4. ASSUME NEW i \in 1..Len(hits') PROVE hits'[i] \in 1..row /\ rowset[hits'[i]] = "path"
    <3>1. CASE i \in 1..Len(hits)
      BY <1>4, <1>5, <2>1, <3>1 DEF HitsAreRead
    <3>2. CASE i = Len(hits) + 1
      BY <1>4, <1>6, <2>1, <3>2
    <3> QED
      BY <2>2, <3>1, <3>2
  <2>5. ASSUME NEW r \in 1..row, rowset[r] = "path" PROVE \E i \in 1..Len(hits') : hits'[i] = r
    <3>1. CASE r \in 1..at
      BY <1>5, <2>1, <2>2, <2>5, <3>1 DEF HitsAreRead
    <3>2. CASE r = row
      BY <2>1, <2>2, <3>2
    <3> QED
      BY <1>4, <3>1, <3>2
  <2>6. HitsAreRead'
    BY <1>1, <2>3, <2>4, <2>5 DEF HitsAreRead
  <2> QED
    BY <2>1, <2>6
<1>7. ASSUME rowset[row] # "path"
      PROVE  HitsAreRead' /\ hits' \in Seq(Nat) /\ Len(hits') = Len(hits)
  <2>1. hits' = hits
    BY <1>1, <1>7
  <2> HIDE DEF row
  <2>2. \A r \in 1..row : rowset[r] = "path" => r \in 1..at
    BY <1>4, <1>7
  <2>3. HitsAreRead'
    BY <1>1, <1>4, <1>5, <2>1, <2>2 DEF HitsAreRead
  <2> QED
    BY <1>3, <2>1, <2>3
<1>8. HitsAreRead' /\ hits' \in Seq(Nat) /\ Len(hits') \in Nat /\ Len(hits') <= Len(hits) + 1
  BY <1>3, <1>6, <1>7
<1>9. Len(hits') + (upto' - at') <= max'
  <2>1. Len(hits) + (upto - at) <= max /\ max \in Nat
    BY <1>1 DEF UnderWay, SearchInv, SearchTyped
  <2> QED
    BY <1>1, <1>3, <1>8, <2>1
<1>10. SearchTyped'
  BY <1>1, <1>2, <1>3, <1>4, <1>8 DEF SearchInv, SearchTyped
<1>11. UnderWay'
  BY <1>1, <1>2, <1>8, <1>9 DEF UnderWay
<1> QED
  BY <1>1, <1>10, <1>11 DEF SearchInv, FallbackIsHonest

LEMMA AnswerKeeps == ASSUME SearchInv, ReadRows PROVE SearchInv'
<1>1. /\ step = "end" /\ step' = "done" /\ UnderWay
      /\ answer' = IF hits = <<>> /\ fetch_error # "none" THEN Failure(fetch_error) ELSE Hits(hits)
      /\ UNCHANGED <<blank, max, rowset, at, upto, hits, fetch_error, broke>>
  BY DEF ReadRows, Answers, Reading, query, reading, SearchInv
<1>2. SearchTyped'
  BY <1>1 DEF SearchInv, SearchTyped
<1>3. fetch_error \notin Absent /\ broke \cap Absent = {}
  BY <1>1 DEF SearchInv, SearchTyped, UnderWay, Late, Absent
<1>4. max \in Nat /\ hits \in Seq(Nat) /\ Len(hits) \in Nat /\ at \in Nat /\ upto \in Nat
      /\ at <= upto /\ upto <= Len(rowset) /\ DOMAIN rowset = 1..Len(rowset) /\ DOMAIN hits = 1..Len(hits)
  BY DEF SearchInv, SearchTyped
<1>5. CASE hits = <<>> /\ fetch_error # "none"
  <2>1. answer' = Failure(fetch_error) /\ broke' # {}
    BY <1>1, <1>5 DEF UnderWay
  <2>2. Failure(fetch_error).hits = <<>> /\ Failure(fetch_error).kind = "failed"
        /\ Failure(fetch_error) # Hits(<<>>)
    BY <1>3 DEF Failure, Hits
  <2>3. FallbackIsHonest'
    BY <1>1, <1>3, <1>4, <2>1, <2>2, NoHits
  <2> QED
    BY <1>1, <1>2, <2>3 DEF SearchInv
<1>6. CASE ~(hits = <<>> /\ fetch_error # "none")
  <2>1. answer' = Hits(hits) /\ answer'.hits = hits /\ answer'.kind = "ok"
    BY <1>1, <1>6 DEF Hits
  <2>2. Found' = {hits[i] : i \in 1..Len(hits)}
    BY <1>4, <2>1 DEF Found
  <2>3. HitsAreRead /\ Len(hits) <= max
    <3>1. HitsAreRead /\ Len(hits) + (upto - at) <= max
      BY <1>1 DEF UnderWay
    <3>2. Len(hits) <= max
      BY <1>4, <3>1
    <3> QED
      BY <3>1, <3>2
  <2>4. \A f \in Found' : f \in 1..at /\ rowset[f] = "path"
    BY <2>2, <2>3 DEF HitsAreRead
  <2>5. \A r \in 1..at : rowset[r] = "path" => r \in Found'
    BY <2>2, <2>3 DEF HitsAreRead
  <2>6. answer' = Hits(<<>>) => broke' = {}
    <3> SUFFICES ASSUME answer' = Hits(<<>>) PROVE broke' = {}
      OBVIOUS
    <3>1. hits = <<>>
      BY <2>1 DEF Hits
    <3> QED
      BY <1>1, <1>6, <3>1 DEF UnderWay
  <2>7. ASSUME NEW f \in Found', NEW r \in DOMAIN rowset, r < f, rowset[r] = "path" PROVE r \in Found'
    <3>1. r \in 1..at
      BY <1>4, <2>4, <2>7
    <3> QED
      BY <2>5, <2>7, <3>1
  <2>8. ASSUME broke' = {}, Len(hits) < max, NEW r \in DOMAIN rowset, rowset[r] = "path" PROVE r \in Found'
    <3>1. at = Len(rowset)
      <4>1. broke # {} \/ Len(hits) >= max \/ at = Len(rowset)
        BY <1>1 DEF UnderWay
      <4>2. broke = {} /\ ~(Len(hits) >= max)
        BY <1>1, <1>4, <2>8
      <4> QED
        BY <4>1, <4>2
    <3> QED
      BY <1>4, <2>5, <2>8, <3>1
  <2>9. \A i, j \in 1..Len(hits) : i < j => hits[i] < hits[j]
    BY <2>3 DEF HitsAreRead
  <2> HIDE DEF Found
  <2>10. FallbackIsHonest'
    BY <1>1, <1>3, <1>4, <2>1, <2>3, <2>4, <2>6, <2>7, <2>8, <2>9 DEF FallbackIsHonest
  <2> QED
    BY <1>1, <1>2, <2>10 DEF SearchInv
<1> QED
  BY <1>5, <1>6

LEMMA SearchRests == ASSUME SearchInv, UNCHANGED searchVars PROVE SearchInv'
<1>1. UNCHANGED <<blank, max, rowset, step, at, upto, hits, fetch_error, answer, broke>>
  BY DEF searchVars, query, reading
<1>2. SearchTyped'
  BY <1>1 DEF SearchInv, SearchTyped
<1>3. step' # "done" => UnderWay'
  BY <1>1 DEF SearchInv, UnderWay, HitsAreRead
<1>4. FallbackIsHonest'
  <2>1. Found' = Found
    BY <1>1, Zenon DEF Found
  <2> HIDE DEF Found
  <2> QED
    BY <1>1, <2>1 DEF SearchInv, FallbackIsHonest
<1> QED
  BY <1>2, <1>3, <1>4 DEF SearchInv

THEOREM SearchInvariant == SearchSpec => []SearchInv
<1>1. SearchInv /\ [SearchNext]_searchVars => SearchInv'
  BY AskedForNothing, CallFails, CallSucceeds, NothingToRead, FetchKeeps, FetchStops, DataKeeps,
     ReleaseKeeps, AnswerKeeps, SearchRests DEF SearchNext
<1> QED
  BY <1>1, SearchStart, PTL DEF SearchSpec

\* Whatever fails in a search by Windows, in whichever batch, it is not an empty answer,
\* and what is answered are the first rows with a path, however many there are.
THEOREM AnswersHonestly == SearchSpec => []FallbackIsHonest
BY SearchInvariant, PTL DEF SearchInv
=============================================================================
