---------------------------- MODULE AnswerProofs ----------------------------
(***************************************************************************)
(* What the service's answers rest on. UsnTail keeps for every volume,     *)
(* journal and bound the status the volume reports, and loses no event     *)
(* between an enumeration and the batches that follow it. VolumeScan finds *)
(* in any answer, MFT and tree all there is to find. Session keeps         *)
(* for any number of frames, pipe room and generations that no query is    *)
(* answered twice, that at most one late batch follows the frame that      *)
(* superseded it, and that the rows on the page are those of the query it  *)
(* issued last. SearchPage returns, for any corpus and any caps, the best  *)
(* of everything there is to find.                                         *)
(*                                                                         *)
(* A replay is a recursive function over a sequence of events.  What it    *)
(* computes is established by induction on the events, here through the    *)
(* least element of a set of naturals.                                     *)
(***************************************************************************)
EXTENDS VolumeStart, Session, SearchPage, FiniteSetTheorems, NaturalsInduction,
        WellFoundedInduction, SequenceTheorems, TLAPS

-----------------------------------------------------------------------------
(* Induction.                                                              *)

LessThan == {p \in Nat \X Nat : p[1] < p[2]}

\* A set of naturals that is not empty has a least element.
LEMMA LeastElement ==
  ASSUME NEW T \in SUBSET Nat, T # {}
  PROVE  \E n \in T : \A m \in T : n <= m
<1>1. IsWellFoundedOn(LessThan, Nat)
  BY NatLessThanWellFounded DEF OpToRel, LessThan
<1>2. PICK x \in T : \A y \in T : ~ (<<y, x>> \in LessThan)
  BY <1>1, WFMin, Zenon
<1>3. ASSUME NEW m \in T PROVE x <= m
  <2>1. <<m, x>> \notin LessThan
    BY <1>2
  <2>2. <<m, x>> \in Nat \X Nat
    OBVIOUS
  <2>3. ~ (m < x)
    BY <2>1, <2>2 DEF LessThan
  <2>4. m \in Nat /\ x \in Nat
    OBVIOUS
  <2>5. QED BY <2>3, <2>4
<1>4. QED BY <1>3

\* Induction up to a bound: a set that holds 0 and the successor of each of its
\* members below k holds every natural up to k.
LEMMA InductionUpTo ==
  ASSUME NEW k \in Nat, NEW T, 0 \in T, \A n \in 0..(k - 1) : n \in T => n + 1 \in T
  PROVE  \A n \in 0..k : n \in T
<1> DEFINE U == {n \in 0..k : n \notin T}
<1>1. SUFFICES ASSUME U # {} PROVE FALSE
  OBVIOUS
<1>2. U \in SUBSET Nat
  OBVIOUS
<1>3. \E n \in U : \A m \in U : n <= m
  <2> HIDE DEF U
  <2>1. QED BY <1>1, <1>2, LeastElement
<1>4. PICK n \in U : \A m \in U : n <= m
  BY <1>3
<1>5. n \in 1..k /\ n \notin T
  OBVIOUS
<1>6. n - 1 \in 0..(k - 1) /\ n - 1 + 1 = n
  BY <1>5
<1>7. n - 1 \in T
  <2>1. n - 1 \notin U
    BY <1>4, <1>5
  <2>2. QED BY <2>1, <1>5
<1>8. QED BY <1>5, <1>6, <1>7

\* The same, a step told from the one before it.
LEMMA StepsUpTo ==
  ASSUME NEW k \in Nat, NEW T, 0 \in T, \A n \in 1..k : n - 1 \in T => n \in T
  PROVE  \A n \in 0..k : n \in T
<1>1. ASSUME NEW n \in 0..(k - 1), n \in T PROVE n + 1 \in T
  <2>1. n + 1 \in 1..k /\ n + 1 - 1 = n
    OBVIOUS
  <2>2. QED BY <2>1, <1>1
<1>2. QED BY <1>1, InductionUpTo

-----------------------------------------------------------------------------
(* What a replay computes.                                                 *)

Maps == [Frn -> File \union {Absent}]
Event == [kind : {"create", "rename"}, frn : Frn, file : File]
           \union [kind : {"delete"}, frn : Frn, file : {Absent}]
Usable(ev) == ev.kind # "delete" => ev.file.name \notin BadName

\* The index after each of the events of a batch.
IsRun(g, ix, evs) ==
  /\ g \in [0..Len(evs) -> Maps] /\ g[0] = ix
  /\ \A n \in 1..Len(evs) : g[n] = Apply(g[n - 1], evs[n])

LEMMA ApplyType ==
  ASSUME NEW ix \in Maps, NEW ev \in Event PROVE Apply(ix, ev) \in Maps
BY DEF Apply, Maps, Event

\* An event is about its own reference and looks at no other.
LEMMA ApplyLocal ==
  ASSUME NEW ix \in Maps, NEW jx \in Maps, NEW ev \in Event, NEW f \in Frn, ix[f] = jx[f]
  PROVE  /\ Apply(ix, ev)[f] = Apply(jx, ev)[f]
         /\ ev.frn # f => Apply(ix, ev)[f] = ix[f]
BY DEF Apply, Maps, Event

LEMMA RunExists ==
  ASSUME NEW ix \in Maps, NEW evs \in Seq(Event)
  PROVE  \E g : IsRun(g, ix, evs)
<1> DEFINE Upto(n, g) == /\ g \in [0..n -> Maps] /\ g[0] = ix
                         /\ \A i \in 1..n : g[i] = Apply(g[i - 1], evs[i])
           T == {n \in Nat : \E g : Upto(n, g)}
<1>0. Len(evs) \in Nat
  OBVIOUS
<1>1. 0 \in T
  <2>1. Upto(0, [i \in 0..0 |-> ix])
    OBVIOUS
  <2>2. QED BY <2>1
<1>2. ASSUME NEW n \in 0..(Len(evs) - 1), n \in T PROVE n + 1 \in T
  <2>1. PICK g : Upto(n, g)
    BY <1>2
  <2> DEFINE h == [i \in 0..(n + 1) |-> IF i <= n THEN g[i] ELSE Apply(g[n], evs[n + 1])]
  <2>2. n \in Nat /\ n + 1 \in Nat /\ n + 1 \in 1..Len(evs) /\ evs[n + 1] \in Event /\ g[n] \in Maps
    BY <1>0, <2>1
  <2>3. Apply(g[n], evs[n + 1]) \in Maps
    BY <2>2, ApplyType
  <2>4. h \in [0..(n + 1) -> Maps] /\ h[0] = ix
    BY <2>1, <2>2, <2>3
  <2>5. ASSUME NEW i \in 1..(n + 1) PROVE h[i] = Apply(h[i - 1], evs[i])
    <3>1. CASE i <= n
      BY <3>1, <2>1, <2>2
    <3>2. CASE i = n + 1
      <4>1. h[i] = Apply(g[n], evs[n + 1]) /\ h[i - 1] = g[n]
        BY <3>2, <2>2
      <4>2. QED BY <4>1, <3>2
    <3>3. QED BY <3>1, <3>2, <2>2
  <2>6. Upto(n + 1, h)
    BY <2>4, <2>5
  <2>7. QED BY <2>6, <2>2
<1>3. Len(evs) \in T
  <2> HIDE DEF T
  <2>1. \A n \in 0..Len(evs) : n \in T
    BY <1>0, <1>1, <1>2, InductionUpTo
  <2>2. QED BY <2>1, <1>0
<1>4. QED BY <1>3 DEF IsRun

\* Two runs of a batch agree on a reference from where they agree on it before.
LEMMA RunsAgree ==
  ASSUME NEW ix \in Maps, NEW jx \in Maps, NEW evs \in Seq(Event), NEW f \in Frn, ix[f] = jx[f],
         NEW g, NEW h, IsRun(g, ix, evs), IsRun(h, jx, evs)
  PROVE  \A n \in 0..Len(evs) : g[n][f] = h[n][f]
<1> DEFINE T == {n \in 0..Len(evs) : g[n][f] = h[n][f]}
<1>0. Len(evs) \in Nat
  OBVIOUS
<1>1. 0 \in T
  BY <1>0 DEF IsRun
<1>2. ASSUME NEW n \in 0..(Len(evs) - 1), n \in T PROVE n + 1 \in T
  <2>1. n + 1 \in 1..Len(evs) /\ n + 1 - 1 = n /\ evs[n + 1] \in Event
    BY <1>0
  <2>2. g[n] \in Maps /\ h[n] \in Maps /\ g[n][f] = h[n][f]
    BY <1>2, <2>1 DEF IsRun
  <2>3. g[n + 1] = Apply(g[n], evs[n + 1]) /\ h[n + 1] = Apply(h[n], evs[n + 1])
    BY <2>1 DEF IsRun
  <2>4. QED BY <2>1, <2>2, <2>3, ApplyLocal
<1>3. QED
  <2> HIDE DEF T
  <2>1. \A n \in 0..Len(evs) : n \in T
    BY <1>0, <1>1, <1>2, InductionUpTo
  <2>2. QED BY <2>1 DEF T

LEMMA ReplayIsRun ==
  ASSUME NEW ix \in Maps, NEW evs \in Seq(Event)
  PROVE  \E g : IsRun(g, ix, evs) /\ Replay(ix, evs) = g[Len(evs)]
<1> DEFINE Def(g) == [n \in 0..Len(evs) |-> IF n = 0 THEN ix ELSE Apply(g[n - 1], evs[n])]
<1>0. Len(evs) \in Nat
  OBVIOUS
<1>1. PICK g : IsRun(g, ix, evs)
  BY RunExists
<1>2. g = Def(g)
  <2>1. ASSUME NEW n \in 0..Len(evs) PROVE g[n] = Def(g)[n]
    BY <1>0, <1>1 DEF IsRun
  <2>2. QED BY <2>1, <1>1 DEF IsRun
<1> DEFINE done == CHOOSE h : h = Def(h)
<1>3. done = Def(done)
  <2> HIDE DEF Def
  <2>1. QED BY <1>2
<1>4. Replay(ix, evs) = done[Len(evs)]
  BY DEF Replay
<1> HIDE DEF done
<1>5. \A n \in 1..Len(evs) : done[n] = Apply(done[n - 1], evs[n])
  BY <1>0, <1>3
<1>6. done[0] = ix
  BY <1>0, <1>3
<1>7. \A n \in 0..Len(evs) : done[n] \in Maps
  <2> DEFINE T == {n \in 0..Len(evs) : done[n] \in Maps}
  <2>1. 0 \in T
    BY <1>0, <1>6
  <2>2. ASSUME NEW n \in 0..(Len(evs) - 1), n \in T PROVE n + 1 \in T
    <3>1. n + 1 \in 1..Len(evs) /\ n + 1 - 1 = n /\ evs[n + 1] \in Event /\ done[n] \in Maps
      BY <1>0, <2>2
    <3>2. QED BY <3>1, <1>5, ApplyType
  <2> HIDE DEF T
  <2>3. \A n \in 0..Len(evs) : n \in T
    BY <1>0, <2>1, <2>2, InductionUpTo
  <2>4. QED BY <2>3 DEF T
<1>8. done \in [0..Len(evs) -> Maps]
  BY <1>3, <1>7
<1>9. IsRun(done, ix, evs)
  BY <1>5, <1>6, <1>8 DEF IsRun
<1>10. QED BY <1>4, <1>9

\* A run is what a replay computes.
LEMMA ReplayOfRun ==
  ASSUME NEW ix \in Maps, NEW evs \in Seq(Event), NEW g, IsRun(g, ix, evs)
  PROVE  Replay(ix, evs) = g[Len(evs)] /\ Replay(ix, evs) \in Maps
<1>0. Len(evs) \in Nat
  OBVIOUS
<1>1. PICK h : IsRun(h, ix, evs) /\ Replay(ix, evs) = h[Len(evs)]
  BY ReplayIsRun
<1>2. g[Len(evs)] \in Maps /\ h[Len(evs)] \in Maps
  BY <1>0, <1>1 DEF IsRun
<1>3. ASSUME NEW f \in Frn PROVE g[Len(evs)][f] = h[Len(evs)][f]
  <2>1. \A n \in 0..Len(evs) : g[n][f] = h[n][f]
    BY <1>1, RunsAgree
  <2>2. QED BY <2>1, <1>0
<1>4. g[Len(evs)] = h[Len(evs)]
  BY <1>2, <1>3 DEF Maps
<1>5. QED BY <1>1, <1>2, <1>4

LEMMA ReplayType ==
  ASSUME NEW ix \in Maps, NEW evs \in Seq(Event) PROVE Replay(ix, evs) \in Maps
BY RunExists, ReplayOfRun

LEMMA ReplayEmpty ==
  ASSUME NEW ix \in Maps PROVE Replay(ix, <<>>) = ix
<1>1. <<>> \in Seq(Event) /\ Len(<<>>) = 0
  OBVIOUS
<1>2. PICK g : IsRun(g, ix, <<>>) /\ Replay(ix, <<>>) = g[0]
  BY <1>1, ReplayIsRun
<1>3. QED BY <1>2 DEF IsRun

LEMMA ReplayOne ==
  ASSUME NEW ix \in Maps, NEW ev \in Event PROVE Replay(ix, <<ev>>) = Apply(ix, ev)
<1>1. <<ev>> \in Seq(Event) /\ Len(<<ev>>) = 1 /\ <<ev>>[1] = ev
  OBVIOUS
<1>2. PICK g : IsRun(g, ix, <<ev>>) /\ Replay(ix, <<ev>>) = g[1]
  BY <1>1, ReplayIsRun
<1>3. g[1] = Apply(g[1 - 1], <<ev>>[1]) /\ g[0] = ix
  BY <1>1, <1>2 DEF IsRun
<1>4. QED BY <1>1, <1>2, <1>3

\* Two batches, one after the other, are one batch.
LEMMA ReplayConcat ==
  ASSUME NEW ix \in Maps, NEW s \in Seq(Event), NEW t \in Seq(Event)
  PROVE  Replay(ix, s \o t) = Replay(Replay(ix, s), t)
<1> DEFINE r == s \o t
<1>0. r \in Seq(Event) /\ Len(s) \in Nat /\ Len(t) \in Nat /\ Len(r) = Len(s) + Len(t)
  OBVIOUS
<1>1. /\ \A n \in 1..Len(s) : r[n] = s[n]
      /\ \A n \in 1..Len(t) : r[Len(s) + n] = t[n]
  <2>1. \A n \in 1..(Len(s) + Len(t)) : r[n] = IF n <= Len(s) THEN s[n] ELSE t[n - Len(s)]
    BY ConcatProperties
  <2>2. ASSUME NEW n \in 1..Len(t) PROVE r[Len(s) + n] = t[n]
    <3>1. Len(s) + n \in 1..(Len(s) + Len(t)) /\ ~ (Len(s) + n <= Len(s)) /\ Len(s) + n - Len(s) = n
      BY <1>0
    <3>2. QED BY <2>1, <3>1
  <2>3. QED BY <2>1, <2>2, <1>0
<1> HIDE DEF r
<1>2. PICK g : IsRun(g, ix, r)
  BY <1>0, RunExists
<1> DEFINE u == [n \in 0..Len(s) |-> g[n]]
           w == [n \in 0..Len(t) |-> g[Len(s) + n]]
<1>3. IsRun(u, ix, s)
  <2>1. u \in [0..Len(s) -> Maps] /\ u[0] = ix
    BY <1>0, <1>2 DEF IsRun
  <2>2. ASSUME NEW n \in 1..Len(s) PROVE u[n] = Apply(u[n - 1], s[n])
    <3>1. n \in 1..Len(r) /\ n \in 0..Len(s) /\ n - 1 \in 0..Len(s)
      BY <1>0
    <3>2. g[n] = Apply(g[n - 1], r[n]) /\ u[n] = g[n] /\ u[n - 1] = g[n - 1]
      BY <3>1, <1>2 DEF IsRun
    <3>3. QED BY <3>2, <1>1
  <2>3. QED BY <2>1, <2>2 DEF IsRun
<1>4. g[Len(s)] = Replay(ix, s) /\ Replay(ix, s) \in Maps
  <2>1. u[Len(s)] = g[Len(s)]
    BY <1>0
  <2> HIDE DEF u
  <2>2. QED BY <2>1, <1>3, ReplayOfRun
<1>5. IsRun(w, Replay(ix, s), t)
  <2>1. w \in [0..Len(t) -> Maps]
    <3>1. \A n \in 0..Len(t) : Len(s) + n \in 0..Len(r)
      BY <1>0
    <3>2. QED BY <3>1, <1>2 DEF IsRun
  <2>2. w[0] = Replay(ix, s)
    <3>1. w[0] = g[Len(s) + 0] /\ Len(s) + 0 = Len(s)
      BY <1>0
    <3>2. QED BY <3>1, <1>4
  <2>3. ASSUME NEW n \in 1..Len(t) PROVE w[n] = Apply(w[n - 1], t[n])
    <3>1. /\ Len(s) + n \in 1..Len(r) /\ n \in 0..Len(t) /\ n - 1 \in 0..Len(t)
          /\ Len(s) + n - 1 = Len(s) + (n - 1)
      BY <1>0
    <3>2. g[Len(s) + n] = Apply(g[Len(s) + n - 1], r[Len(s) + n])
      BY <3>1, <1>2 DEF IsRun
    <3>3. w[n] = g[Len(s) + n] /\ w[n - 1] = g[Len(s) + (n - 1)]
      BY <3>1
    <3>4. r[Len(s) + n] = t[n]
      BY <1>1
    <3> HIDE DEF w
    <3>5. QED BY <3>1, <3>2, <3>3, <3>4
  <2> HIDE DEF w
  <2>4. QED BY <2>1, <2>2, <2>3 DEF IsRun
<1>6. Replay(ix, r) = g[Len(r)]
  BY <1>0, <1>2, ReplayOfRun
<1>7. w[Len(t)] = g[Len(r)]
  BY <1>0
<1> HIDE DEF w
<1>8. Replay(Replay(ix, s), t) = w[Len(t)]
  BY <1>4, <1>5, ReplayOfRun
<1>9. QED BY <1>6, <1>7, <1>8 DEF r

LEMMA ReplayAppend ==
  ASSUME NEW ix \in Maps, NEW s \in Seq(Event), NEW ev \in Event
  PROVE  Replay(ix, Append(s, ev)) = Apply(Replay(ix, s), ev)
<1>1. Append(s, ev) = s \o <<ev>> /\ <<ev>> \in Seq(Event)
  BY AppendIsConcat
<1>2. Replay(ix, s) \in Maps
  BY ReplayType
<1>3. Replay(ix, s \o <<ev>>) = Replay(Replay(ix, s), <<ev>>)
  BY <1>1, ReplayConcat
<1>4. QED BY <1>1, <1>2, <1>3, ReplayOne

\* A replay treats each reference by itself.
LEMMA ReplayLocal ==
  ASSUME NEW ix \in Maps, NEW jx \in Maps, NEW evs \in Seq(Event), NEW f \in Frn, ix[f] = jx[f]
  PROVE  Replay(ix, evs)[f] = Replay(jx, evs)[f]
<1>1. PICK g : IsRun(g, ix, evs) /\ Replay(ix, evs) = g[Len(evs)]
  BY ReplayIsRun
<1>2. PICK h : IsRun(h, jx, evs) /\ Replay(jx, evs) = h[Len(evs)]
  BY ReplayIsRun
<1>3. \A n \in 0..Len(evs) : g[n][f] = h[n][f]
  BY <1>1, <1>2, RunsAgree
<1>4. Len(evs) \in 0..Len(evs)
  OBVIOUS
<1>5. QED BY <1>1, <1>2, <1>3, <1>4

\* A reference the index has, and no event deletes, it keeps.
LEMMA ReplayKeeps ==
  ASSUME NEW ix \in Maps, NEW evs \in Seq(Event), NEW f \in Frn, ix[f] # Absent,
         \A i \in 1..Len(evs) : ~ (evs[i].kind = "delete" /\ evs[i].frn = f),
         Absent \notin File
  PROVE  Replay(ix, evs)[f] # Absent
<1> DEFINE T(g) == {n \in 0..Len(evs) : g[n][f] # Absent}
<1>0. Len(evs) \in Nat
  OBVIOUS
<1>1. PICK g : IsRun(g, ix, evs) /\ Replay(ix, evs) = g[Len(evs)]
  BY ReplayIsRun
<1>2. 0 \in T(g)
  BY <1>0, <1>1 DEF IsRun
<1>3. ASSUME NEW n \in 0..(Len(evs) - 1), n \in T(g) PROVE n + 1 \in T(g)
  <2>1. n + 1 \in 1..Len(evs) /\ n + 1 - 1 = n /\ evs[n + 1] \in Event
    BY <1>0
  <2>2. g[n] \in Maps /\ g[n][f] # Absent /\ g[n + 1] = Apply(g[n], evs[n + 1])
    BY <1>1, <1>3, <2>1 DEF IsRun
  <2> DEFINE ev == evs[n + 1]
  <2>3. Apply(g[n], ev)[f] # Absent
    <3>1. /\ ev \in Event /\ n + 1 \in 1..Len(evs)
          /\ ~ (ev.kind = "delete" /\ ev.frn = f)
      BY <2>1
    <3> HIDE DEF ev
    <3>2. CASE ev.kind \in {"create", "rename"}
      BY <3>1, <3>2, <2>2 DEF Apply, Maps, Event
    <3>3. CASE ev.kind = "delete"
      BY <3>1, <3>3, <2>2 DEF Apply, Maps, Event
    <3>4. QED BY <3>1, <3>2, <3>3 DEF Event
  <2>4. n + 1 \in 0..Len(evs)
    BY <1>0
  <2>5. QED BY <2>2, <2>3, <2>4
<1>4. \A n \in 0..Len(evs) : n \in T(g)
  <2> DEFINE S == T(g)
  <2>1. 0 \in S /\ \A n \in 0..(Len(evs) - 1) : n \in S => n + 1 \in S
    BY <1>2, <1>3
  <2> HIDE DEF S
  <2>2. \A n \in 0..Len(evs) : n \in S
    BY <1>0, <2>1, InductionUpTo
  <2>3. QED BY <2>2 DEF S
<1>5. QED BY <1>0, <1>1, <1>4

-----------------------------------------------------------------------------
(* The inductive invariants.                                               *)

\* The journal the cursor belongs to is still there.
Live == journal.active /\ cursor.id = journal.id

Journals == [id : Nat, active : BOOLEAN, first : Nat, recs : Seq(Event)]
Places == {"query", "scan", "swapped", "bumped", "published", "loop", "reading", "apply",
           "lost"}

\* The guards held are those of the rebuild and of the housekeeper, and before a
\* volume is served there is neither.
StatusInv ==
  /\ TailTypeOK
  /\ journal \in Journals
  /\ cursor \in [id : Nat, next : 0..MaxRecs]
  /\ batch \in Seq(Event)
  /\ tail \in Places /\ vol_state \in {"down", "tailing"}
  /\ compacting \in BOOLEAN /\ paused \in BOOLEAN
  /\ Len(journal.recs) <= MaxRecs
  /\ Live => cursor.next <= Len(journal.recs)
  /\ tail # "apply" => batch = <<>>
  /\ vol_state = "down" => tail \in {"query", "scan"} /\ ~compacting
  /\ rebuilding = (IF InRebuild THEN 1 ELSE 0) + (IF compacting THEN 1 ELSE 0)

\* Every file of a map has a name the index can hold.
GoodNames(m) == \A f \in Frn : m[f] # Absent => m[f].name \notin BadName

\* The journal tells of the volume: names that can be held, references given out,
\* and a deleted reference is gone for good.
JournalInv ==
  /\ GoodNames(volume)
  /\ ~ journal.active => journal.recs = <<>>
  /\ \A f \in Frn : volume[f] # Absent => f \in born
  /\ \A i \in 1..Len(journal.recs) :
        LET ev == journal.recs[i]
        IN  Usable(ev) /\ ev.frn \in born /\ (ev.kind = "delete" => volume[ev.frn] = Absent)

\* The events after the first k.
Suffix(s, k) == SubSeq(s, k + 1, Len(s))

\* What the volume has already, its last records do not change.
Idempotent ==
  \A k \in 0..Len(journal.recs) :
     Replay(volume, Suffix(journal.recs, k)) = volume

\* Of the records enumerated so far, the unread events make the volume; of the others
\* the new index has nothing yet.
ScanInv ==
  tail = "scan" /\ Live =>
     /\ \A f \in Frn : f < pos => Replay(fresh, Unread)[f] = volume[f]
     /\ \A f \in Frn : f >= pos => fresh[f] = Absent

\* The served index, the batch in hand and the unread events make the volume.
ServedInv ==
  vol_state # "down" /\ ~Scanning /\ Live => Replay(index, batch \o Unread) = volume

TailInv == StatusInv /\ JournalInv /\ Idempotent /\ ScanInv /\ ServedInv

-----------------------------------------------------------------------------
(* Status.                                                                 *)

\* One field of a journal, or a cursor moved.
LEMMA JournalFirst ==
  ASSUME NEW j \in Journals, NEW n \in Nat
  PROVE  /\ [j EXCEPT !.first = n] \in Journals /\ [j EXCEPT !.first = n].first = n
         /\ [j EXCEPT !.first = n].id = j.id /\ [j EXCEPT !.first = n].active = j.active
         /\ [j EXCEPT !.first = n].recs = j.recs
BY DEF Journals

LEMMA JournalRecs ==
  ASSUME NEW j \in Journals, NEW s \in Seq(Event)
  PROVE  /\ [j EXCEPT !.recs = s] \in Journals /\ [j EXCEPT !.recs = s].recs = s
         /\ [j EXCEPT !.recs = s].id = j.id /\ [j EXCEPT !.recs = s].active = j.active
         /\ [j EXCEPT !.recs = s].first = j.first
BY DEF Journals

LEMMA JournalGone ==
  ASSUME NEW j \in Journals
  PROVE  LET k == [j EXCEPT !.active = FALSE, !.recs = <<>>, !.first = 0]
         IN  k \in Journals /\ k.recs = <<>> /\ k.first = 0 /\ ~ k.active
<1> DEFINE k == [j EXCEPT !.active = FALSE, !.recs = <<>>, !.first = 0]
<1>1. <<>> \in Seq(Event)
  OBVIOUS
<1>2. k.recs = <<>> /\ k.first = 0 /\ k.active = FALSE /\ k.id = j.id
  BY DEF Journals
<1>3. k \in Journals
  BY <1>1, <1>2 DEF Journals
<1>4. QED BY <1>2, <1>3

LEMMA EventIsTyped ==
  ASSUME NEW kind \in {"create", "rename"}, NEW f \in Frn, NEW file \in File
  PROVE  /\ [kind |-> kind, frn |-> f, file |-> file] \in Event
         /\ [kind |-> "delete", frn |-> f, file |-> Absent] \in Event
BY DEF Event

\* The journal stays typed as a change is recorded.
LEMMA RecordIsTyped ==
  ASSUME StatusInv, NEW kind, NEW f, NEW file,
         [kind |-> kind, frn |-> f, file |-> file] \in Event, Record(kind, f, file)
  PROVE  /\ journal' \in Journals
         /\ Len(journal'.recs) <= MaxRecs /\ journal'.first \in 0..Len(journal'.recs)
         /\ journal'.active = journal.active /\ journal'.id = journal.id
         /\ Len(journal.recs) <= Len(journal'.recs)
<1> USE DEF StatusInv, TailTypeOK
<1>1. CASE journal.active
  <2> DEFINE ev == [kind |-> kind, frn |-> f, file |-> file]
  <2>1. Append(journal.recs, ev) \in Seq(Event) /\ Len(Append(journal.recs, ev)) = Len(journal.recs) + 1
    BY DEF Journals
  <2>2. Len(journal.recs) < MaxRecs /\ journal' = [journal EXCEPT !.recs = Append(@, ev)]
    BY <1>1 DEF Record
  <2> HIDE DEF ev
  <2>3. Len(journal.recs) \in Nat /\ MaxRecs \in Nat
    BY TailAssumption DEF Journals
  <2>4. /\ journal' \in Journals /\ journal'.recs = Append(journal.recs, ev)
        /\ journal'.first = journal.first /\ journal'.active = journal.active
        /\ journal'.id = journal.id
    BY <2>1, <2>2, JournalRecs
  <2>5. QED BY <2>1, <2>2, <2>3, <2>4
<1>2. CASE ~ journal.active
  <2>1. journal' = journal /\ Len(journal.recs) \in Nat
    BY <1>2 DEF Record, Journals
  <2>2. QED BY <2>1
<1>3. QED BY <1>1, <1>2

LEMMA SliceIs ==
  ASSUME NEW S, NEW s \in Seq(S), NEW k \in Nat, NEW n \in Nat, k <= n, n <= Len(s)
  PROVE  /\ SubSeq(s, k + 1, n) \in Seq(S) /\ Len(SubSeq(s, k + 1, n)) = n - k
         /\ \A i \in 1..(n - k) : SubSeq(s, k + 1, n)[i] = s[k + i]
<1> DEFINE t == SubSeq(s, k + 1, n)
<1>1. \A i \in (k + 1)..n : s[i] \in S
  OBVIOUS
<1>2. /\ k + 1 \in Int /\ n \in Int /\ n - (k + 1) + 1 = n - k
      /\ (IF k + 1 <= n THEN n - (k + 1) + 1 ELSE 0) = n - k
  OBVIOUS
<1>3. /\ t \in Seq(S) /\ Len(t) = (IF k + 1 <= n THEN n - (k + 1) + 1 ELSE 0)
      /\ \A i \in 1..(n - (k + 1) + 1) : t[i] = s[k + 1 + i - 1]
  BY <1>1, <1>2, SubSeqProperties
<1>4. \A i \in 1..(n - k) : k + 1 + i - 1 = k + i
  OBVIOUS
<1> HIDE DEF t
<1>5. t \in Seq(S) /\ Len(t) = n - k /\ \A i \in 1..(n - k) : t[i] = s[k + i]
  BY <1>2, <1>3, <1>4
<1>6. QED BY <1>5 DEF t

LEMMA UnreadProps ==
  ASSUME NEW s \in Seq(Event), NEW k \in Nat, k <= Len(s)
  PROVE  /\ SubSeq(s, k + 1, Len(s)) \in Seq(Event)
         /\ Len(SubSeq(s, k + 1, Len(s))) = Len(s) - k
<1>1. Len(s) \in Nat /\ Len(s) <= Len(s)
  OBVIOUS
<1>2. QED BY <1>1, SliceIs

LEMMA StatusVolume ==
  ASSUME StatusInv, VolumeStep PROVE StatusInv'
<1> USE DEF StatusInv, TailTypeOK, InRebuild, statusVars, enumVars, Live
<1> DEFINE JournalKept ==
      /\ journal' \in Journals
      /\ Len(journal'.recs) <= MaxRecs /\ journal'.first \in 0..Len(journal'.recs)
      /\ Live' => cursor.next <= Len(journal'.recs)
<1>1. SUFFICES JournalKept /\ volume' \in [Frn -> File \union {Absent}]
  BY DEF VolumeStep
<1>2. cursor' = cursor /\ cursor.next \in Nat /\ Len(journal.recs) \in Nat
  BY DEF VolumeStep, Journals
<1>3. ASSUME NEW f \in Frn, NEW file \in [parent : Parent, name : Given],
             \/ CreateFile(f, file)
             \/ \E kind \in {"create", "rename"} : RenameFile(f, file, kind)
      PROVE  JournalKept /\ volume' \in [Frn -> File \union {Absent}]
  <2>1. file \in File
    BY TailAssumption DEF File
  <2>2. PICK kind \in {"create", "rename"} : Record(kind, f, file) /\ volume' = [volume EXCEPT ![f] = file]
    BY <1>3 DEF CreateFile, RenameFile
  <2>3. [kind |-> kind, frn |-> f, file |-> file] \in Event
    BY <2>1, EventIsTyped
  <2>4. volume' \in [Frn -> File \union {Absent}]
    BY <2>1, <2>2
  <2>5. JournalKept
    BY <1>2, <2>2, <2>3, RecordIsTyped
  <2>6. QED BY <2>4, <2>5
<1>4. ASSUME NEW f \in Frn, DeleteFile(f) PROVE JournalKept /\ volume' \in [Frn -> File \union {Absent}]
  <2>1. [kind |-> "delete", frn |-> f, file |-> Absent] \in Event
    BY DEF Event
  <2>2. Record("delete", f, Absent) /\ volume' = [volume EXCEPT ![f] = Absent]
    BY <1>4 DEF DeleteFile
  <2>3. JournalKept
    BY <1>2, <2>1, <2>2, RecordIsTyped
  <2>4. QED BY <2>2, <2>3
<1>5. CASE Overwrite
  <2>1. /\ journal'.recs = journal.recs /\ journal'.first = journal.first + 1
        /\ journal'.active = journal.active /\ journal'.id = journal.id
        /\ journal' \in Journals
    <3>1. journal' = [journal EXCEPT !.first = journal.first + 1] /\ journal.first + 1 \in Nat
      BY <1>5 DEF Overwrite
    <3>2. journal.recs \in Seq(Event)
      BY DEF Journals
    <3>3. journal \in Journals
      BY DEF JournalInv, StatusInv
    <3> DEFINE n == journal.first + 1
    <3>4. journal' = [journal EXCEPT !.first = n] /\ n \in Nat
      BY <3>1
    <3> HIDE DEF n
    <3>5. /\ journal'.recs = journal.recs /\ journal'.first = n
          /\ journal'.active = journal.active /\ journal'.id = journal.id
          /\ journal' \in Journals
      BY <3>3, <3>4, JournalFirst
    <3>6. QED BY <3>5 DEF n
  <2>2. journal.first < Len(journal.recs) /\ volume' = volume
    BY <1>5 DEF Overwrite
  <2>3. QED BY <1>2, <2>1, <2>2
<1>6. CASE DeleteJournal
  <2>1. /\ journal'.recs = <<>> /\ journal'.first = 0 /\ ~ journal'.active /\ volume' = volume
        /\ journal' \in Journals
    BY <1>6, JournalGone DEF DeleteJournal
  <2>2. Len(<<>>) = 0 /\ MaxRecs \in Nat
    BY TailAssumption
  <2>3. QED BY <1>2, <2>1, <2>2
<1>7. QED BY <1>3, <1>4, <1>5, <1>6 DEF VolumeStep

LEMMA StatusTail ==
  ASSUME StatusInv, TailStep \/ TailFails PROVE StatusInv'
<1> USE DEF StatusInv, TailTypeOK, InRebuild, Live, Places
<1>0. /\ Empty \in [Frn -> File \union {Absent}] /\ MaxFrn \in Nat /\ MaxRecs \in Nat
      /\ MaxEpoch \in Nat \ {0} /\ Len(journal.recs) \in Nat /\ 1 \in 1..(MaxFrn + 1)
  BY TailAssumption DEF Empty, Journals
<1>1. CASE QueryJournal
  <2>1. CASE journal.active
    <3>1. journal' = journal /\ cursor' = [id |-> journal.id, next |-> Len(journal.recs)]
      BY <1>1, <2>1 DEF QueryJournal
    <3>2. cursor' \in [id : Nat, next : 0..MaxRecs] /\ cursor'.next = Len(journal.recs)
      <4>1. Len(journal.recs) \in 0..MaxRecs /\ journal.id \in Nat
        BY <1>0 DEF Journals
      <4>2. QED BY <3>1, <4>1
    <3>3. QED BY <1>0, <1>1, <3>1, <3>2 DEF QueryJournal, statusVars
  <2>2. CASE ~ journal.active
    <3>1. /\ journal' = [id |-> journal.id + 1, active |-> TRUE, first |-> 0, recs |-> <<>>]
          /\ cursor' = [id |-> journal.id + 1, next |-> Len(<<>>)]
      BY <1>1, <2>2 DEF QueryJournal
    <3>2. /\ Len(<<>>) = 0 /\ <<>> \in Seq(Event)
          /\ cursor' \in [id : Nat, next : 0..MaxRecs] /\ cursor'.next = 0
      <4>1. Len(<<>>) = 0 /\ 0 \in 0..MaxRecs /\ journal.id + 1 \in Nat /\ <<>> \in Seq(Event)
        BY <1>0 DEF Journals
      <4>2. QED BY <3>1, <4>1
    <3>3. /\ journal' \in Journals
          /\ journal'.first = 0 /\ journal'.recs = <<>>
      BY <3>1, <3>2 DEF Journals
    <3>4. QED BY <1>0, <1>1, <3>2, <3>3 DEF QueryJournal, statusVars
  <2>3. QED BY <2>1, <2>2
<1>2. CASE ScanRecord
  BY <1>0, <1>2 DEF ScanRecord, statusVars, volumeVars, Frn
<1>3. CASE ScanFails
  BY <1>0, <1>3 DEF ScanFails, statusVars, volumeVars
<1>4. CASE Serve
  BY <1>0, <1>4 DEF Serve, volumeVars
<1>5. CASE Swap
  BY <1>0, <1>5 DEF Swap, statusVars, volumeVars
<1>6. CASE BumpEpoch
  BY <1>0, <1>6 DEF BumpEpoch, volumeVars, enumVars
<1>7. CASE PublishTailing
  BY <1>7 DEF PublishTailing, volumeVars, enumVars
<1>8. CASE EndRebuild
  BY <1>8 DEF EndRebuild, volumeVars, enumVars
<1>9. CASE StartRead \/ ReadFails \/ NeedsRebuild
  <2>1. /\ UNCHANGED <<volumeVars, cursor, batch, enumVars, index, statusVars>>
        /\ \/ tail = "loop" /\ tail' = "reading"
           \/ tail = "reading" /\ tail' \in {"loop", "lost"}
    BY <1>9 DEF StartRead, ReadFails, NeedsRebuild
  <2>2. QED BY <2>1 DEF volumeVars, enumVars, statusVars
<1>10. CASE ReadEvents
  <2>1. /\ Unread \in Seq(Event) /\ cursor.next <= Len(journal.recs)
        /\ Len(Unread) = Len(journal.recs) - cursor.next
    <3>1. cursor.next <= Len(journal.recs) /\ cursor.next \in Nat
      BY <1>10 DEF ReadEvents, Readable
    <3>2. journal.recs \in Seq(Event)
      BY DEF Journals
    <3>3. QED BY <3>1, <3>2, UnreadProps DEF Unread
  <2>2. PICK n \in 1..Len(Unread) : batch' = SubSeq(Unread, 1, n)
                                     /\ cursor' = [cursor EXCEPT !.next = @ + n]
    BY <1>10 DEF ReadEvents
  <2>3. batch' \in Seq(Event)
    <3>1. n \in Nat /\ n <= Len(Unread) /\ SubSeq(Unread, 1, n) = SubSeq(Unread, 0 + 1, n)
      BY <2>1
    <3>2. SubSeq(Unread, 0 + 1, n) \in Seq(Event)
      BY <2>1, <3>1, SliceIs
    <3>3. QED BY <2>2, <3>1, <3>2
  <2>4. cursor' \in [id : Nat, next : 0..MaxRecs] /\ cursor'.next <= Len(journal.recs)
    <3>1. /\ n \in Nat /\ cursor.next + n <= Len(journal.recs)
          /\ cursor.next + n \in 0..MaxRecs
      BY <1>0, <2>1
    <3>2. cursor' = [cursor EXCEPT !.next = cursor.next + n]
      BY <2>2
    <3>3. QED BY <3>1, <3>2
  <2>5. QED BY <1>10, <2>3, <2>4 DEF ReadEvents, volumeVars, enumVars, statusVars
<1>11. CASE BeginRebuild
  BY <1>11 DEF BeginRebuild, volumeVars, enumVars
<1>12. CASE ApplyBatch
  <2>1. index' \in Maps
    BY <1>12, ReplayType DEF ApplyBatch, Maps
  <2>2. QED BY <1>12, <2>1 DEF ApplyBatch, volumeVars, enumVars, statusVars, Maps
<1>13. QED
  BY <1>1, <1>2, <1>3, <1>4, <1>5, <1>6, <1>7, <1>8, <1>9, <1>10, <1>11, <1>12
  DEF TailStep, TailFails

\* In every behaviour the guards held are accounted for.
THEOREM StatusInvariant == TailSpec => []StatusInv
<1>1. TailInit => StatusInv
  <2> SUFFICES ASSUME TailInit PROVE StatusInv
    OBVIOUS
  <2>1. Empty \in [Frn -> File \union {Absent}] /\ volume \in [Frn -> File \union {Absent}]
    BY TailAssumption DEF TailInit, Empty, File, Frn
  <2>2. /\ <<>> \in Seq(Event) /\ Len(<<>>) = 0 /\ MaxRecs \in Nat /\ MaxFrn \in Nat
        /\ 1 \in 1..(MaxFrn + 1)
    BY TailAssumption
  <2>3. journal \in Journals /\ journal.first = 0 /\ journal.recs = <<>>
    BY <2>2 DEF TailInit, Journals
  <2>4. cursor \in [id : Nat, next : 0..MaxRecs] /\ cursor.next = 0 /\ batch \in Seq(Event)
    BY <2>2 DEF TailInit
  <2>5. TailTypeOK
    BY <2>1, <2>2, <2>3, <2>4 DEF TailInit, TailTypeOK
  <2>6. /\ rebuilding = (IF InRebuild THEN 1 ELSE 0) + (IF compacting THEN 1 ELSE 0)
        /\ vol_state = "down" /\ tail = "query" /\ compacting = FALSE /\ paused = FALSE
        /\ batch = <<>>
    BY DEF TailInit, InRebuild
  <2>7. Len(journal.recs) <= MaxRecs /\ cursor.next <= Len(journal.recs)
    BY <2>2, <2>3, <2>4
  <2>8. QED BY <2>3, <2>4, <2>5, <2>6, <2>7 DEF StatusInv, Places
<1>2. StatusInv /\ [TailNext]_tailVars => StatusInv'
  <2> SUFFICES ASSUME StatusInv, [TailNext]_tailVars PROVE StatusInv'
    OBVIOUS
  <2>1. CASE VolumeStep
    BY <2>1, StatusVolume
  <2>2. CASE TailStep \/ TailFails
    BY <2>2, StatusTail
  <2>3. CASE BeginCompact
    BY <2>3 DEF BeginCompact, StatusInv, TailTypeOK, InRebuild, Live, volumeVars, enumVars
  <2>4. CASE EndCompact
    <3> USE DEF StatusInv, TailTypeOK, InRebuild
    <3>1. /\ rebuilding = (IF InRebuild THEN 1 ELSE 0) + 1 /\ rebuilding' = rebuilding - 1
          /\ compacting' = FALSE /\ InRebuild' = InRebuild
      BY <2>4 DEF EndCompact
    <3>2. rebuilding' = (IF InRebuild' THEN 1 ELSE 0) + 0 /\ rebuilding' \in 0..2
      <4>1. CASE InRebuild
        BY <3>1, <4>1
      <4>2. CASE ~ InRebuild
        BY <3>1, <4>2
      <4>3. QED BY <4>1, <4>2
    <3>3. QED BY <2>4, <3>1, <3>2 DEF EndCompact, Live, volumeVars, enumVars
  <2>5. CASE SetPaused
    BY <2>5 DEF SetPaused, StatusInv, TailTypeOK, InRebuild, Live, volumeVars, enumVars
  <2>6. CASE Restart
    <3>1. /\ Empty \in [Frn -> File \union {Absent}] /\ <<>> \in Seq(Event)
          /\ MaxRecs \in Nat /\ MaxFrn \in Nat
      BY TailAssumption DEF Empty
    <3>2. cursor' \in [id : Nat, next : 0..MaxRecs] /\ cursor'.next = 0
      BY <2>6, <3>1 DEF Restart
    <3>3. 0 <= Len(journal.recs)
      BY DEF StatusInv, Journals
    <3>4. TailTypeOK'
      BY <2>6, <3>1, <3>2 DEF Restart, StatusInv, TailTypeOK, volumeVars
    <3>5. /\ vol_state' = "down" /\ tail' = "query" /\ compacting' = FALSE /\ paused' = FALSE
          /\ batch' = <<>> /\ rebuilding' = 0 /\ journal' = journal
      BY <2>6 DEF Restart, volumeVars
    <3>6. rebuilding' = (IF InRebuild' THEN 1 ELSE 0) + (IF compacting' THEN 1 ELSE 0)
      BY <3>5 DEF InRebuild
    <3>7. QED
      BY <3>1, <3>2, <3>3, <3>4, <3>5, <3>6 DEF StatusInv, Live, Places
  <2>7. CASE UNCHANGED tailVars
    BY <2>7 DEF StatusInv, TailTypeOK, InRebuild, Live, tailVars, volumeVars, enumVars, statusVars
  <2>8. QED
    BY <2>1, <2>2, <2>3, <2>4, <2>5, <2>6, <2>7 DEF TailNext, ServiceStep
<1>3. QED BY <1>1, <1>2, PTL DEF TailSpec

\* At every moment the state reported is the one the volume is in: rebuilding while an
\* enumeration or a compaction runs, and only then.
THEOREM StatusIsHonest == TailSpec => []StatusHonest
<1>1. StatusInv => StatusHonest
  BY DEF StatusInv, StatusHonest, Reported, InRebuild
<1>2. QED BY <1>1, StatusInvariant, PTL

-----------------------------------------------------------------------------
(* Nothing is lost.                                                        *)

\* The volume's own names, and those it gives, are names the index can hold.
NamesAreGood == Given \intersect BadName = {} /\ \A v \in Volumes : GoodNames(v)

LEMMA SuffixAppend ==
  ASSUME NEW s \in Seq(Event), NEW ev \in Event, NEW k \in 0..Len(s)
  PROVE  Suffix(Append(s, ev), k) = Append(Suffix(s, k), ev)
<1> DEFINE r == Append(s, ev)
<1>1. /\ r \in Seq(Event) /\ Len(s) \in Nat /\ Len(r) = Len(s) + 1 /\ r[Len(s) + 1] = ev
      /\ \A i \in 1..Len(s) : r[i] = s[i]
  BY AppendProperties
<1> HIDE DEF r
<1>2. k + 1 \in 1..Len(r) /\ Len(r) \in (k + 1)..Len(r) /\ Len(r) - 1 = Len(s) /\ k + 1 \in Int
  BY <1>1
<1>3. SubSeq(r, k + 1, Len(r)) = SubSeq(r, k + 1, Len(r) - 1) \o << r[Len(r)] >>
  BY <1>1, <1>2, SubSeqRecursiveSecond
<1>4. /\ SubSeq(s, k + 1, Len(s)) \in Seq(Event) /\ Len(SubSeq(s, k + 1, Len(s))) = Len(s) - k
      /\ \A i \in 1..(Len(s) - k) : SubSeq(s, k + 1, Len(s))[i] = s[k + i]
  BY <1>1, SliceIs
<1>5. /\ SubSeq(r, k + 1, Len(s)) \in Seq(Event) /\ Len(SubSeq(r, k + 1, Len(s))) = Len(s) - k
      /\ \A i \in 1..(Len(s) - k) : SubSeq(r, k + 1, Len(s))[i] = r[k + i]
  <2> DEFINE n == Len(s)
  <2>1. n <= Len(r) /\ k <= n /\ k \in Nat /\ n \in Nat
    BY <1>1
  <2> HIDE DEF n
  <2>2. /\ SubSeq(r, k + 1, n) \in Seq(Event) /\ Len(SubSeq(r, k + 1, n)) = n - k
        /\ \A i \in 1..(n - k) : SubSeq(r, k + 1, n)[i] = r[k + i]
    <3>1. r \in Seq(Event)
      BY <1>1
    <3>2. QED BY <2>1, <3>1, SliceIs
  <2>3. QED BY <2>2 DEF n
<1>6. SubSeq(r, k + 1, Len(s)) = SubSeq(s, k + 1, Len(s))
  <2>1. \A i \in 1..(Len(s) - k) : k + i \in 1..Len(s)
    BY <1>1
  <2>2. \A i \in 1..(Len(s) - k) : SubSeq(r, k + 1, Len(s))[i] = SubSeq(s, k + 1, Len(s))[i]
    BY <1>1, <1>4, <1>5, <2>1
  <2>3. QED BY <1>4, <1>5, <2>2, SeqEqual
<1>7. Append(SubSeq(s, k + 1, Len(s)), ev) = SubSeq(s, k + 1, Len(s)) \o <<ev>>
  BY <1>4, AppendIsConcat
<1>8. QED BY <1>1, <1>2, <1>3, <1>6, <1>7 DEF Suffix, r

LEMMA SuffixEnd ==
  ASSUME NEW s \in Seq(Event) PROVE Suffix(s, Len(s)) = <<>>
BY SubSeqEmpty DEF Suffix

LEMMA SuffixOfNothing == Suffix(<<>>, 0) = <<>> /\ Len(<<>>) = 0
<1>1. <<>> \in Seq(Event) /\ Len(<<>>) = 0
  OBVIOUS
<1>2. QED BY <1>1, SuffixEnd

\* A batch read off the unread records, and the rest of them.
LEMMA SuffixSplit ==
  ASSUME NEW s \in Seq(Event), NEW k \in Nat, NEW n \in Nat, k + n <= Len(s)
  PROVE  SubSeq(Suffix(s, k), 1, n) \o Suffix(s, k + n) = Suffix(s, k)
<1>1. Suffix(s, k) \in Seq(Event) /\ Len(Suffix(s, k)) = Len(s) - k /\ Len(s) \in Nat
  BY UnreadProps DEF Suffix
<1>2. \A i \in 1..(Len(s) - k) : Suffix(s, k)[i] = s[k + i]
  BY <1>1, SliceIs DEF Suffix
<1>3. SubSeq(Suffix(s, k), 1, n) = SubSeq(s, k + 1, k + n)
  <2> DEFINE x == Suffix(s, k)
             u == SubSeq(x, 1, n)
             w == SubSeq(s, k + 1, k + n)
  <2>1. u \in Seq(Event) /\ Len(u) = n /\ \A i \in 1..n : u[i] = x[i]
    <3>1. x \in Seq(Event) /\ 0 \in Nat /\ n <= Len(x) /\ 0 <= n
      BY <1>1
    <3> HIDE DEF x
    <3>2. /\ SubSeq(x, 0 + 1, n) \in Seq(Event) /\ Len(SubSeq(x, 0 + 1, n)) = n - 0
          /\ \A i \in 1..(n - 0) : SubSeq(x, 0 + 1, n)[i] = x[0 + i]
      BY <3>1, SliceIs
    <3>3. 0 + 1 = 1 /\ n - 0 = n /\ \A i \in 1..n : 0 + i = i
      OBVIOUS
    <3>4. QED BY <3>2, <3>3
  <2>2. w \in Seq(Event) /\ Len(w) = n /\ \A i \in 1..n : w[i] = s[k + i]
    <3>1. k + n \in Nat /\ k <= k + n /\ k + n - k = n
      OBVIOUS
    <3>2. /\ w \in Seq(Event) /\ Len(w) = k + n - k
          /\ \A i \in 1..(k + n - k) : w[i] = s[k + i]
      BY <3>1, SliceIs
    <3> HIDE DEF w
    <3>3. QED BY <3>1, <3>2
  <2>3. \A i \in 1..n : u[i] = w[i]
    <3>1. \A i \in 1..n : i \in 1..(Len(s) - k)
      BY <1>1
    <3> HIDE DEF u, w
    <3>2. QED BY <3>1, <2>1, <2>2, <1>2 DEF x
  <2> HIDE DEF u, w
  <2>4. u = w
    BY <2>1, <2>2, <2>3, SeqEqual
  <2>5. QED BY <2>4 DEF u, w, x
<1>4. SubSeq(s, k + 1, k + n) \o SubSeq(s, k + n + 1, Len(s)) = SubSeq(s, k + 1, Len(s))
  <2> DEFINE m == k + 1
             j == k + n
             l == Len(s)
  <2>1. m \in 1..(Len(s) + 1) /\ j \in (m - 1)..Len(s) /\ l \in j..Len(s)
    BY <1>1
  <2> HIDE DEF m, j, l
  <2>2. SubSeq(s, m, j) \o SubSeq(s, j + 1, l) = SubSeq(s, m, l)
    BY <2>1, ConcatAdjacentSubSeq
  <2>3. QED BY <2>2 DEF m, j, l
<1>5. QED BY <1>3, <1>4 DEF Suffix

LEMMA Typed ==
  ASSUME StatusInv
  PROVE  /\ volume \in Maps /\ index \in Maps /\ fresh \in Maps /\ batch \in Seq(Event)
         /\ journal.recs \in Seq(Event) /\ Len(journal.recs) \in Nat
         /\ cursor.next \in Nat /\ pos \in Nat /\ journal \in Journals
BY TailAssumption DEF StatusInv, TailTypeOK, Maps, Journals

\* A change of the volume as the journal tells it.
Change(ev) ==
  /\ Usable(ev)
  /\ volume' = [volume EXCEPT ![ev.frn] = ev.file]
  /\ born' = born \union {ev.frn}
  /\ ev.kind = "rename" => volume[ev.frn] # Absent
  /\ ev.kind # "delete" =>
        \A i \in 1..Len(journal.recs) :
           ~ (journal.recs[i].kind = "delete" /\ journal.recs[i].frn = ev.frn)
  /\ journal' = IF journal.active THEN [journal EXCEPT !.recs = Append(@, ev)] ELSE journal

LEMMA ChangeShape ==
  ASSUME StatusInv, JournalInv, NamesAreGood, VolumeStep
  PROVE  (\E ev \in Event : Change(ev)) \/ Overwrite \/ DeleteJournal
<1>0. volume \in Maps
  BY Typed
<1>1. ASSUME NEW f \in Frn, NEW file \in [parent : Parent, name : Given],
             CreateFile(f, file) \/ (\E kind \in {"create", "rename"} : RenameFile(f, file, kind))
      PROVE  \E ev \in Event : Change(ev)
  <2>1. file \in File /\ file.name \notin BadName
    BY TailAssumption DEF File, NamesAreGood
  <2>2. PICK kind \in {"create", "rename"} :
           /\ Record(kind, f, file) /\ volume' = [volume EXCEPT ![f] = file]
           /\ born' = born \union {f}
           /\ kind = "rename" => volume[f] # Absent
           /\ volume[f] # Absent \/ f \notin born
    <3>1. CASE CreateFile(f, file)
      BY <3>1 DEF CreateFile
    <3>2. ASSUME NEW kind \in {"create", "rename"}, RenameFile(f, file, kind)
          PROVE  /\ Record(kind, f, file) /\ volume' = [volume EXCEPT ![f] = file]
                 /\ born' = born \union {f} /\ volume[f] # Absent
      BY <3>2 DEF RenameFile, JournalInv
    <3>3. QED BY <1>1, <3>1, <3>2
  <2> DEFINE ev == [kind |-> kind, frn |-> f, file |-> file]
  <2>3. ev \in Event /\ ev.kind = kind /\ ev.frn = f /\ ev.file = file
    BY <2>1 DEF Event
  <2>4. journal' = IF journal.active THEN [journal EXCEPT !.recs = Append(@, ev)] ELSE journal
    BY <2>2 DEF Record
  <2>5. \A i \in 1..Len(journal.recs) :
           ~ (journal.recs[i].kind = "delete" /\ journal.recs[i].frn = f)
    BY <2>2 DEF JournalInv
  <2> HIDE DEF ev
  <2>6. Change(ev)
    BY <2>1, <2>2, <2>3, <2>4, <2>5 DEF Change, Usable
  <2>7. QED BY <2>3, <2>6
<1>2. ASSUME NEW f \in Frn, DeleteFile(f) PROVE \E ev \in Event : Change(ev)
  <2> DEFINE ev == [kind |-> "delete", frn |-> f, file |-> Absent]
  <2>1. ev \in Event /\ ev.kind = "delete" /\ ev.frn = f /\ ev.file = Absent
    BY DEF Event
  <2>2. journal' = IF journal.active THEN [journal EXCEPT !.recs = Append(@, ev)] ELSE journal
    BY <1>2 DEF DeleteFile, Record
  <2>3. volume' = [volume EXCEPT ![f] = Absent] /\ born' = born \union {f}
    BY <1>2 DEF DeleteFile, JournalInv
  <2> HIDE DEF ev
  <2>4. Change(ev)
    BY <2>1, <2>2, <2>3 DEF Change, Usable
  <2>5. QED BY <2>1, <2>4
<1>3. QED BY <1>1, <1>2 DEF VolumeStep

\* What the index makes of the event is what the volume made of the change.
LEMMA ChangeIsApply ==
  ASSUME StatusInv, NEW ev \in Event, Change(ev)
  PROVE  volume' = Apply(volume, ev) /\ volume' \in Maps
<1>1. volume \in Maps
  BY Typed
<1>2. volume' \in Maps
  BY <1>1 DEF Change, Maps, Event
<1>3. volume' = Apply(volume, ev)
  <2>1. CASE ev.kind = "create"
    BY <2>1, <1>1 DEF Change, Apply, Usable
  <2>2. CASE ev.kind = "rename"
    BY <2>2, <1>1 DEF Change, Apply, Usable
  <2>3. CASE ev.kind = "delete"
    <3>1. ev.file = Absent
      BY <2>3 DEF Event
    <3>2. QED BY <2>3, <3>1 DEF Change, Apply
  <2>4. QED BY <2>1, <2>2, <2>3 DEF Event
<1>4. QED BY <1>2, <1>3

\* The journal after a change.
LEMMA ChangeRecs ==
  ASSUME StatusInv, NEW ev \in Event, Change(ev)
  PROVE  /\ journal.active => journal'.recs = Append(journal.recs, ev)
         /\ ~ journal.active => journal'.recs = journal.recs
         /\ journal'.active = journal.active /\ journal'.id = journal.id
<1>1. Append(journal.recs, ev) \in Seq(Event) /\ journal \in Journals
  BY Typed, AppendProperties
<1>2. QED BY <1>1, JournalRecs DEF Change

LEMMA ChangeJournal ==
  ASSUME StatusInv, JournalInv, NEW ev \in Event, Change(ev)
  PROVE  JournalInv'
<1>1. volume \in Maps /\ journal.recs \in Seq(Event) /\ Len(journal.recs) \in Nat
  BY Typed
<1>2. ev.frn \in Frn /\ (ev.kind = "delete" <=> ev.file = Absent)
  BY TailAssumption DEF Event, File
<1>3. GoodNames(volume')
  BY <1>1, <1>2 DEF GoodNames, JournalInv, Change, Usable, Maps
<1>4. \A f \in Frn : volume'[f] # Absent => f \in born'
  BY <1>1, <1>2 DEF JournalInv, Change, Maps
<1>5. ~ journal'.active => journal'.recs = <<>>
  BY ChangeRecs DEF JournalInv
<1> DEFINE r == Append(journal.recs, ev)
<1>8. /\ Len(r) = Len(journal.recs) + 1 /\ r[Len(journal.recs) + 1] = ev
      /\ \A i \in 1..Len(journal.recs) : r[i] = journal.recs[i]
  <2> DEFINE s == journal.recs
  <2>1. s \in Seq(Event)
    BY <1>1
  <2> HIDE DEF s
  <2>2. /\ Len(Append(s, ev)) = Len(s) + 1 /\ Append(s, ev)[Len(s) + 1] = ev
        /\ \A i \in 1..Len(s) : Append(s, ev)[i] = s[i]
    BY <2>1, AppendProperties
  <2>3. QED BY <2>2 DEF s
<1>9. journal.active => journal'.recs = r
  BY ChangeRecs
<1> HIDE DEF r
<1>6. ASSUME NEW i \in 1..Len(journal'.recs)
      PROVE  /\ Usable(journal'.recs[i]) /\ journal'.recs[i].frn \in born'
             /\ journal'.recs[i].kind = "delete" => volume'[journal'.recs[i].frn] = Absent
  <2>1. CASE journal.active /\ i = Len(journal.recs) + 1
    <3>1. journal'.recs[i] = ev
      BY <2>1, <1>8, <1>9
    <3>2. QED BY <3>1, <1>1, <1>2 DEF Change, Maps
  <2>2. CASE ~ journal.active \/ i # Len(journal.recs) + 1
    <3>1. i \in 1..Len(journal.recs) /\ journal'.recs[i] = journal.recs[i]
      <4>1. CASE journal.active
        <5>1. Len(journal'.recs) = Len(journal.recs) + 1
          BY <4>1, <1>8, <1>9
        <5>2. i \in 1..Len(journal.recs)
          BY <5>1, <4>1, <2>2, <1>1
        <5>3. QED BY <5>2, <4>1, <1>8, <1>9
      <4>2. CASE ~ journal.active
        BY <4>2, ChangeRecs
      <4>3. QED BY <4>1, <4>2
    <3> DEFINE e == journal.recs[i]
    <3>2. Usable(e) /\ e.frn \in born /\ (e.kind = "delete" => volume[e.frn] = Absent)
      BY <3>1 DEF JournalInv
    <3>3. e \in Event /\ e.frn \in Frn
      BY <3>1, <1>1 DEF Event
    <3>4. e.kind = "delete" => volume'[e.frn] = Absent
      <4>1. CASE e.frn = ev.frn /\ e.kind = "delete"
        BY <4>1, <3>1, <1>1, <1>2 DEF Change, Maps
      <4>2. CASE e.frn # ev.frn
        BY <4>2, <3>2, <3>3, <1>1 DEF Change, Maps
      <4>3. QED BY <4>1, <4>2
    <3>5. e.frn \in born'
      BY <3>2 DEF Change
    <3>6. QED BY <3>1, <3>2, <3>4, <3>5
  <2>3. QED BY <2>1, <2>2
<1>7. QED BY <1>3, <1>4, <1>5, <1>6 DEF JournalInv

\* A change leaves the last records as idempotent as they were: what they did to the
\* other references they still do, and the event itself is the last word on its own.
LEMMA ChangeIdempotent ==
  ASSUME StatusInv, JournalInv, Idempotent, NEW ev \in Event, Change(ev)
  PROVE  Idempotent'
<1>1. /\ volume \in Maps /\ volume' \in Maps /\ journal.recs \in Seq(Event)
      /\ Len(journal.recs) \in Nat /\ volume' = Apply(volume, ev)
  BY Typed, ChangeIsApply
<1>2. CASE ~ journal.active
  <2>1. journal'.recs = <<>> /\ <<>> \in Seq(Event) /\ Len(<<>>) = 0
    BY <1>2, ChangeRecs DEF JournalInv
  <2>2. Suffix(<<>>, 0) = <<>>
    BY <2>1, SuffixEnd
  <2>3. Replay(volume', <<>>) = volume'
    BY <1>1, ReplayEmpty
  <2>4. \A k \in 0..Len(journal'.recs) : k = 0
    BY <2>1
  <2>5. QED BY <2>1, <2>2, <2>3, <2>4 DEF Idempotent
<1>3. CASE journal.active
  <2> DEFINE s == journal.recs
             r == journal'.recs
  <2>1. r = Append(s, ev) /\ r \in Seq(Event) /\ Len(r) = Len(s) + 1
    <3>1. r = Append(s, ev)
      BY <1>3, ChangeRecs
    <3>2. s \in Seq(Event)
      BY <1>1
    <3> HIDE DEF s, r
    <3>3. Append(s, ev) \in Seq(Event) /\ Len(Append(s, ev)) = Len(s) + 1
      BY <3>2, AppendProperties
    <3>4. QED BY <3>1, <3>3
  <2>2. ASSUME NEW k \in 0..Len(s) PROVE Replay(volume', Suffix(r, k)) = volume'
    <3> DEFINE t == Suffix(s, k)
    <3>1. t \in Seq(Event) /\ Len(t) = Len(s) - k /\ \A i \in 1..Len(t) : t[i] = s[k + i]
      <4>1. s \in Seq(Event) /\ Len(s) \in Nat /\ k \in Nat /\ k <= Len(s)
        BY <1>1
      <4> HIDE DEF s
      <4>2. /\ SubSeq(s, k + 1, Len(s)) \in Seq(Event) /\ Len(SubSeq(s, k + 1, Len(s))) = Len(s) - k
            /\ \A i \in 1..(Len(s) - k) : SubSeq(s, k + 1, Len(s))[i] = s[k + i]
        BY <4>1, SliceIs
      <4>3. QED BY <4>2 DEF Suffix
    <3>2. Suffix(r, k) = Append(t, ev) /\ Replay(volume, t) = volume
      BY <2>1, <1>1, SuffixAppend DEF Idempotent
    <3> HIDE DEF t
    <3>3. Replay(volume', Suffix(r, k)) = Apply(Replay(volume', t), ev)
      BY <3>1, <3>2, <1>1, ReplayAppend
    <3>4. Replay(volume', t) \in Maps
      BY <3>1, <1>1, ReplayType
    <3>5. ASSUME NEW f \in Frn PROVE Apply(Replay(volume', t), ev)[f] = volume'[f]
      <4>1. CASE f # ev.frn
        <5>1. volume'[f] = volume[f]
          BY <4>1, <1>1, ApplyLocal
        <5>2. Replay(volume', t)[f] = Replay(volume, t)[f]
          BY <5>1, <1>1, <3>1, ReplayLocal
        <5>3. Apply(Replay(volume', t), ev)[f] = Replay(volume', t)[f]
          BY <4>1, <3>4, ApplyLocal
        <5>4. QED BY <5>1, <5>2, <5>3, <3>2
      <4>2. CASE f = ev.frn /\ ev.kind = "rename"
        <5>1. volume'[f] = ev.file /\ ev.file # Absent
          BY <4>2, <1>1, TailAssumption DEF Change, Maps, Event, File
        <5>2. \A i \in 1..Len(t) : ~ (t[i].kind = "delete" /\ t[i].frn = f)
          <6>1. \A i \in 1..Len(t) : k + i \in 1..Len(s)
            BY <3>1, <1>1
          <6>2. \A i \in 1..Len(s) : ~ (s[i].kind = "delete" /\ s[i].frn = f)
            BY <4>2 DEF Change
          <6>3. QED BY <6>1, <6>2, <3>1
        <5>3. Replay(volume', t)[f] # Absent
          <6>1. Absent \notin File
            BY TailAssumption DEF File
          <6>2. QED BY <5>1, <5>2, <6>1, <3>1, <1>1, ReplayKeeps
        <5>4. QED BY <5>1, <5>3, <4>2, <3>4 DEF Apply, Maps, Change, Usable
      <4>3. CASE f = ev.frn /\ ev.kind \in {"create", "delete"}
        <5>1. volume'[f] = ev.file /\ (ev.kind = "delete" => ev.file = Absent)
          BY <4>3, <1>1 DEF Change, Maps, Event
        <5>2. QED BY <4>3, <5>1, <3>4 DEF Apply, Maps, Change, Usable
      <4>4. QED BY <4>1, <4>2, <4>3 DEF Event
    <3>6. Apply(Replay(volume', t), ev) \in Maps
      BY <3>4, ApplyType
    <3>7. QED BY <3>3, <3>5, <3>6, <1>1 DEF Maps
  <2>3. Replay(volume', Suffix(r, Len(r))) = volume'
    BY <2>1, <1>1, SuffixEnd, ReplayEmpty
  <2>4. \A k \in 0..Len(r) : k \in 0..Len(s) \/ k = Len(r)
    BY <2>1, <1>1
  <2>5. QED BY <2>2, <2>3, <2>4 DEF Idempotent
<1>4. QED BY <1>2, <1>3

\* While a change is recorded, what is still to be read ends in it.
LEMMA ChangeUnread ==
  ASSUME StatusInv, NEW ev \in Event, Change(ev), cursor' = cursor, Live'
  PROVE  Live /\ Unread' = Append(Unread, ev) /\ Unread \in Seq(Event)
<1>1. journal.active /\ journal'.recs = Append(journal.recs, ev) /\ Live
  BY ChangeRecs DEF Live
<1>2. journal.recs \in Seq(Event) /\ cursor.next \in 0..Len(journal.recs)
  BY <1>1, Typed DEF StatusInv
<1>3. Unread' = Suffix(Append(journal.recs, ev), cursor.next) /\ Unread = Suffix(journal.recs, cursor.next)
  BY <1>1 DEF Unread, Suffix
<1>4. Suffix(journal.recs, cursor.next) \in Seq(Event)
  BY <1>2, UnreadProps DEF Suffix
<1>5. QED BY <1>1, <1>2, <1>3, <1>4, SuffixAppend

LEMMA ChangeScan ==
  ASSUME StatusInv, ScanInv, NEW ev \in Event, Change(ev),
         UNCHANGED <<tail, cursor, fresh, pos>>
  PROVE  ScanInv'
<1>1. SUFFICES ASSUME tail = "scan", Live'
               PROVE  /\ \A f \in Frn : f < pos => Replay(fresh, Unread')[f] = volume'[f]
                      /\ \A f \in Frn : f >= pos => fresh[f] = Absent
  BY DEF ScanInv
<1>2. Live /\ Unread' = Append(Unread, ev) /\ Unread \in Seq(Event)
  BY <1>1, ChangeUnread
<1>3. fresh \in Maps /\ volume \in Maps /\ volume' = Apply(volume, ev)
  BY Typed, ChangeIsApply
<1>4. Replay(fresh, Unread') = Apply(Replay(fresh, Unread), ev) /\ Replay(fresh, Unread) \in Maps
  BY <1>2, <1>3, ReplayAppend, ReplayType
<1>5. ASSUME NEW f \in Frn, f < pos PROVE Replay(fresh, Unread')[f] = volume'[f]
  <2>1. Replay(fresh, Unread)[f] = volume[f]
    BY <1>1, <1>2, <1>5 DEF ScanInv
  <2>2. QED BY <2>1, <1>3, <1>4, ApplyLocal
<1>6. QED BY <1>1, <1>2, <1>5 DEF ScanInv

LEMMA ChangeServed ==
  ASSUME StatusInv, ServedInv, NEW ev \in Event, Change(ev),
         UNCHANGED <<vol_state, tail, cursor, index, batch>>
  PROVE  ServedInv'
<1>1. SUFFICES ASSUME vol_state # "down", ~ Scanning, Live'
               PROVE  Replay(index, batch \o Unread') = volume'
  BY DEF ServedInv, Scanning
<1>2. Live /\ Unread' = Append(Unread, ev) /\ Unread \in Seq(Event)
  BY <1>1, ChangeUnread
<1>3. index \in Maps /\ batch \in Seq(Event) /\ volume' = Apply(volume, ev)
  BY Typed, ChangeIsApply
<1>4. batch \o Append(Unread, ev) = Append(batch \o Unread, ev) /\ batch \o Unread \in Seq(Event)
  <2>1. <<ev>> \in Seq(Event)
    OBVIOUS
  <2>2. (batch \o Unread) \o <<ev>> = batch \o (Unread \o <<ev>>) /\ batch \o Unread \in Seq(Event)
    BY <2>1, <1>2, <1>3, ConcatAssociative
  <2>3. QED BY <2>2, <1>2, AppendIsConcat
<1>5. Replay(index, batch \o Unread) = volume
  BY <1>1, <1>2 DEF ServedInv
<1>6. QED BY <1>2, <1>3, <1>4, <1>5, ReplayAppend

\* The other steps of the volume take records or the journal away.
LEMMA OverwriteKeeps ==
  ASSUME StatusInv, JournalInv, Idempotent, ScanInv, ServedInv, Overwrite,
         UNCHANGED <<vol_state, tail, cursor, batch, fresh, pos, index>>
  PROVE  JournalInv' /\ Idempotent' /\ ScanInv' /\ ServedInv'
<1>1. /\ journal'.recs = journal.recs /\ journal'.active = journal.active
      /\ journal'.id = journal.id /\ volume' = volume /\ born' = born
  <2>1. journal \in Journals /\ journal.recs \in Seq(Event) /\ journal.first + 1 \in Nat
    BY Typed DEF Journals
  <2>2. QED BY <2>1, JournalFirst DEF Overwrite
<1>2. QED
  BY <1>1 DEF JournalInv, Idempotent, ScanInv, ServedInv, Live, Scanning, Unread

LEMMA DeleteJournalKeeps ==
  ASSUME StatusInv, JournalInv, DeleteJournal
  PROVE  JournalInv' /\ Idempotent' /\ ScanInv' /\ ServedInv'
<1>1. journal'.recs = <<>> /\ ~ journal'.active /\ volume' = volume /\ born' = born
  BY Typed, JournalGone DEF DeleteJournal
<1>2. JournalInv'
  BY <1>1 DEF JournalInv
<1>3. Idempotent'
  <2>1. Suffix(<<>>, 0) = <<>> /\ Len(<<>>) = 0
    BY SuffixOfNothing
  <2>2. Replay(volume, <<>>) = volume
    BY Typed, ReplayEmpty
  <2>3. \A k \in 0..Len(journal'.recs) : k = 0
    BY <1>1, <2>1
  <2>4. QED BY <1>1, <2>1, <2>2, <2>3 DEF Idempotent
<1>4. QED BY <1>1, <1>2, <1>3 DEF ScanInv, ServedInv, Live

LEMMA QueryKeeps ==
  ASSUME StatusInv, JournalInv, Idempotent, QueryJournal
  PROVE  JournalInv' /\ Idempotent' /\ ScanInv' /\ ServedInv'
<1>1. journal'.recs = journal.recs /\ volume' = volume /\ born' = born
  BY DEF QueryJournal, JournalInv
<1>2. JournalInv'
  BY <1>1 DEF QueryJournal, JournalInv
<1>3. Idempotent'
  BY <1>1 DEF Idempotent
<1>4. ScanInv'
  BY DEF ScanInv, QueryJournal, Empty, Frn
<1>5. QED BY <1>2, <1>3, <1>4 DEF ServedInv, Scanning, QueryJournal

\* A record enumerated is the file as it is; replaying over it what happened to it
\* before changes nothing.
LEMMA ScanKeeps ==
  ASSUME StatusInv, JournalInv, Idempotent, ScanInv, ScanRecord
  PROVE  ScanInv'
<1>0. UNCHANGED <<volume, journal, cursor, tail>> /\ tail = "scan" /\ pos' = pos + 1
  BY DEF ScanRecord, volumeVars
<1>1. SUFFICES ASSUME Live
               PROVE  /\ \A f \in Frn : f < pos + 1 => Replay(fresh', Unread)[f] = volume[f]
                      /\ \A f \in Frn : f >= pos + 1 => fresh'[f] = Absent
  BY <1>0 DEF ScanInv, Live, Unread
<1>2. /\ fresh \in Maps /\ volume \in Maps /\ pos \in Frn /\ cursor.next \in 0..Len(journal.recs)
      /\ journal.recs \in Seq(Event)
  BY <1>1, Typed, TailAssumption DEF ScanRecord, StatusInv, TailTypeOK, Frn
<1>3. fresh[pos] = Absent
  BY <1>0, <1>1, <1>2 DEF ScanInv, Frn
<1>4. fresh' \in Maps /\ fresh'[pos] = volume[pos] /\ \A f \in Frn : f # pos => fresh'[f] = fresh[f]
  <2>1. CASE volume[pos] # Absent
    <3>1. fresh' = [fresh EXCEPT ![pos] = volume[pos]]
      BY <1>2, <2>1 DEF ScanRecord, JournalInv, GoodNames
    <3>2. QED BY <3>1, <1>2 DEF Maps
  <2>2. CASE volume[pos] = Absent
    BY <1>2, <1>3, <2>2 DEF ScanRecord
  <2>3. QED BY <2>1, <2>2
<1>5. Unread = Suffix(journal.recs, cursor.next) /\ Unread \in Seq(Event)
  BY <1>2, UnreadProps DEF Suffix, Unread
<1>6. ASSUME NEW f \in Frn, f < pos + 1 PROVE Replay(fresh', Unread)[f] = volume[f]
  <2>1. CASE f = pos
    <3>1. Replay(volume, Unread) = volume
      BY <1>2, <1>5 DEF Idempotent
    <3>2. Replay(fresh', Unread)[f] = Replay(volume, Unread)[f]
      BY <2>1, <1>2, <1>4, <1>5, ReplayLocal
    <3>3. QED BY <3>1, <3>2
  <2>2. CASE f # pos
    <3>1. f < pos /\ fresh'[f] = fresh[f]
      BY <2>2, <1>2, <1>4, <1>6 DEF Frn
    <3>2. Replay(fresh, Unread)[f] = volume[f]
      BY <3>1, <1>0, <1>1 DEF ScanInv
    <3>3. Replay(fresh', Unread)[f] = Replay(fresh, Unread)[f]
      BY <3>1, <1>2, <1>4, <1>5, ReplayLocal
    <3>4. QED BY <3>2, <3>3
  <2>3. QED BY <2>1, <2>2
<1>7. ASSUME NEW f \in Frn, f >= pos + 1 PROVE fresh'[f] = Absent
  <2>1. f # pos /\ f >= pos
    BY <1>7, <1>2 DEF Frn
  <2>2. QED BY <2>1, <1>0, <1>1, <1>4 DEF ScanInv
<1>8. QED BY <1>6, <1>7

\* A finished enumeration is served: with the unread events it is the volume.
LEMMA ServeKeeps ==
  ASSUME StatusInv, ScanInv, Serve \/ Swap PROVE ServedInv'
<1>0. /\ UNCHANGED <<volume, journal, cursor, batch>> /\ index' = fresh /\ tail = "scan"
      /\ pos > MaxFrn
  BY DEF Serve, Swap, volumeVars
<1>1. SUFFICES ASSUME Live PROVE Replay(fresh, <<>> \o Unread) = volume
  <2>1. batch' = <<>> /\ Unread' = Unread /\ Live' = Live
    BY <1>0 DEF StatusInv, Unread, Live
  <2>2. QED BY <1>0, <2>1 DEF ServedInv
<1>2. fresh \in Maps /\ volume \in Maps /\ Unread \in Seq(Event)
  BY <1>1, Typed, UnreadProps DEF Unread, StatusInv
<1>3. <<>> \o Unread = Unread /\ Replay(fresh, Unread) \in Maps
  BY <1>2, ConcatEmptySeq, ReplayType
<1>4. \A f \in Frn : Replay(fresh, Unread)[f] = volume[f]
  <2>1. \A f \in Frn : f < pos
    BY <1>0, Typed, TailAssumption DEF Frn
  <2>2. QED BY <2>1, <1>0, <1>1 DEF ScanInv
<1>5. QED BY <1>2, <1>3, <1>4 DEF Maps

\* What is read moves from the unread events into the batch.
LEMMA ReadKeeps ==
  ASSUME StatusInv, ServedInv, ReadEvents PROVE ServedInv'
<1>0. UNCHANGED <<volume, journal, index, vol_state>> /\ tail = "reading" /\ Live
  BY DEF ReadEvents, volumeVars, statusVars, Readable, Live
<1>1. batch = <<>> /\ cursor.next <= Len(journal.recs)
  BY <1>0 DEF StatusInv
<1>2. /\ journal.recs \in Seq(Event) /\ Len(journal.recs) \in Nat /\ cursor.next \in Nat
      /\ Unread \in Seq(Event) /\ Len(Unread) = Len(journal.recs) - cursor.next
      /\ index \in Maps
  BY <1>1, Typed, UnreadProps DEF Unread
<1>3. PICK n \in 1..Len(Unread) : batch' = SubSeq(Unread, 1, n)
                                   /\ cursor' = [cursor EXCEPT !.next = @ + n]
  BY DEF ReadEvents
<1>4. n \in Nat /\ cursor.next + n <= Len(journal.recs)
  BY <1>2
<1>5. cursor'.next = cursor.next + n /\ cursor'.id = cursor.id
  BY <1>3 DEF StatusInv
<1>6. batch' \o Unread' = Unread
  <2>1. Unread = Suffix(journal.recs, cursor.next) /\ Unread' = Suffix(journal.recs, cursor.next + n)
    BY <1>0, <1>5 DEF Unread, Suffix
  <2>2. SubSeq(Suffix(journal.recs, cursor.next), 1, n) \o Suffix(journal.recs, cursor.next + n)
           = Suffix(journal.recs, cursor.next)
    BY <1>2, <1>4, SuffixSplit
  <2>3. QED BY <2>1, <2>2, <1>3
<1>7. <<>> \o Unread = Unread
  BY <1>2, ConcatEmptySeq
<1>8. vol_state # "down" => Replay(index, Unread) = volume
  BY <1>0, <1>1, <1>7 DEF ServedInv, Scanning
<1>9. QED BY <1>0, <1>6, <1>8 DEF ServedInv

LEMMA ApplyKeeps ==
  ASSUME StatusInv, ServedInv, ApplyBatch PROVE ServedInv'
<1>0. /\ UNCHANGED <<volume, journal, cursor, vol_state>> /\ tail = "apply"
      /\ index' = Replay(index, batch) /\ batch' = <<>>
  BY DEF ApplyBatch, volumeVars, statusVars
<1>1. SUFFICES ASSUME vol_state # "down", Live
               PROVE  Replay(Replay(index, batch), <<>> \o Unread) = volume
  BY <1>0 DEF ServedInv, Live, Unread
<1>2. index \in Maps /\ batch \in Seq(Event) /\ Unread \in Seq(Event)
  BY <1>1, Typed, UnreadProps DEF Unread, StatusInv
<1>3. <<>> \o Unread = Unread
  BY <1>2, ConcatEmptySeq
<1>4. Replay(index, batch \o Unread) = volume
  BY <1>0, <1>1 DEF ServedInv, Scanning
<1>5. QED BY <1>2, <1>3, <1>4, ReplayConcat

\* However the volume changes while it is enumerated, between the batches and while
\* one is in hand, the index served, the events in hand and those not yet read make
\* the volume as it is.
THEOREM NothingIsLost ==
  ASSUME NamesAreGood PROVE TailSpec => []NothingLost
<1> DEFINE Inv == JournalInv /\ Idempotent /\ ScanInv /\ ServedInv
<1>1. TailInit => Inv
  <2> SUFFICES ASSUME TailInit PROVE Inv
    OBVIOUS
  <2>1. journal.recs = <<>> /\ journal.active /\ tail = "query" /\ vol_state = "down" /\ volume \in Maps
    BY TailAssumption DEF TailInit, Maps, File, Frn
  <2>2. JournalInv
    BY <2>1 DEF JournalInv, TailInit, NamesAreGood
  <2>3. Idempotent
    <3>1. Suffix(<<>>, 0) = <<>> /\ Len(<<>>) = 0
      BY SuffixOfNothing
    <3>2. Replay(volume, <<>>) = volume
      BY <2>1, ReplayEmpty
    <3>3. \A k \in 0..Len(journal.recs) : k = 0
      BY <2>1, <3>1
    <3>4. QED BY <2>1, <3>1, <3>2, <3>3 DEF Idempotent
  <2>4. QED BY <2>1, <2>2, <2>3 DEF ScanInv, ServedInv
<1>2. StatusInv /\ Inv /\ [TailNext]_tailVars => Inv'
  <2> SUFFICES ASSUME StatusInv, Inv, [TailNext]_tailVars PROVE Inv'
    OBVIOUS
  <2>1. CASE VolumeStep
    <3>1. UNCHANGED <<tail, cursor, batch, fresh, pos, index, vol_state>>
      BY <2>1 DEF VolumeStep, enumVars, statusVars
    <3>2. ASSUME NEW ev \in Event, Change(ev) PROVE Inv'
      BY <3>1, <3>2, ChangeJournal, ChangeIdempotent, ChangeScan, ChangeServed
    <3>3. QED BY <2>1, <3>1, <3>2, ChangeShape, OverwriteKeeps, DeleteJournalKeeps
  <2> DEFINE Still == UNCHANGED <<volume, born, journal>>
  <2>2. ASSUME Still PROVE JournalInv' /\ Idempotent'
    BY <2>2 DEF JournalInv, Idempotent
  <2>3. CASE QueryJournal
    BY <2>3, QueryKeeps
  <2>4. CASE ScanRecord
    BY <2>2, <2>4, ScanKeeps DEF ScanRecord, volumeVars, ServedInv, Scanning
  <2>5. CASE Serve \/ Swap
    <3>1. Still /\ tail' # "scan"
      BY <2>5 DEF Serve, Swap, volumeVars
    <3>2. QED BY <2>2, <2>5, <3>1, ServeKeeps DEF ScanInv
  <2>6. CASE ReadEvents
    <3>1. Still /\ tail' # "scan"
      BY <2>6 DEF ReadEvents, volumeVars
    <3>2. QED BY <2>2, <2>6, <3>1, ReadKeeps DEF ScanInv
  <2>7. CASE ApplyBatch
    <3>1. Still /\ tail' # "scan"
      BY <2>7 DEF ApplyBatch, volumeVars
    <3>2. QED BY <2>2, <2>7, <3>1, ApplyKeeps DEF ScanInv
  <2>8. CASE ScanFails \/ BeginRebuild \/ Restart
    <3>1. Still /\ tail' = "query"
      BY <2>8 DEF ScanFails, BeginRebuild, Restart, volumeVars
    <3>2. QED BY <2>2, <3>1 DEF ScanInv, ServedInv, Scanning
  <2>9. CASE BumpEpoch \/ PublishTailing \/ EndRebuild \/ StartRead \/ ReadFails \/ NeedsRebuild
    <3>1. /\ Still /\ UNCHANGED <<cursor, batch, index>>
          /\ tail \notin {"query", "scan"} /\ tail' \notin {"query", "scan"}
          /\ vol_state # "down"
      BY <2>9 DEF BumpEpoch, PublishTailing, EndRebuild, StartRead, ReadFails, NeedsRebuild,
                  volumeVars, StatusInv
    <3>2. QED BY <2>2, <3>1 DEF ScanInv, ServedInv, Scanning, Live, Unread
  <2>10. CASE BeginCompact \/ EndCompact \/ SetPaused
    <3>1. Still /\ UNCHANGED <<cursor, batch, index, tail, fresh, pos, vol_state>>
      BY <2>10 DEF BeginCompact, EndCompact, SetPaused, volumeVars, enumVars
    <3>2. QED BY <2>2, <3>1 DEF ScanInv, ServedInv, Scanning, Live, Unread
  <2>11. CASE UNCHANGED tailVars
    <3>1. Still /\ UNCHANGED <<cursor, batch, index, tail, fresh, pos, vol_state>>
      BY <2>11 DEF tailVars, volumeVars, enumVars, statusVars
    <3>2. QED BY <2>2, <3>1 DEF ScanInv, ServedInv, Scanning, Live, Unread
  <2>12. QED
    BY <2>1, <2>3, <2>4, <2>5, <2>6, <2>7, <2>8, <2>9, <2>10, <2>11
    DEF TailNext, TailStep, TailFails, ServiceStep
<1>3. StatusInv /\ Inv => NothingLost
  <2> SUFFICES ASSUME StatusInv, Inv, vol_state # "down", ~ Scanning, Readable
               PROVE  Replay(index, batch \o Unread) = Indexed
    BY DEF NothingLost
  <2>1. Replay(index, batch \o Unread) = volume
    BY DEF ServedInv, Readable, Live
  <2>2. Indexed = volume
    BY Typed DEF Indexed, Maps, JournalInv, GoodNames
  <2>3. QED BY <2>1, <2>2
<1>4. QED
  <2> HIDE DEF Inv
  <2>1. QED BY StatusInvariant, <1>1, <1>2, <1>3, PTL DEF TailSpec

-----------------------------------------------------------------------------
(* Names the index cannot hold.                                            *)

\* What a history of a volume says, and what its replay makes of it: the claim of
\* BadNamesStayLocal, with the types and the file a reference has being one it bore.
BoreIn(h, f) == {h.evs[i].file : i \in {j \in DOMAIN h.evs : h.evs[j].frn = f}}
History == [volume : Maps, used : SUBSET Frn, evs : Seq(Event)]
LocalOf(h, f) ==
  LET ix == Replay(Empty, h.evs)
  IN  /\ h.volume[f] = Absent => ix[f] = Absent
      /\ (\A file \in BoreIn(h, f) \ {Absent} : file.name \notin BadName) => ix[f] = h.volume[f]
      /\ ix[f] # Absent => ix[f] \in BoreIn(h, f) /\ ix[f].name \notin BadName
      /\ h.volume[f] # Absent => h.volume[f] \in BoreIn(h, f)
LocalIn(h) == h \in History /\ \A f \in Frn : LocalOf(h, f)

\* A volume that never had a file.
LEMMA LocalAtFirst == LocalIn([volume |-> Empty, used |-> {}, evs |-> <<>>])
<1> DEFINE h == [volume |-> Empty, used |-> {}, evs |-> <<>>]
<1>1. Empty \in Maps
  BY DEF Empty, Maps
<1>2. h \in History /\ h.volume = Empty /\ h.evs = <<>>
  BY <1>1 DEF History
<1>3. Replay(Empty, <<>>) = Empty
  BY <1>1, ReplayEmpty
<1> HIDE DEF h
<1>4. \A f \in Frn : Empty[f] = Absent
  BY DEF Empty
<1>5. ASSUME NEW f \in Frn PROVE LocalOf(h, f)
  BY <1>2, <1>3, <1>4 DEF LocalOf
<1>6. LocalIn(h)
  BY <1>2, <1>5 DEF LocalIn
<1> QED
  BY <1>6 DEF h

\* One change more.
LEMMA LocalNext ==
  ASSUME NEW h, LocalIn(h), NEW ev \in Changes(h.volume, h.used)
  PROVE  LocalIn([volume |-> Changed(h.volume, ev), used |-> h.used \union {ev.frn},
                  evs |-> Append(h.evs, ev)])
<1> DEFINE d == [volume |-> Changed(h.volume, ev), used |-> h.used \union {ev.frn},
                 evs |-> Append(h.evs, ev)]
           ix == Replay(Empty, h.evs)
           n == Len(h.evs)
<1>0. Absent \notin File
  BY TailAssumption DEF File
<1>1. h \in History /\ h.volume \in Maps /\ h.used \in SUBSET Frn /\ h.evs \in Seq(Event) /\ n \in Nat
  BY DEF LocalIn, History
<1>2. /\ ev \in Event /\ ev.frn \in Frn /\ ev.kind \in {"create", "rename", "delete"}
      /\ ev.kind = "delete" => ev.file = Absent
      /\ ev.kind # "delete" => ev.file \in File
      /\ ev.kind = "rename" => h.volume[ev.frn] # Absent
  BY DEF Changes, Event
<1>3. Empty \in Maps /\ ix \in Maps
  BY <1>1, ReplayType DEF Empty, Maps
<1>4. Replay(Empty, Append(h.evs, ev)) = Apply(ix, ev)
  BY <1>1, <1>2, <1>3, ReplayAppend
<1>5. /\ Append(h.evs, ev) \in Seq(Event) /\ Len(Append(h.evs, ev)) = n + 1
      /\ Append(h.evs, ev)[n + 1] = ev /\ \A i \in 1..n : Append(h.evs, ev)[i] = h.evs[i]
  BY <1>1, <1>2
<1>6. Changed(h.volume, ev) \in Maps
  BY <1>1, <1>2 DEF Changed, Maps
<1>7. /\ d \in History /\ d.volume = Changed(h.volume, ev) /\ d.evs = Append(h.evs, ev)
  BY <1>1, <1>2, <1>5, <1>6 DEF History
<1> DEFINE jx == Apply(ix, ev)
           es == Append(h.evs, ev)
<1>8. es \in Seq(Event) /\ DOMAIN es = 1..(n + 1) /\ DOMAIN h.evs = 1..n
  BY <1>1, <1>5
<1>9. \A f \in Frn : BoreIn(d, f) = BoreIn(h, f) \cup (IF ev.frn = f THEN {ev.file} ELSE {})
  <2> SUFFICES ASSUME NEW f \in Frn
               PROVE  BoreIn(d, f) = BoreIn(h, f) \cup (IF ev.frn = f THEN {ev.file} ELSE {})
    OBVIOUS
  <2>1. BoreIn(d, f) = {es[i].file : i \in {j \in 1..(n + 1) : es[j].frn = f}}
    BY <1>7, <1>8 DEF BoreIn
  <2>2. BoreIn(h, f) = {h.evs[i].file : i \in {j \in 1..n : h.evs[j].frn = f}}
    BY <1>8 DEF BoreIn
  <2>3. 1..(n + 1) = (1..n) \cup {n + 1}
    BY <1>1
  <2>4. es[n + 1] = ev /\ \A i \in 1..n : es[i] = h.evs[i]
    BY <1>5
  <2> HIDE DEF es, n, d
  <2>5. {es[i].file : i \in {j \in 1..(n + 1) : es[j].frn = f}}
          = {es[i].file : i \in {j \in 1..n : es[j].frn = f}} \cup {es[i].file : i \in {j \in {n + 1} : es[j].frn = f}}
    BY <2>3
  <2>6. {es[i].file : i \in {j \in 1..n : es[j].frn = f}} = {h.evs[i].file : i \in {j \in 1..n : h.evs[j].frn = f}}
    BY <2>4
  <2>7. {es[i].file : i \in {j \in {n + 1} : es[j].frn = f}} = IF ev.frn = f THEN {ev.file} ELSE {}
    BY <2>4
  <2> QED
    BY <2>1, <2>2, <2>5, <2>6, <2>7
<1>10. Replay(Empty, d.evs) = jx
  BY <1>4, <1>7
<1>11. \A f \in Frn : LocalOf(h, f)
  BY DEF LocalIn
<1>12. ASSUME NEW f \in Frn, f # ev.frn PROVE LocalOf(d, f)
  <2>1. jx[f] = ix[f]
    BY <1>2, <1>3, <1>12 DEF Apply, Maps
  <2>2. d.volume[f] = h.volume[f]
    BY <1>1, <1>2, <1>7, <1>12 DEF Changed, Maps
  <2>3. BoreIn(d, f) = BoreIn(h, f)
    BY <1>9, <1>12
  <2> HIDE DEF jx, ix, d
  <2> QED
    BY <1>10, <1>11, <2>1, <2>2, <2>3 DEF LocalOf, ix
<1>13. LocalOf(d, ev.frn)
  <2> DEFINE f == ev.frn
  <2>1. BoreIn(d, f) = BoreIn(h, f) \cup {ev.file}
    BY <1>2, <1>9
  <2>2. d.volume[f] = ev.file
    BY <1>1, <1>2, <1>7 DEF Changed, Maps
  <2>3. jx[f] = IF ev.kind = "delete" THEN Absent
                ELSE IF ev.file.name \notin BadName /\ (ev.kind = "create" \/ ix[f] # Absent) THEN ev.file
                ELSE ix[f]
    BY <1>2, <1>3 DEF Apply, Maps
  <2>4. /\ h.volume[f] = Absent => ix[f] = Absent
        /\ (\A file \in BoreIn(h, f) \ {Absent} : file.name \notin BadName) => ix[f] = h.volume[f]
        /\ ix[f] # Absent => ix[f] \in BoreIn(h, f) /\ ix[f].name \notin BadName
    BY <1>2, <1>11 DEF LocalOf
  <2> HIDE DEF jx, ix, d, f
  <2>5. ev.kind # "delete" => ev.file # Absent
    BY <1>0, <1>2
  <2>6. d.volume[f] = Absent => jx[f] = Absent
    BY <2>2, <2>3, <2>5
  <2>7. ASSUME \A file \in BoreIn(d, f) \ {Absent} : file.name \notin BadName PROVE jx[f] = d.volume[f]
    <3>1. ix[f] = h.volume[f]
      BY <2>1, <2>4, <2>7
    <3>2. ev.kind # "delete" => ev.file.name \notin BadName
      BY <2>1, <2>5, <2>7
    <3>3. ev.kind = "rename" => ix[f] # Absent
      BY <1>2, <3>1 DEF f
    <3> QED
      BY <1>2, <2>2, <2>3, <3>2, <3>3
  <2>8. jx[f] # Absent => jx[f] \in BoreIn(d, f) /\ jx[f].name \notin BadName
    BY <2>1, <2>3, <2>4
  <2>9. d.volume[f] \in BoreIn(d, f)
    BY <2>1, <2>2
  <2>10. LocalOf(d, f)
    BY <1>10, <2>6, <2>7, <2>8, <2>9 DEF LocalOf
  <2> QED
    BY <2>10 DEF f
<1>14. \A f \in Frn : LocalOf(d, f)
  BY <1>12, <1>13
<1> QED
  BY <1>7, <1>14 DEF LocalIn

More(hs) ==
  hs \union UNION {{[volume |-> Changed(h.volume, ev), used |-> h.used \union {ev.frn},
                     evs |-> Append(h.evs, ev)] : ev \in Changes(h.volume, h.used)} : h \in hs}
First == {[volume |-> Empty, used |-> {}, evs |-> <<>>]}

\* The histories are what the definition says, change by change.
LEMMA HistoriesAre ==
  Histories[0] = First /\ \A n \in 1..MaxChanges : Histories[n] = More(Histories[n - 1])
<1> DEFINE k == MaxChanges
           Def(g) == [n \in 0..k |-> IF n = 0 THEN First ELSE More(g[n - 1])]
           Upto(n, g) == g = [i \in 0..n |-> IF i = 0 THEN First ELSE More(g[i - 1])]
           T == {n \in Nat : \E g : Upto(n, g)}
<1>0. k \in Nat
  BY TailAssumption
<1>1. 0 \in T
  <2>1. Upto(0, [i \in 0..0 |-> First])
    OBVIOUS
  <2> HIDE DEF Upto
  <2> QED
    BY <2>1
<1>2. ASSUME NEW n \in 0..(k - 1), n \in T PROVE n + 1 \in T
  <2>1. PICK g : Upto(n, g)
    BY <1>2
  <2>2. n \in Nat /\ n + 1 \in Nat
    BY <1>0
  <2> DEFINE h == [i \in 0..(n + 1) |-> IF i <= n THEN g[i] ELSE More(g[n])]
  <2>3. ASSUME NEW i \in 0..(n + 1) PROVE h[i] = IF i = 0 THEN First ELSE More(h[i - 1])
    <3> HIDE DEF First, More
    <3>1. CASE i = 0
      BY <3>1, <2>1, <2>2
    <3>2. CASE i \in 1..n
      <4>1. i - 1 \in 0..n /\ i \in 0..n /\ i # 0 /\ i <= n /\ i - 1 <= n /\ i - 1 \in 0..(n + 1)
        BY <3>2, <2>2
      <4>2. h[i] = g[i] /\ h[i - 1] = g[i - 1]
        BY <4>1
      <4>3. g[i] = More(g[i - 1])
        BY <4>1, <2>1
      <4> QED
        BY <4>1, <4>2, <4>3
    <3>3. CASE i = n + 1
      <4>1. i - 1 = n /\ n \in 0..(n + 1) /\ n <= n /\ ~(i <= n) /\ i # 0
        BY <3>3, <2>2
      <4>2. h[i] = More(g[n]) /\ h[n] = g[n]
        BY <4>1
      <4> QED
        BY <4>1, <4>2
    <3> QED
      BY <3>1, <3>2, <3>3, <2>2
  <2>4. h = [i \in 0..(n + 1) |-> h[i]]
    OBVIOUS
  <2> HIDE DEF h
  <2>5. Upto(n + 1, h)
    BY <2>3, <2>4
  <2> HIDE DEF Upto
  <2> QED
    BY <2>2, <2>5
<1>3. k \in T
  <2> HIDE DEF T, k
  <2>1. \A n \in 0..k : n \in T
    BY <1>0, <1>1, <1>2, InductionUpTo
  <2> QED
    BY <1>0, <2>1
<1>4. PICK g : g = Def(g)
  BY <1>3
<1>5. Histories = CHOOSE g2 : g2 = Def(g2)
  BY DEF Histories, First, More
<1> HIDE DEF Def
<1>6. Histories = Def(Histories)
  BY <1>4, <1>5
<1>7. 0 \in 0..k /\ \A n \in 1..k : n \in 0..k /\ n # 0
  BY <1>0
<1> QED
  BY <1>6, <1>7 DEF Def

\* However a volume changes, a name the index cannot hold costs the reference that
\* bears it and no other, and a delete takes out what is left of it.
LEMMA HistoriesAreLocal == \A h \in Histories[MaxChanges] : LocalIn(h)
<1> DEFINE k == MaxChanges
           T == {n \in 0..k : \A h \in Histories[n] : LocalIn(h)}
<1>0. k \in Nat
  BY TailAssumption
<1>1. 0 \in T
  <2>1. 0 \in 0..k
    BY <1>0
  <2>2. \A h \in Histories[0] : h = [volume |-> Empty, used |-> {}, evs |-> <<>>]
    BY HistoriesAre DEF First
  <2> QED
    BY <2>1, <2>2, LocalAtFirst
<1>2. ASSUME NEW n \in 0..(k - 1), n \in T PROVE n + 1 \in T
  <2>1. n + 1 \in 1..k /\ n + 1 - 1 = n /\ n + 1 \in 0..k
    BY <1>0
  <2>2. Histories[n + 1] = More(Histories[n])
    BY <2>1, HistoriesAre
  <2>3. \A h \in Histories[n] : LocalIn(h)
    BY <1>2
  <2>4. ASSUME NEW d \in More(Histories[n]) PROVE LocalIn(d)
    <3>1. CASE d \in Histories[n]
      BY <2>3, <3>1
    <3>2. CASE d \notin Histories[n]
      <4>1. PICK h \in Histories[n] : \E ev \in Changes(h.volume, h.used) :
              d = [volume |-> Changed(h.volume, ev), used |-> h.used \union {ev.frn},
                   evs |-> Append(h.evs, ev)]
        BY <3>2 DEF More
      <4> QED
        BY <2>3, <4>1, LocalNext
    <3> QED
      BY <3>1, <3>2
  <2> QED
    BY <2>1, <2>2, <2>4
<1> HIDE DEF T, k
<1>3. \A n \in 0..k : n \in T
  BY <1>0, <1>1, <1>2, InductionUpTo
<1> QED
  BY <1>0, <1>3 DEF T, k

\* Whatever changes a volume sees, an unusable name costs the reference that bears it
\* and no other (usn.rs apply, index.rs intern).
THEOREM BadNamesStay == TailSpec => []BadNamesAreLocal
<1>1. BadNamesStayLocal
  <2> SUFFICES ASSUME NEW h \in Histories[MaxChanges], NEW f \in Frn
               PROVE  LET ix == Replay(Empty, h.evs)
                          Bore(g) == {h.evs[i].file : i \in {j \in DOMAIN h.evs : h.evs[j].frn = g}}
                      IN  /\ h.volume[f] = Absent => ix[f] = Absent
                          /\ (\A file \in Bore(f) \ {Absent} : file.name \notin BadName) => ix[f] = h.volume[f]
                          /\ ix[f] # Absent => ix[f] \in Bore(f) /\ ix[f].name \notin BadName
    BY DEF BadNamesStayLocal
  <2>1. LocalOf(h, f)
    BY HistoriesAreLocal DEF LocalIn
  <2> QED
    BY <2>1 DEF LocalOf, BoreIn
<1>2. BadNamesAreLocal
  BY <1>1 DEF BadNamesAreLocal
<1> QED
  BY <1>2, PTL

-----------------------------------------------------------------------------
(* The inductive invariants.                                               *)

Frames == [kind : {"hello", "search", "empty", "cancel", "request", "active", "idle", "garbage"},
           q : 0..MaxSends, gen : 0..GenTop]
Batches == [kind : {"none", "query", "full", "empty", "reply"},
            q : 0..MaxSends, gen : 0..GenTop, mark : 0..GenTop]
ReaderAt == {"hello", "read", "submit", "match", "verify", "send", "writing",
             "stop", "close", "join", "gone"}
WorkerAt == {"take", "check", "match", "verify", "send", "writing", "done"}

\* The types; a generation is never ahead of the frames sent.
TypeInv ==
  /\ peer \in {"open", "gone"} /\ writer \in Threads \union {"free"}
  /\ sends \in 0..MaxSends /\ reloads \in 0..MaxReloads
  /\ generation \in 0..sends /\ currentGen \in 0..sends
  /\ page \in 0..sends /\ shown \in 0..MaxSends /\ awaited \in BOOLEAN
  /\ inbox \in Seq(Frames) /\ sent \in Seq(Batches)
  /\ got \in 0..Len(sent) /\ Len(sent) - got <= PipeRoom
  /\ latest \in 0..GenTop /\ pending \in Jobs /\ job \in [Threads -> Jobs]
  /\ closed \in BOOLEAN /\ inline \in BOOLEAN /\ active \in BOOLEAN
  /\ pc \in [Threads -> ReaderAt \union WorkerAt]
  /\ pc["reader"] \in ReaderAt /\ pc["worker"] \in WorkerAt

\* One thread searches: the worker, or the reader when there is no worker.
SearcherInv ==
  /\ pc["reader"] = "hello" => pc["worker"] = "done"
  /\ inline => pc["worker"] = "done"
  /\ pc["reader"] \in {"match", "verify"} => inline
  /\ job["reader"].kind = "full" => inline /\ pc["reader"] \in {"send", "writing"}
  /\ job["worker"].kind = "full" => ~ inline /\ pc["worker"] \in {"send", "writing"}
  /\ pending.kind # "full"

\* The worker is at work on what it carries.
Busy == pc["worker"] \notin {"take", "done"}

\* A query is in one place: on the way in, in the mailbox (p), with the reader (r), with
\* the worker at work (w), or answered; n of them have been sent.
Apart(in, p, r, w, out, n) ==
  /\ {p, r, w} \subseteq 0..n
  /\ \A i \in 1..Len(in) : in[i].q <= n
  /\ \A i \in 1..Len(out) : out[i].q <= n
  /\ \A i, j \in 1..Len(in) : in[i].q = in[j].q /\ in[i].q # None => i = j
  /\ \A i, j \in 1..Len(out) : out[i].q = out[j].q /\ out[i].q # None => i = j
  /\ \A i \in 1..Len(in) : in[i].q # None =>
        in[i].q \notin {p, r, w} /\ \A j \in 1..Len(out) : in[i].q # out[j].q
  /\ \A i \in 1..Len(out) : out[i].q # None => out[i].q \notin {p, r, w}
  /\ p # None => p \notin {r, w}
  /\ r # None => r # w

Working == IF Busy THEN job["worker"].q ELSE None
UniqueInv == Apart(inbox, pending.q, job["reader"].q, Working, sent, sends)

\* A batch written late leaves no other behind: what passes the last check after it, and
\* what is written after it, is not older than the watermark it was written under.
Late(f) == f.kind = "full" /\ f.gen < f.mark
LateInv ==
  /\ \A i \in 1..Len(sent) : sent[i].mark <= latest
  /\ \A th \in Threads, i \in 1..Len(sent) :
        job[th].kind = "full" /\ Late(sent[i]) => job[th].gen >= sent[i].mark
  /\ \A i, j \in 1..Len(sent) :
        i < j /\ Late(sent[i]) /\ sent[j].kind = "full" => sent[j].gen >= sent[i].mark

\* Until the page is reloaded, the one query of its current generation is its own.
Fits(x) == x.q # None => x.gen <= generation /\ (x.gen = generation => x.q = page)
CurrentInv ==
  reloads = 0 =>
     /\ \A i \in 1..Len(inbox) : Fits(inbox[i])
     /\ \A i \in 1..Len(sent) : Fits(sent[i])
     /\ Fits(pending) /\ \A th \in Threads : Fits(job[th])
     /\ shown # None => shown = page

SessionInv == TypeInv /\ SearcherInv /\ UniqueInv /\ LateInv /\ CurrentInv

-----------------------------------------------------------------------------
(* Types.                                                                  *)

LEMMA FrameIsTyped ==
  ASSUME NEW kind \in {"hello", "search", "empty", "cancel", "request", "active", "idle", "garbage"},
         NEW q \in 0..MaxSends, NEW g \in 0..GenTop
  PROVE  Frame(kind, q, g) \in Frames
BY DEF Frame, Frames, Job

LEMMA JobIsTyped ==
  /\ Nothing \in Jobs /\ Reply \in Jobs
  /\ \A kind \in {"none", "query", "full", "empty", "reply"}, q \in 0..MaxSends, g \in 0..GenTop :
        Job(kind, q, g) \in Jobs
  /\ Nothing.q = None /\ Reply.q = None /\ Nothing.kind = "none" /\ Reply.kind = "reply"
BY SessionAssumption DEF Nothing, Reply, Job, Jobs, None

\* The ends of a queue of frames.
LEMMA TailIs ==
  ASSUME NEW S, NEW s \in Seq(S), s # <<>>
  PROVE  /\ Tail(s) \in Seq(S) /\ Len(Tail(s)) = Len(s) - 1 /\ Head(s) = s[1] /\ Head(s) \in S
         /\ Len(s) \in Nat /\ Len(s) >= 1 /\ \A i \in 1..Len(Tail(s)) : Tail(s)[i] = s[i + 1]
BY HeadTailProperties

LEMMA AppendIs ==
  ASSUME NEW S, NEW s \in Seq(S), NEW x \in S
  PROVE  /\ Append(s, x) \in Seq(S) /\ Len(Append(s, x)) = Len(s) + 1 /\ Len(s) \in Nat
         /\ Append(s, x)[Len(s) + 1] = x /\ \A i \in 1..Len(s) : Append(s, x)[i] = s[i]
BY AppendProperties

\* A frame sent goes in at the end, and counts.
LEMMA SendTyped ==
  ASSUME TypeInv, NEW f \in Frames, Send(f)
  PROVE  /\ inbox' \in Seq(Frames) /\ sends' = sends + 1 /\ sends' \in 0..MaxSends
         /\ Len(inbox') = Len(inbox) + 1 /\ Len(inbox) \in Nat /\ inbox'[Len(inbox) + 1] = f
         /\ \A i \in 1..Len(inbox) : inbox'[i] = inbox[i]
<1>1. inbox \in Seq(Frames) /\ sends \in 0..MaxSends /\ MaxSends \in Nat
  BY SessionAssumption DEF TypeInv
<1>2. inbox' = Append(inbox, f) /\ sends' = sends + 1 /\ sends < MaxSends
  BY DEF Send
<1>3. QED BY <1>1, <1>2, AppendIs

LEMMA TypeShell ==
  ASSUME TypeInv, ShellStep PROVE TypeInv'
<1>0. /\ MaxSends \in Nat /\ GenTop \in Nat /\ GenTop > MaxSends + 1 /\ PipeRoom \in Nat
      /\ MaxReloads \in Nat
  BY SessionAssumption
<1>1. ASSUME NEW kind \in {"search", "empty"}, Type(kind) PROVE TypeInv'
  <2>1. Frame(kind, sends + 1, generation + 1) \in Frames
    <3>1. sends + 1 \in 0..MaxSends /\ generation + 1 \in 0..GenTop
      BY <1>0, <1>1 DEF TypeInv, Type, Send
    <3>2. QED BY <3>1, FrameIsTyped
  <2>2. inbox' \in Seq(Frames) /\ sends' = sends + 1 /\ sends' \in 0..MaxSends
    BY <1>1, <2>1, SendTyped DEF Type
  <2>3. QED
    BY <1>0, <1>1, <2>2 DEF Type, Send, TypeInv, mailVars, threadVars, None
<1>2. CASE Cancel
  <2>1. Frame("cancel", None, currentGen) \in Frames
    <3>1. None \in 0..MaxSends /\ currentGen \in 0..GenTop
      BY <1>0 DEF TypeInv, None
    <3>2. QED BY <3>1, FrameIsTyped
  <2>2. inbox' \in Seq(Frames) /\ sends' = sends + 1 /\ sends' \in 0..MaxSends
    BY <1>2, <2>1, SendTyped DEF Cancel
  <2>3. generation' \in 0..sends' /\ page' \in 0..sends' /\ shown' \in 0..MaxSends
    <3>1. /\ generation \in 0..sends /\ page \in 0..sends /\ shown \in 0..MaxSends
          /\ sends \in Nat
      BY <1>0 DEF TypeInv
    <3>2. \/ generation' = generation /\ page' = page /\ shown' = shown
          \/ generation' = generation + 1 /\ page' = 0 /\ shown' = 0
      BY <1>2 DEF Cancel, None
    <3>3. QED BY <1>0, <2>2, <3>1, <3>2
  <2>4. currentGen' = currentGen /\ currentGen' \in 0..sends' /\ awaited' = FALSE
    BY <1>0, <1>2, <2>2 DEF Cancel, TypeInv
  <2>5. UNCHANGED <<peer, reloads, sent, got, mailVars, threadVars>>
    BY <1>2 DEF Cancel, Send
  <2>6. QED
    BY <2>2, <2>3, <2>4, <2>5 DEF TypeInv, mailVars, threadVars
<1>3. ASSUME NEW t \in {"request", "active", "idle", "garbage"}, Ask(t) PROVE TypeInv'
  <2>1. Frame(t, None, 0) \in Frames
    BY <1>0, FrameIsTyped DEF None
  <2>2. inbox' \in Seq(Frames) /\ sends' = sends + 1 /\ sends' \in 0..MaxSends
    BY <1>3, <2>1, SendTyped DEF Ask
  <2>3. QED
    BY <1>0, <1>3, <2>2 DEF Ask, Send, TypeInv, mailVars, threadVars
<1>4. CASE Receive
  <2>1. got + 1 \in 1..Len(sent) /\ sent[got + 1] \in Batches
    BY <1>4 DEF Receive, TypeInv
  <2>2. shown' \in 0..MaxSends
    BY <1>4, <2>1 DEF Receive, TypeInv, Batches
  <2>3. got' \in 0..Len(sent') /\ Len(sent') - got' <= PipeRoom
    BY <1>0, <1>4, <2>1 DEF Receive, TypeInv
  <2>4. QED
    BY <1>4, <2>2, <2>3 DEF Receive, TypeInv, mailVars, threadVars
<1>5. CASE Reload
  <2>1. UNCHANGED <<pipeVars, peer, sends, currentGen, mailVars, threadVars>> /\ awaited' = FALSE
    BY <1>5 DEF Reload
  <2>2. generation' \in 0..sends /\ page' \in 0..sends /\ shown' \in 0..MaxSends
    BY <1>0, <1>5 DEF Reload, TypeInv, None
  <2>3. reloads' \in 0..MaxReloads
    BY <1>0, <1>5 DEF Reload, TypeInv
  <2>4. QED BY <2>1, <2>2, <2>3 DEF TypeInv, pipeVars, mailVars, threadVars
<1>6. CASE HangUp
  BY <1>6 DEF HangUp, TypeInv, pipeVars, mailVars, threadVars
<1>7. QED BY <1>1, <1>2, <1>3, <1>4, <1>5, <1>6 DEF ShellStep

\* What a thread carries.
LEMMA CarryTyped ==
  ASSUME TypeInv, NEW th \in Threads, NEW x \in Jobs, Carry(th, x)
  PROVE  /\ job' \in [Threads -> Jobs] /\ job'[th] = x
         /\ \A o \in Threads : o # th => job'[o] = job[o]
BY DEF Carry, TypeInv

LEMMA TypeThreads ==
  ASSUME TypeInv, ReaderStep \/ WorkerStep PROVE TypeInv'
<1>0. /\ MaxSends \in Nat /\ GenTop \in Nat /\ GenTop > MaxSends + 1 /\ PipeRoom \in Nat
      /\ "reader" \in Threads /\ "worker" \in Threads
  BY SessionAssumption DEF Threads
<1> USE DEF pipeVars, shellVars, mailVars
<1>1. CASE Handshake
  <2>1. inbox' \in Seq(Frames)
    BY <1>1, TailIs DEF Handshake, TypeInv
  <2>2. job' \in [Threads -> Jobs]
    BY <1>0, <1>1, CarryTyped, JobIsTyped DEF Handshake
  <2>3. pc' \in [Threads -> ReaderAt \union WorkerAt] /\ pc'["reader"] \in ReaderAt /\ pc'["worker"] \in WorkerAt
    BY <1>1 DEF Handshake, Threads, ReaderAt, WorkerAt
  <2>4. QED BY <1>1, <2>1, <2>2, <2>3 DEF Handshake, TypeInv
<1>2. CASE ReadFrame
  <2> DEFINE f == Head(inbox)
  <2>1. inbox' \in Seq(Frames) /\ f \in Frames
    BY <1>2, TailIs DEF ReadFrame, TypeInv
  <2>2. /\ latest' \in 0..GenTop /\ job' \in [Threads -> Jobs] /\ active' \in BOOLEAN
        /\ pc' \in [Threads -> ReaderAt \union WorkerAt]
        /\ pc'["reader"] \in ReaderAt /\ pc'["worker"] \in WorkerAt
    <3>0. /\ f.gen \in 0..GenTop /\ f.q \in 0..MaxSends
          /\ Job("query", f.q, f.gen) \in Jobs /\ Job("empty", f.q, f.gen) \in Jobs
      BY <2>1, JobIsTyped DEF Frames
    <3> HIDE DEF f
    <3>1. CASE ReadSearch(f)
      BY <1>0, <3>0, <3>1, CarryTyped
      DEF ReadSearch, Raise, Goto, TypeInv, Threads, ReaderAt, WorkerAt
    <3>2. CASE ReadEmpty(f)
      BY <1>0, <3>0, <3>2, CarryTyped
      DEF ReadEmpty, Raise, Goto, TypeInv, Threads, ReaderAt, WorkerAt
    <3>3. CASE ReadCancel(f)
      <4>1. Saturating(f.gen) \in 0..GenTop
        BY <1>0, <3>0 DEF Saturating
      <4>2. QED BY <3>3, <4>1 DEF ReadCancel, Raise, TypeInv
    <3>4. CASE ReadRequest
      BY <1>0, <3>4, CarryTyped, JobIsTyped
      DEF ReadRequest, Goto, TypeInv, Threads, ReaderAt, WorkerAt
    <3>5. CASE ReadActivity(f)
      BY <3>5 DEF ReadActivity, TypeInv
    <3>6. CASE ReadGarbage
      BY <3>6 DEF ReadGarbage, Goto, TypeInv, Threads, ReaderAt, WorkerAt
    <3>7. QED BY <1>2, <3>1, <3>2, <3>3, <3>4, <3>5, <3>6 DEF ReadFrame, f
  <2>3. QED BY <1>2, <2>1, <2>2 DEF ReadFrame, TypeInv
<1>3. CASE ReadEnd
  BY <1>3 DEF ReadEnd, Goto, TypeInv, Threads, ReaderAt, WorkerAt
<1>4. CASE Submit
  <2>1. pending' \in Jobs /\ job' \in [Threads -> Jobs]
    <3>1. CASE inline
      BY <1>4, <3>1 DEF Submit, TypeInv
    <3>2. CASE ~ inline
      BY <1>0, <1>4, <3>2, CarryTyped, JobIsTyped DEF Submit, TypeInv
    <3>3. QED BY <3>1, <3>2
  <2>2. QED BY <1>4, <2>1 DEF Submit, Goto, TypeInv, Threads, ReaderAt, WorkerAt
<1>5. CASE StopSearch
  BY <1>0, <1>5 DEF StopSearch, Goto, TypeInv, Threads, ReaderAt, WorkerAt
<1>6. CASE CloseMailbox
  BY <1>6, JobIsTyped DEF CloseMailbox, Goto, TypeInv, Threads, ReaderAt, WorkerAt
<1>7. CASE Join
  BY <1>7 DEF Join, Goto, TypeInv, Threads, ReaderAt, WorkerAt
<1>8. ASSUME NEW th \in Threads, Match(th) \/ Acquire(th) PROVE TypeInv'
  <2>1. PICK at \in {"verify", "writing"} : pc' = [pc EXCEPT ![th] = at]
    BY <1>8 DEF Match, Acquire, Goto
  <2>2. /\ pc' \in [Threads -> ReaderAt \union WorkerAt]
        /\ pc'["reader"] \in ReaderAt /\ pc'["worker"] \in WorkerAt
    BY <2>1 DEF TypeInv, Threads, ReaderAt, WorkerAt
  <2>3. writer' \in Threads \union {"free"}
    BY <1>8 DEF Match, Acquire, TypeInv
  <2>4. UNCHANGED <<job, inline, active, pipeVars, shellVars, mailVars>>
    BY <1>8 DEF Match, Acquire
  <2>5. QED BY <2>2, <2>3, <2>4 DEF TypeInv, pipeVars, shellVars, mailVars
<1>9. ASSUME NEW th \in Threads, Verify(th) PROVE TypeInv'
  <2>1. job[th] \in Jobs /\ [job[th] EXCEPT !.kind = "full"] \in Jobs
    BY DEF TypeInv, Jobs
  <2>2. job' \in [Threads -> Jobs]
    BY <1>9, <2>1, CarryTyped, JobIsTyped DEF Verify
  <2>3. QED BY <1>9, <2>2 DEF Verify, Goto, TypeInv, Threads, ReaderAt, WorkerAt
<1>10. ASSUME NEW th \in Threads, Write(th) PROVE TypeInv'
  <2>1. job' \in [Threads -> Jobs]
    BY <1>10, CarryTyped, JobIsTyped DEF Write
  <2>2. Marked(job[th]) \in Batches
    BY DEF Marked, TypeInv, Jobs, Batches
  <2>3. sent' \in Seq(Batches) /\ got \in 0..Len(sent') /\ Len(sent') - got <= PipeRoom
    <3>1. CASE sent' = sent
      BY <3>1 DEF TypeInv
    <3>2. CASE sent' = Append(sent, Marked(job[th])) /\ Len(sent) - got < PipeRoom
      <4>1. sent' \in Seq(Batches) /\ Len(sent') = Len(sent) + 1 /\ Len(sent) \in Nat
        BY <2>2, <3>2, AppendIs DEF TypeInv
      <4>2. QED BY <4>1, <3>2, <1>0 DEF TypeInv
    <3>3. QED BY <1>10, <3>1, <3>2 DEF Write
  <2>4. pc' \in [Threads -> ReaderAt \union WorkerAt] /\ pc'["reader"] \in ReaderAt /\ pc'["worker"] \in WorkerAt
    BY <1>10 DEF Write, AfterSend, Goto, TypeInv, Threads, ReaderAt, WorkerAt
  <2>5. QED BY <1>10, <2>1, <2>3, <2>4 DEF Write, TypeInv
<1>11. CASE Take
  <2>1. job' \in [Threads -> Jobs] /\ pending' \in Jobs
    BY <1>0, <1>11, CarryTyped, JobIsTyped DEF Take, TypeInv
  <2>2. QED BY <1>11, <2>1 DEF Take, Goto, TypeInv, Threads, ReaderAt, WorkerAt
<1>12. CASE SkipSuperseded
  BY <1>12 DEF SkipSuperseded, Goto, TypeInv, Threads, ReaderAt, WorkerAt
<1>13. QED
  BY <1>0, <1>1, <1>2, <1>3, <1>4, <1>5, <1>6, <1>7, <1>8, <1>9, <1>10, <1>11, <1>12
  DEF ReaderStep, WorkerStep

LEMMA TypeStep ==
  ASSUME TypeInv, [Next]_vars PROVE TypeInv'
<1>1. CASE UNCHANGED vars
  BY <1>1 DEF TypeInv, vars, pipeVars, shellVars, mailVars, threadVars
<1>2. QED BY <1>1, TypeShell, TypeThreads DEF Next

-----------------------------------------------------------------------------
(* One searcher, and what it writes late.                                  *)

LEMMA SearcherStep ==
  ASSUME TypeInv, SearcherInv, [Next]_vars PROVE SearcherInv'
<1> USE DEF pipeVars, shellVars, mailVars, threadVars
<1>0. /\ "reader" \in Threads /\ "worker" \in Threads /\ Threads = {"reader", "worker"}
      /\ job \in [Threads -> Jobs] /\ pc \in [Threads -> ReaderAt \union WorkerAt]
  BY DEF Threads, TypeInv
<1>1. CASE UNCHANGED <<mailVars, threadVars>>
  BY <1>1 DEF SearcherInv
<1>2. CASE Handshake
  BY <1>0, <1>2, JobIsTyped DEF Handshake, Carry, SearcherInv
<1>3. CASE ReadFrame
  <2> DEFINE f == Head(inbox)
  <2>1. /\ job'["worker"] = job["worker"] /\ pc'["worker"] = pc["worker"]
        /\ inline' = inline /\ pending' = pending /\ pc["reader"] = "read"
        /\ pc'["reader"] \in {"read", "submit", "send", "stop"}
    BY <1>0, <1>3 DEF ReadFrame, ReadSearch, ReadEmpty, ReadCancel, ReadRequest, ReadActivity,
                      ReadGarbage, Goto, Carry
  <2>2. job'["reader"].kind \in {"query", "empty", "reply"} \/ job' = job
    <3> HIDE DEF f
    <3>1. \A q, g : \A k \in {"query", "empty"} : Job(k, q, g).kind = k
      BY DEF Job
    <3>2. Reply.kind = "reply"
      BY DEF Reply, Job
    <3>3. ReadSearch(f) \/ ReadEmpty(f) \/ ReadRequest \/ job' = job
      BY <1>3 DEF ReadFrame, ReadCancel, ReadActivity, ReadGarbage, f
    <3>4. QED BY <3>1, <3>2, <3>3, <1>0 DEF ReadSearch, ReadEmpty, ReadRequest, Carry
  <2>3. QED BY <2>1, <2>2 DEF SearcherInv
<1>4. CASE ReadEnd
  BY <1>0, <1>4 DEF ReadEnd, Goto, SearcherInv
<1>5. CASE Submit
  BY <1>0, <1>5, JobIsTyped DEF Submit, Goto, Carry, SearcherInv
<1>6. CASE StopSearch \/ Join
  BY <1>0, <1>6 DEF StopSearch, Join, Goto, SearcherInv
<1>7. CASE CloseMailbox
  BY <1>0, <1>7, JobIsTyped DEF CloseMailbox, Goto, SearcherInv
<1>8. ASSUME NEW th \in Threads, Match(th) PROVE SearcherInv'
  BY <1>0, <1>8 DEF Match, Goto, SearcherInv
<1>9. ASSUME NEW th \in Threads, Acquire(th) PROVE SearcherInv'
  BY <1>0, <1>9 DEF Acquire, Goto, SearcherInv
<1>10. ASSUME NEW th \in Threads, Verify(th) PROVE SearcherInv'
  <2>1. [job[th] EXCEPT !.kind = "full"].kind = "full"
    BY <1>0 DEF Jobs
  <2>2. CASE th = "reader"
    BY <2>1, <2>2, <1>0, <1>10, JobIsTyped DEF Verify, Goto, Carry, SearcherInv
  <2>3. CASE th = "worker"
    BY <2>1, <2>3, <1>0, <1>10, JobIsTyped DEF Verify, Goto, Carry, SearcherInv
  <2>4. QED BY <1>0, <2>2, <2>3
<1>11. ASSUME NEW th \in Threads, Write(th) PROVE SearcherInv'
  <2>1. CASE th = "reader"
    BY <2>1, <1>0, <1>11, JobIsTyped DEF Write, AfterSend, Goto, Carry, SearcherInv
  <2>2. CASE th = "worker"
    BY <2>2, <1>0, <1>11, JobIsTyped DEF Write, AfterSend, Goto, Carry, SearcherInv
  <2>3. QED BY <1>0, <2>1, <2>2
<1>12. CASE Take
  BY <1>0, <1>12, JobIsTyped DEF Take, Goto, Carry, SearcherInv
<1>13. CASE SkipSuperseded
  BY <1>0, <1>13 DEF SkipSuperseded, Goto, SearcherInv
<1>14. CASE ShellStep
  <2>1. UNCHANGED <<mailVars, threadVars>>
    BY <1>14 DEF ShellStep, Type, Cancel, Ask, Receive, Reload, HangUp, Send
  <2>2. QED BY <1>1, <2>1
<1>15. CASE UNCHANGED vars
  BY <1>1, <1>15 DEF vars
<1>16. QED
  BY <1>0, <1>2, <1>3, <1>4, <1>5, <1>6, <1>7, <1>8, <1>9, <1>10, <1>11, <1>12, <1>13, <1>14, <1>15
  DEF Next, ReaderStep, WorkerStep

\* The watermark only rises.
LEMMA WatermarkRises ==
  ASSUME TypeInv, [Next]_vars PROVE latest' >= latest
<1>0. latest \in 0..GenTop /\ GenTop \in Nat
  BY SessionAssumption DEF TypeInv
<1> USE DEF pipeVars, shellVars, mailVars, threadVars
<1>1. CASE ReadFrame
  <2>1. ASSUME NEW g \in Nat, Raise(g) PROVE latest' >= latest
    BY <1>0, <2>1 DEF Raise
  <2>2. Head(inbox).gen \in 0..GenTop
    <3>1. inbox \in Seq(Frames) /\ inbox # <<>>
      BY <1>1 DEF ReadFrame, TypeInv
    <3>2. Head(inbox) \in Frames
      BY <3>1, TailIs
    <3>3. QED BY <3>2 DEF Frames
  <2>3. Head(inbox).gen \in Nat /\ Saturating(Head(inbox).gen) \in Nat
    BY <1>0, <2>2 DEF Saturating
  <2>4. QED
    BY <1>0, <1>1, <2>1, <2>3 DEF ReadFrame, ReadSearch, ReadEmpty, ReadCancel, ReadRequest,
                                  ReadActivity, ReadGarbage
<1>2. CASE StopSearch
  BY <1>0, <1>2 DEF StopSearch
<1>3. latest' = latest => latest' >= latest
  BY <1>0
<1>4. CASE ShellStep
  BY <1>3, <1>4 DEF ShellStep, Type, Cancel, Ask, Receive, Reload, HangUp, Send
<1>5. CASE Handshake \/ ReadEnd \/ Submit \/ CloseMailbox \/ Join \/ Take \/ SkipSuperseded
  BY <1>3, <1>5 DEF Handshake, ReadEnd, Submit, CloseMailbox, Join, Take, SkipSuperseded
<1>6. ASSUME NEW th, Match(th) \/ Verify(th) \/ Acquire(th) \/ Write(th) PROVE latest' >= latest
  BY <1>3, <1>6 DEF Match, Verify, Acquire, Write
<1>7. CASE UNCHANGED vars
  BY <1>3, <1>7 DEF vars
<1>8. QED BY <1>1, <1>2, <1>4, <1>5, <1>6, <1>7 DEF Next, ReaderStep, WorkerStep

\* A search that passes its last check is no older than the watermark, so no older than
\* what any batch was written under; what superseded it later lets it write, and no
\* other.
LEMMA LateStep ==
  ASSUME TypeInv, SearcherInv, LateInv, [Next]_vars PROVE LateInv'
<1> USE DEF pipeVars, shellVars, mailVars, threadVars
<1>0. /\ "reader" \in Threads /\ "worker" \in Threads /\ Threads = {"reader", "worker"}
      /\ job \in [Threads -> Jobs] /\ sent \in Seq(Batches) /\ Len(sent) \in Nat
      /\ latest \in 0..GenTop
  BY DEF Threads, TypeInv
<1>1. latest' >= latest /\ latest' \in Nat
  <2>1. TypeInv'
    BY TypeStep
  <2>2. latest' \in 0..GenTop /\ GenTop \in Nat
    BY <2>1, SessionAssumption DEF TypeInv
  <2>3. QED BY <2>2, WatermarkRises
<1>2. \A i \in 1..Len(sent) : sent[i].mark \in Nat /\ sent[i].gen \in Nat /\ sent[i].mark <= latest'
  <2>1. \A i \in 1..Len(sent) : sent[i].mark \in Nat /\ sent[i].gen \in Nat
    <3>1. \A i \in 1..Len(sent) : sent[i] \in Batches
      BY <1>0
    <3>2. QED BY <3>1, SessionAssumption DEF Batches
  <2>2. \A i \in 1..Len(sent) : sent[i].mark <= latest
    BY DEF LateInv
  <2>3. QED BY <1>0, <1>1, <2>1, <2>2
<1>3. ASSUME sent' = sent, \A th \in Threads : job'[th] = job[th] \/ job'[th].kind # "full"
      PROVE  LateInv'
  <2>1. \A th \in Threads, i \in 1..Len(sent) :
           job'[th].kind = "full" /\ Late(sent[i]) => job'[th].gen >= sent[i].mark
    BY <1>3 DEF LateInv
  <2>2. QED BY <1>2, <1>3, <2>1 DEF LateInv
<1>4. ASSUME NEW th \in Threads, Verify(th) PROVE LateInv'
  <2>1. CASE Superseded(job[th].gen)
    BY <1>0, <1>3, <1>4, <2>1, JobIsTyped DEF Verify, Carry
  <2>2. CASE ~ Superseded(job[th].gen)
    <3>1. job'[th].gen = job[th].gen /\ \A o \in Threads : o # th => job'[o] = job[o]
      BY <1>0, <1>4, <2>2 DEF Verify, Carry, Jobs
    <3>2. job[th].gen >= latest /\ job[th].gen \in Nat
      BY <1>0, <2>2 DEF Superseded, Jobs
    <3>3. \A i \in 1..Len(sent) : job'[th].gen >= sent[i].mark
      <4>1. \A i \in 1..Len(sent) : sent[i].mark <= latest
        BY DEF LateInv
      <4>2. QED BY <1>0, <1>2, <3>1, <3>2, <4>1
    <3>4. sent' = sent
      BY <1>4 DEF Verify
    <3>5. \A o \in Threads, i \in 1..Len(sent) :
             job'[o].kind = "full" /\ Late(sent[i]) => job'[o].gen >= sent[i].mark
      BY <3>1, <3>3 DEF LateInv
    <3>6. QED BY <1>2, <3>4, <3>5 DEF LateInv
  <2>3. QED BY <2>1, <2>2
<1>5. ASSUME NEW th \in Threads, Write(th) PROVE LateInv'
  <2>1. job'[th] = Nothing /\ \A o \in Threads : o # th => job'[o] = job[o]
    BY <1>0, <1>5 DEF Write, Carry
  <2>2. CASE sent' = sent
    BY <1>3, <2>1, <2>2, JobIsTyped
  <2>3. CASE sent' = Append(sent, Marked(job[th]))
    <3> DEFINE n == Len(sent)
               new == Marked(job[th])
    <3>1. new \in Batches /\ new.kind = job[th].kind /\ new.gen = job[th].gen /\ new.mark = latest
      BY <1>0 DEF Marked, Jobs, Batches
    <3> HIDE DEF new
    <3>2. /\ Len(sent') = n + 1 /\ sent'[n + 1] = new /\ \A i \in 1..n : sent'[i] = sent[i]
      BY <1>0, <2>3, <3>1, AppendIs DEF new
    <3>3. \A i \in 1..(n + 1) : sent'[i].mark <= latest'
      BY <1>0, <1>1, <1>2, <3>1, <3>2
    <3>4. new.kind = "full" => \A o \in Threads : job'[o].kind # "full"
      BY <1>0, <2>1, <3>1, JobIsTyped DEF SearcherInv
    <3>5. \A o \in Threads, i \in 1..(n + 1) :
             job'[o].kind = "full" /\ Late(sent'[i]) => job'[o].gen >= sent'[i].mark
      <4>1. ASSUME NEW o \in Threads, NEW i \in 1..(n + 1), job'[o].kind = "full", Late(sent'[i])
            PROVE  job'[o].gen >= sent'[i].mark
        <5>1. i # n + 1
          BY <3>2, <3>4, <4>1 DEF Late
        <5>2. i \in 1..n /\ sent'[i] = sent[i] /\ job'[o] = job[o]
          BY <1>0, <2>1, <3>2, <4>1, <5>1, JobIsTyped
        <5>3. QED BY <4>1, <5>2 DEF LateInv
      <4>2. QED BY <4>1
    <3>6. ASSUME NEW i \in 1..(n + 1), NEW j \in 1..(n + 1), i < j, Late(sent'[i]),
                 sent'[j].kind = "full"
          PROVE  sent'[j].gen >= sent'[i].mark
      <4>1. i \in 1..n /\ sent'[i] = sent[i]
        BY <1>0, <3>2, <3>6
      <4>2. CASE j \in 1..n
        BY <3>2, <3>6, <4>1, <4>2 DEF LateInv
      <4>3. CASE j = n + 1
        BY <3>1, <3>2, <3>6, <4>1, <4>3 DEF LateInv
      <4>4. QED BY <1>0, <4>2, <4>3
    <3>7. QED BY <3>2, <3>3, <3>5, <3>6 DEF LateInv
  <2>4. QED BY <1>5, <2>2, <2>3 DEF Write
<1>6. CASE ShellStep
  <2>1. sent' = sent /\ job' = job
    BY <1>6 DEF ShellStep, Type, Cancel, Ask, Receive, Reload, HangUp, Send
  <2>2. QED BY <1>3, <2>1
<1>7. CASE Handshake
  BY <1>0, <1>3, <1>7, JobIsTyped DEF Handshake, Carry
<1>8. CASE ReadFrame
  <2>1. \A q, g : \A k \in {"query", "empty"} : Job(k, q, g).kind = k
    BY DEF Job
  <2>2. sent' = sent /\ \A th \in Threads : job'[th] = job[th] \/ job'[th].kind # "full"
    BY <1>0, <1>8, <2>1, JobIsTyped DEF ReadFrame, ReadSearch, ReadEmpty, ReadCancel, ReadRequest,
       ReadActivity, ReadGarbage, Carry
  <2>3. QED BY <1>3, <2>2
<1>9. CASE ReadEnd \/ StopSearch \/ CloseMailbox \/ Join \/ SkipSuperseded
  BY <1>3, <1>9 DEF ReadEnd, StopSearch, CloseMailbox, Join, SkipSuperseded
<1>10. CASE Submit
  BY <1>0, <1>3, <1>10, JobIsTyped DEF Submit, Carry
<1>11. CASE Take
  <2>1. sent' = sent /\ \A th \in Threads : job'[th] = job[th] \/ job'[th].kind # "full"
    BY <1>0, <1>11 DEF Take, Carry, SearcherInv
  <2>2. QED BY <1>3, <2>1
<1>12. ASSUME NEW th \in Threads, Match(th) \/ Acquire(th) PROVE LateInv'
  BY <1>3, <1>12 DEF Match, Acquire
<1>13. CASE UNCHANGED vars
  BY <1>3, <1>13 DEF vars
<1>14. QED
  BY <1>0, <1>4, <1>5, <1>6, <1>7, <1>8, <1>9, <1>10, <1>11, <1>12, <1>13
  DEF Next, ReaderStep, WorkerStep

-----------------------------------------------------------------------------
(* The page's query.                                                       *)

LEMMA NothingFits == Fits(Nothing) /\ Fits(Reply)
BY JobIsTyped DEF Fits

LEMMA GensTyped ==
  ASSUME TypeInv
  PROVE  /\ \A i \in 1..Len(inbox) : inbox[i].gen \in Nat /\ inbox[i].q \in Nat
         /\ \A i \in 1..Len(sent) : sent[i].gen \in Nat /\ sent[i].q \in Nat
         /\ pending.gen \in Nat /\ \A th \in Threads : job[th].gen \in Nat
<1>0. GenTop \in Nat /\ MaxSends \in Nat
  BY SessionAssumption
<1>1. \A i \in 1..Len(inbox) : inbox[i] \in Frames
  BY DEF TypeInv
<1>2. \A i \in 1..Len(sent) : sent[i] \in Batches
  BY DEF TypeInv
<1>3. \A x \in Frames : x.gen \in Nat /\ x.q \in Nat
  BY <1>0 DEF Frames
<1>4. \A x \in Batches : x.gen \in Nat /\ x.q \in Nat
  BY <1>0 DEF Batches
<1>5. \A x \in Jobs : x.gen \in Nat
  BY <1>0 DEF Jobs
<1>6. pending \in Jobs /\ \A th \in Threads : job[th] \in Jobs
  BY DEF TypeInv
<1>7. QED BY <1>1, <1>2, <1>3, <1>4, <1>5, <1>6

LEMMA CurrentStep ==
  ASSUME TypeInv, CurrentInv, [Next]_vars PROVE CurrentInv'
<1> USE DEF pipeVars, shellVars, mailVars, threadVars
<1>0. /\ "reader" \in Threads /\ "worker" \in Threads /\ Threads = {"reader", "worker"}
      /\ job \in [Threads -> Jobs] /\ sent \in Seq(Batches) /\ Len(sent) \in Nat
      /\ inbox \in Seq(Frames) /\ Len(inbox) \in Nat /\ pending \in Jobs
      /\ generation \in Nat /\ page \in Nat /\ generation <= sends /\ page <= sends /\ sends \in Nat
  BY SessionAssumption DEF Threads, TypeInv
<1>1. SUFFICES ASSUME reloads' = 0 PROVE CurrentInv'
  BY DEF CurrentInv
<1>2. reloads = 0
  <2>1. CASE Reload
    BY <2>1, <1>1 DEF Reload, TypeInv
  <2>2. reloads' = reloads \/ Reload
    BY DEF Next, ShellStep, ReaderStep, WorkerStep, Type, Cancel, Ask, Receive, HangUp, Send, vars,
           Handshake, ReadFrame, ReadEnd, Submit, StopSearch, CloseMailbox, Join, Take, SkipSuperseded,
           Match, Verify, Acquire, Write
  <2>3. QED BY <1>1, <2>1, <2>2
<1>3. /\ \A i \in 1..Len(inbox) : Fits(inbox[i])
      /\ \A i \in 1..Len(sent) : Fits(sent[i])
      /\ Fits(pending) /\ \A th \in Threads : Fits(job[th])
      /\ shown # None => shown = page
  BY <1>2 DEF CurrentInv
\* A step of the service moves queries; it makes none.
<1>4. ASSUME UNCHANGED shellVars,
             inbox' = inbox \/ (inbox # <<>> /\ inbox' = Tail(inbox)),
             sent' = sent \/ (\E th \in Threads : sent' = Append(sent, Marked(job[th]))),
             Fits(pending'), \A th \in Threads : Fits(job'[th])
      PROVE  CurrentInv'
  <2>0. generation' = generation /\ page' = page /\ shown' = shown
    BY <1>4
  <2>1. \A i \in 1..Len(inbox') : Fits(inbox'[i])
    <3>1. CASE inbox # <<>> /\ inbox' = Tail(inbox)
      <4>1. /\ Len(Tail(inbox)) = Len(inbox) - 1
            /\ \A i \in 1..Len(Tail(inbox)) : Tail(inbox)[i] = inbox[i + 1]
        BY <1>0, <3>1, TailIs
      <4>2. \A i \in 1..Len(inbox') : i + 1 \in 1..Len(inbox)
        BY <1>0, <3>1, <4>1
      <4>3. QED BY <1>3, <3>1, <4>1, <4>2
    <3>2. QED BY <1>3, <1>4, <3>1
  <2>2. \A i \in 1..Len(sent') : Fits(sent'[i])
    <3>1. ASSUME NEW th \in Threads, sent' = Append(sent, Marked(job[th]))
          PROVE  \A i \in 1..Len(sent') : Fits(sent'[i])
      <4> DEFINE new == Marked(job[th])
      <4>1. new.q = job[th].q /\ new.gen = job[th].gen /\ new \in Batches
        BY <1>0 DEF Marked, Batches, Jobs, TypeInv
      <4>2. Fits(new)
        BY <1>3, <4>1 DEF Fits
      <4> HIDE DEF new
      <4>3. /\ Len(sent') = Len(sent) + 1 /\ sent'[Len(sent) + 1] = new
            /\ \A i \in 1..Len(sent) : sent'[i] = sent[i]
        BY <1>0, <3>1, <4>1, AppendIs DEF new
      <4>4. \A i \in 1..Len(sent') : i \in 1..Len(sent) \/ i = Len(sent) + 1
        BY <1>0, <4>3
      <4>5. QED BY <1>3, <4>2, <4>3, <4>4
    <3>2. QED BY <1>3, <1>4, <3>1
  <2>3. QED BY <2>0, <2>1, <2>2, <1>3, <1>4 DEF CurrentInv, Fits
<1>5. CASE Handshake
  BY <1>0, <1>3, <1>4, <1>5, NothingFits DEF Handshake, Carry
<1>6. CASE ReadFrame
  <2>1. Head(inbox) = inbox[1] /\ Fits(inbox[1])
    <3>1. Head(inbox) = inbox[1] /\ Len(inbox) >= 1
      BY <1>0, <1>6, TailIs DEF ReadFrame
    <3>2. QED BY <1>0, <1>3, <3>1
  <2> DEFINE f == Head(inbox)
  <2>2. Fits(f) /\ \A k : Fits(Job(k, f.q, f.gen))
    BY <2>1 DEF Fits, Job
  <2> HIDE DEF f
  <2>3. \A th \in Threads : Fits(job'[th])
    <3>1. CASE ReadSearch(f)
      BY <1>0, <1>3, <2>2, <3>1 DEF ReadSearch, Carry
    <3>2. CASE ReadEmpty(f)
      BY <1>0, <1>3, <2>2, <3>2 DEF ReadEmpty, Carry
    <3>3. CASE ReadRequest
      BY <1>0, <1>3, NothingFits, <3>3 DEF ReadRequest, Carry
    <3>4. CASE job' = job
      BY <1>3, <3>4
    <3>5. QED BY <1>6, <3>1, <3>2, <3>3, <3>4 DEF ReadFrame, ReadCancel, ReadActivity, ReadGarbage, f
  <2>4. QED BY <1>3, <1>4, <1>6, <2>3 DEF ReadFrame
<1>7. CASE ReadEnd \/ StopSearch \/ Join \/ SkipSuperseded
  BY <1>3, <1>4, <1>7 DEF ReadEnd, StopSearch, Join, SkipSuperseded
<1>8. CASE Submit
  BY <1>0, <1>3, <1>4, <1>8, NothingFits DEF Submit, Carry
<1>9. CASE CloseMailbox
  BY <1>3, <1>4, <1>9, NothingFits DEF CloseMailbox
<1>10. CASE Take
  BY <1>0, <1>3, <1>4, <1>10, NothingFits DEF Take, Carry
<1>11. ASSUME NEW th \in Threads, Match(th) \/ Acquire(th) PROVE CurrentInv'
  BY <1>3, <1>4, <1>11 DEF Match, Acquire
<1>12. ASSUME NEW th \in Threads, Verify(th) PROVE CurrentInv'
  <2>1. Fits([job[th] EXCEPT !.kind = "full"])
    BY <1>0, <1>3 DEF Fits, Jobs
  <2>2. \A o \in Threads : Fits(job'[o])
    BY <1>0, <1>3, <1>12, <2>1, NothingFits DEF Verify, Carry
  <2>3. QED BY <1>3, <1>4, <1>12, <2>2 DEF Verify
<1>13. ASSUME NEW th \in Threads, Write(th) PROVE CurrentInv'
  <2>1. \A o \in Threads : Fits(job'[o])
    BY <1>0, <1>3, <1>13, NothingFits DEF Write, Carry
  <2>2. QED BY <1>3, <1>4, <1>13, <2>1 DEF Write
<1>14. ASSUME NEW kind \in {"search", "empty"}, Type(kind) PROVE CurrentInv'
  <2> DEFINE f == Frame(kind, sends + 1, generation + 1)
  <2>1. f \in Frames /\ f.q = sends + 1 /\ f.gen = generation + 1
    <3>1. sends + 1 \in 0..MaxSends /\ generation + 1 \in 0..GenTop
      BY <1>14, SessionAssumption DEF TypeInv, Type, Send
    <3>2. QED BY <3>1, FrameIsTyped DEF Frame, Job
  <2> HIDE DEF f
  <2>2. /\ Len(inbox') = Len(inbox) + 1 /\ inbox'[Len(inbox) + 1] = f
        /\ \A i \in 1..Len(inbox) : inbox'[i] = inbox[i]
    BY <1>14, <2>1, SendTyped DEF Type, f
  <2>3. /\ generation' = generation + 1 /\ page' = sends + 1 /\ shown' = None
        /\ sent' = sent /\ pending' = pending /\ job' = job
    BY <1>14 DEF Type, Send
  <2>4. \A x : x.gen \in Nat /\ Fits(x) => (x.q # None => x.gen <= generation' /\ x.gen # generation')
    BY <1>0, <2>3 DEF Fits
  <2>5. /\ \A i \in 1..Len(inbox) : inbox[i].gen \in Nat
        /\ \A i \in 1..Len(sent) : sent[i].gen \in Nat
        /\ pending.gen \in Nat /\ \A th \in Threads : job[th].gen \in Nat
    BY GensTyped
  <2> DEFINE Ok(x) == x.q # None => x.gen <= generation' /\ (x.gen = generation' => x.q = page')
  <2>6. /\ \A i \in 1..Len(inbox) : Ok(inbox[i])
        /\ \A i \in 1..Len(sent) : Ok(sent[i])
        /\ Ok(pending) /\ \A th \in Threads : Ok(job[th])
    BY <1>3, <2>4, <2>5
  <2>7. Ok(f)
    BY <1>0, <2>1, <2>3
  <2>8. \A i \in 1..Len(inbox') : Ok(inbox'[i])
    <3>1. \A i \in 1..Len(inbox') : i \in 1..Len(inbox) \/ i = Len(inbox) + 1
      BY <1>0, <2>2
    <3>2. QED BY <2>2, <2>6, <2>7, <3>1
  <2>9. QED BY <2>3, <2>6, <2>8 DEF CurrentInv, Fits
<1>15. CASE Cancel
  <2> DEFINE f == Frame("cancel", None, currentGen)
             Ok(x) == x.q # None => x.gen <= generation' /\ (x.gen = generation' => x.q = page')
  <2>1. f \in Frames /\ f.q = None
    <3>1. None \in 0..MaxSends /\ currentGen \in 0..GenTop
      BY SessionAssumption DEF TypeInv, None
    <3>2. QED BY <3>1, FrameIsTyped DEF Frame, Job
  <2> HIDE DEF f
  <2>2. /\ Len(inbox') = Len(inbox) + 1 /\ inbox'[Len(inbox) + 1] = f
        /\ \A i \in 1..Len(inbox) : inbox'[i] = inbox[i]
    BY <1>15, <2>1, SendTyped DEF Cancel, f
  <2>3. /\ sent' = sent /\ pending' = pending /\ job' = job
        /\ \/ generation' = generation /\ page' = page /\ shown' = shown
           \/ generation' = generation + 1 /\ shown' = None
    BY <1>15 DEF Cancel, Send
  <2>4. \A x : x.gen \in Nat /\ Fits(x) => Ok(x)
    BY <1>0, <2>3 DEF Fits
  <2>5. /\ \A i \in 1..Len(inbox) : inbox[i].gen \in Nat
        /\ \A i \in 1..Len(sent) : sent[i].gen \in Nat
        /\ pending.gen \in Nat /\ \A th \in Threads : job[th].gen \in Nat
    BY GensTyped
  <2>6. /\ \A i \in 1..Len(inbox) : Ok(inbox[i])
        /\ \A i \in 1..Len(sent) : Ok(sent[i])
        /\ Ok(pending) /\ \A th \in Threads : Ok(job[th])
    BY <1>3, <2>4, <2>5
  <2>7. \A i \in 1..Len(inbox') : Ok(inbox'[i])
    <3>1. \A i \in 1..Len(inbox') : i \in 1..Len(inbox) \/ i = Len(inbox) + 1
      BY <1>0, <2>2
    <3>2. QED BY <2>1, <2>2, <2>6, <3>1
  <2>8. QED BY <1>3, <2>3, <2>6, <2>7 DEF CurrentInv, Fits
<1>16. ASSUME NEW t \in {"request", "active", "idle", "garbage"}, Ask(t) PROVE CurrentInv'
  <2> DEFINE f == Frame(t, None, 0)
  <2>1. f \in Frames /\ f.q = None
    BY FrameIsTyped, SessionAssumption DEF Frame, Job, None
  <2> HIDE DEF f
  <2>2. /\ Len(inbox') = Len(inbox) + 1 /\ inbox'[Len(inbox) + 1] = f
        /\ \A i \in 1..Len(inbox) : inbox'[i] = inbox[i]
    BY <1>16, <2>1, SendTyped DEF Ask, f
  <2>3. UNCHANGED <<generation, page, shown, sent, pending, job>>
    BY <1>16 DEF Ask, Send
  <2>4. \A i \in 1..Len(inbox') : Fits(inbox'[i])
    <3>1. \A i \in 1..Len(inbox') : i \in 1..Len(inbox) \/ i = Len(inbox) + 1
      BY <1>0, <2>2
    <3>2. QED BY <1>3, <2>1, <2>2, <3>1 DEF Fits
  <2>5. QED BY <1>3, <2>3, <2>4 DEF CurrentInv, Fits
<1>17. CASE Receive
  <2>1. got + 1 \in 1..Len(sent)
    BY <1>17, <1>0 DEF Receive, TypeInv
  <2>2. Fits(sent[got + 1])
    BY <1>3, <2>1
  <2>3. UNCHANGED <<generation, page, inbox, sent, pending, job>>
    BY <1>17 DEF Receive
  <2>4. shown' # None => shown' = page
    BY <1>3, <1>17, <2>2 DEF Receive, Fits
  <2>5. QED BY <1>3, <2>3, <2>4 DEF CurrentInv, Fits
<1>18. CASE HangUp \/ UNCHANGED vars
  BY <1>3, <1>18 DEF HangUp, vars, CurrentInv, Fits
<1>19. CASE Reload
  BY <1>1, <1>19, <1>2 DEF Reload
<1>20. QED
  BY <1>0, <1>5, <1>6, <1>7, <1>8, <1>9, <1>10, <1>11, <1>12, <1>13, <1>14, <1>15, <1>16, <1>17,
     <1>18, <1>19
  DEF Next, ShellStep, ReaderStep, WorkerStep

-----------------------------------------------------------------------------
(* One answer to a query.                                                  *)

\* A query is dropped, ...
LEMMA ApartFewer ==
  ASSUME NEW in, NEW p, NEW r, NEW w, NEW out, NEW n \in Nat, Apart(in, p, r, w, out, n),
         NEW p1 \in {p, None}, NEW r1 \in {r, None}, NEW w1 \in {w, None}
  PROVE  Apart(in, p1, r1, w1, out, n)
<1>1. /\ {p1, r1, w1} \subseteq 0..n
      /\ p1 # None => p1 \notin {r1, w1}
      /\ r1 # None => r1 # w1
  BY DEF Apart, None
<1>2. \A x : x # None /\ x \notin {p, r, w} => x \notin {p1, r1, w1}
  OBVIOUS
<1>3. QED BY <1>1, <1>2 DEF Apart

\* ... read, ...
LEMMA ApartRead ==
  ASSUME NEW in \in Seq(Frames), in # <<>>, NEW p, NEW r, NEW w, NEW out, NEW n \in Nat,
         Apart(in, p, r, w, out, n), NEW r1 \in {r, None, Head(in).q}
  PROVE  Apart(Tail(in), p, r1, w, out, n)
<1>1. /\ Len(Tail(in)) = Len(in) - 1 /\ Len(in) \in Nat /\ Len(in) >= 1
      /\ Head(in) = in[1] /\ \A i \in 1..Len(Tail(in)) : Tail(in)[i] = in[i + 1]
  BY TailIs
<1>2. \A i \in 1..Len(Tail(in)) : i + 1 \in 1..Len(in) /\ i + 1 # 1
  BY <1>1
<1>3. 1 \in 1..Len(in) /\ in[1].q \in Nat
  <2>1. 1 \in 1..Len(in) /\ in[1] \in Frames
    BY <1>1
  <2>2. QED BY <2>1, SessionAssumption DEF Frames
<1>4. r1 \in 0..n
  BY <1>1, <1>3 DEF Apart, None
<1>5. \A i \in 1..Len(Tail(in)) : in[i + 1].q # None => in[i + 1].q # in[1].q
  BY <1>2, <1>3 DEF Apart
<1>6. r1 # None => r1 # w /\ r1 # p /\ \A j \in 1..Len(out) : out[j].q # r1
  BY <1>1, <1>3 DEF Apart
<1>7. \A i, j \in 1..Len(Tail(in)) :
         Tail(in)[i].q = Tail(in)[j].q /\ Tail(in)[i].q # None => i = j
  <2>1. \A i, j \in 1..Len(Tail(in)) : i + 1 = j + 1 => i = j
    BY <1>1
  <2>2. QED BY <1>1, <1>2, <2>1 DEF Apart
<1>8. \A i \in 1..Len(Tail(in)) : Tail(in)[i].q # None =>
         /\ Tail(in)[i].q \notin {p, r1, w}
         /\ \A j \in 1..Len(out) : Tail(in)[i].q # out[j].q
  BY <1>1, <1>2, <1>5 DEF Apart
<1>9. QED BY <1>1, <1>2, <1>4, <1>6, <1>7, <1>8 DEF Apart

\* ... put in the mailbox in place of the one there, taken out of it, ...
LEMMA ApartMoved ==
  ASSUME NEW in, NEW p, NEW r, NEW w, NEW out, NEW n \in Nat, Apart(in, p, r, w, out, n)
  PROVE  Apart(in, r, None, w, out, n) /\ Apart(in, None, r, p, out, n)
BY DEF Apart, None

\* ... answered, ...
LEMMA ApartAnswered ==
  ASSUME NEW in, NEW p, NEW r, NEW w, NEW out \in Seq(Batches), NEW n \in Nat,
         Apart(in, p, r, w, out, n), NEW x \in Batches
  PROVE  /\ x.q = r => Apart(in, p, None, w, Append(out, x), n)
         /\ x.q = w => Apart(in, p, r, None, Append(out, x), n)
<1> DEFINE o == Append(out, x)
<1>1. /\ Len(o) = Len(out) + 1 /\ Len(out) \in Nat /\ o[Len(out) + 1] = x
      /\ \A i \in 1..Len(out) : o[i] = out[i]
  BY AppendIs
<1> HIDE DEF o
<1>2. \A i \in 1..Len(o) : (i \in 1..Len(out) /\ o[i] = out[i]) \/ (i = Len(out) + 1 /\ o[i] = x)
  BY <1>1
<1>3. ASSUME x.q \in {r, w} PROVE \A i, j \in 1..Len(o) : o[i].q = o[j].q /\ o[i].q # None => i = j
  <2>1. ASSUME NEW i \in 1..Len(o), NEW j \in 1..Len(o), o[i].q = o[j].q, o[i].q # None
        PROVE  i = j
    <3>1. CASE i \in 1..Len(out) /\ j \in 1..Len(out)
      BY <1>1, <2>1, <3>1 DEF Apart
    <3>2. CASE i \in 1..Len(out) /\ o[j] = x
      BY <1>1, <1>3, <2>1, <3>2 DEF Apart
    <3>3. CASE j \in 1..Len(out) /\ o[i] = x
      BY <1>1, <1>3, <2>1, <3>3 DEF Apart
    <3>4. QED BY <1>2, <2>1, <3>1, <3>2, <3>3
  <2>2. QED BY <2>1
<1>4. ASSUME x.q = r PROVE Apart(in, p, None, w, o, n)
  <2>1. \A i \in 1..Len(o) : o[i].q <= n /\ (o[i].q # None => o[i].q \notin {p, None, w})
    BY <1>2, <1>4 DEF Apart
  <2>2. \A i \in 1..Len(in) : in[i].q # None => \A j \in 1..Len(o) : in[i].q # o[j].q
    BY <1>2, <1>4 DEF Apart
  <2>3. \A i \in 1..Len(in) : in[i].q # None => in[i].q \notin {p, None, w}
    BY DEF Apart
  <2>4. /\ {p, None, w} \subseteq 0..n
        /\ p # None => p \notin {None, w}
        /\ None # None => None # w
    BY DEF Apart, None
  <2>5. \A i, j \in 1..Len(o) : o[i].q = o[j].q /\ o[i].q # None => i = j
    BY <1>3, <1>4
  <2>6. QED BY <2>1, <2>2, <2>3, <2>4, <2>5 DEF Apart
<1>5. ASSUME x.q = w PROVE Apart(in, p, r, None, o, n)
  <2>1. \A i \in 1..Len(o) : o[i].q <= n /\ (o[i].q # None => o[i].q \notin {p, r, None})
    BY <1>2, <1>5 DEF Apart
  <2>2. \A i \in 1..Len(in) : in[i].q # None => \A j \in 1..Len(o) : in[i].q # o[j].q
    BY <1>2, <1>5 DEF Apart
  <2>3. \A i \in 1..Len(in) : in[i].q # None => in[i].q \notin {p, r, None}
    BY DEF Apart
  <2>4. /\ {p, r, None} \subseteq 0..n
        /\ p # None => p \notin {r, None}
        /\ r # None => r # None
    BY DEF Apart, None
  <2>5. \A i, j \in 1..Len(o) : o[i].q = o[j].q /\ o[i].q # None => i = j
    BY <1>3, <1>5
  <2>6. QED BY <2>1, <2>2, <2>3, <2>4, <2>5 DEF Apart
<1>6. QED BY <1>4, <1>5 DEF o

\* ... or sent.
LEMMA ApartSent ==
  ASSUME NEW in \in Seq(Frames), NEW p, NEW r, NEW w, NEW out \in Seq(Batches), NEW n \in Nat,
         Apart(in, p, r, w, out, n), NEW f \in Frames, f.q \in {None, n + 1}
  PROVE  Apart(Append(in, f), p, r, w, out, n + 1)
<1> DEFINE o == Append(in, f)
<1>1. /\ Len(o) = Len(in) + 1 /\ Len(in) \in Nat /\ o[Len(in) + 1] = f
      /\ \A i \in 1..Len(in) : o[i] = in[i]
  BY AppendIs
<1> HIDE DEF o
<1>2. \A i \in 1..Len(o) : (i \in 1..Len(in) /\ o[i] = in[i]) \/ (i = Len(in) + 1 /\ o[i] = f)
  BY <1>1
<1>3. /\ \A i \in 1..Len(in) : in[i].q \in 0..n
      /\ \A i \in 1..Len(out) : out[i].q \in 0..n
  <2>1. /\ \A i \in 1..Len(in) : in[i].q \in Nat
        /\ \A i \in 1..Len(out) : out[i].q \in Nat
    <3>1. /\ \A i \in 1..Len(in) : in[i] \in Frames
          /\ \A i \in 1..Len(out) : out[i] \in Batches
      OBVIOUS
    <3>2. (\A x \in Frames : x.q \in Nat) /\ (\A x \in Batches : x.q \in Nat)
      BY SessionAssumption DEF Frames, Batches
    <3>3. QED BY <3>1, <3>2
  <2>2. QED BY <2>1 DEF Apart
<1>4. f.q # None => f.q = n + 1 /\ n + 1 \notin 0..n
  OBVIOUS
<1>5. \A i, j \in 1..Len(o) : o[i].q = o[j].q /\ o[i].q # None => i = j
  <2>1. ASSUME NEW i \in 1..Len(o), NEW j \in 1..Len(o), o[i].q = o[j].q, o[i].q # None
        PROVE  i = j
    <3>1. CASE i \in 1..Len(in) /\ j \in 1..Len(in)
      BY <1>1, <2>1, <3>1 DEF Apart
    <3>2. CASE i \in 1..Len(in) /\ o[j] = f
      BY <1>1, <1>3, <1>4, <2>1, <3>2
    <3>3. CASE j \in 1..Len(in) /\ o[i] = f
      BY <1>1, <1>3, <1>4, <2>1, <3>3
    <3>4. QED BY <1>2, <2>1, <3>1, <3>2, <3>3
  <2>2. QED BY <2>1
<1>6. \A i \in 1..Len(o) : o[i].q <= n + 1 /\ (o[i].q # None =>
         o[i].q \notin {p, r, w} /\ \A j \in 1..Len(out) : o[i].q # out[j].q)
  <2>1. ASSUME NEW i \in 1..Len(in)
        PROVE  in[i].q <= n + 1 /\ (in[i].q # None =>
                 in[i].q \notin {p, r, w} /\ \A j \in 1..Len(out) : in[i].q # out[j].q)
    BY <1>3 DEF Apart
  <2>2. f.q <= n + 1 /\ (f.q # None => f.q \notin {p, r, w} /\ \A j \in 1..Len(out) : f.q # out[j].q)
    BY <1>3, <1>4 DEF Apart, None
  <2>3. QED BY <1>2, <2>1, <2>2
<1>7. {p, r, w} \subseteq 0..(n + 1) /\ \A i \in 1..Len(out) : out[i].q <= n + 1
  BY <1>3 DEF Apart
<1>8. Apart(o, p, r, w, out, n + 1)
  BY <1>5, <1>6, <1>7 DEF Apart
<1>9. QED BY <1>8 DEF o

LEMMA UniqueStep ==
  ASSUME TypeInv, SearcherInv, UniqueInv, [Next]_vars PROVE UniqueInv'
<1> USE DEF pipeVars, shellVars, mailVars, threadVars
<1> DEFINE p == pending.q
           r == job["reader"].q
           w == Working
<1>0. /\ "reader" \in Threads /\ "worker" \in Threads /\ Threads = {"reader", "worker"}
      /\ job \in [Threads -> Jobs] /\ pc \in [Threads -> ReaderAt \union WorkerAt]
      /\ sent \in Seq(Batches) /\ inbox \in Seq(Frames) /\ sends \in Nat
  BY SessionAssumption DEF Threads, TypeInv
<1>1. Apart(inbox, p, r, w, sent, sends)
  BY DEF UniqueInv
<1>2. ASSUME UNCHANGED <<inbox, sent, sends>>, pending'.q \in {p, None},
             job'["reader"].q \in {r, None}, Working' \in {w, None}
      PROVE  UniqueInv'
  <2>1. Apart(inbox, pending'.q, job'["reader"].q, Working', sent, sends)
    BY <1>0, <1>1, <1>2, ApartFewer
  <2>2. QED BY <1>2, <2>1 DEF UniqueInv
<1>3. ASSUME NEW f \in Frames, Send(f), f.q \in {None, sends + 1} PROVE UniqueInv'
  <2>1. /\ inbox' = Append(inbox, f) /\ sends' = sends + 1
        /\ UNCHANGED <<sent, pending, job, pc>>
    BY <1>3 DEF Send
  <2>2. Apart(Append(inbox, f), p, r, w, sent, sends + 1)
    BY <1>0, <1>1, <1>3, ApartSent
  <2>3. Working' = w
    BY <2>1 DEF Working, Busy
  <2>4. QED BY <2>1, <2>2, <2>3 DEF UniqueInv
<1>4. ASSUME NEW kind \in {"search", "empty"}, Type(kind) PROVE UniqueInv'
  <2>1. sends + 1 \in 0..MaxSends /\ generation + 1 \in 0..GenTop
    BY <1>4, SessionAssumption DEF TypeInv, Type, Send
  <2>2. Frame(kind, sends + 1, generation + 1) \in Frames
    BY <2>1, FrameIsTyped
  <2>3. Frame(kind, sends + 1, generation + 1).q = sends + 1
    BY DEF Frame, Job
  <2>4. QED BY <1>3, <1>4, <2>2, <2>3 DEF Type
<1>5. CASE Cancel
  <2>1. None \in 0..MaxSends /\ currentGen \in 0..GenTop
    BY SessionAssumption DEF TypeInv, None
  <2>2. Frame("cancel", None, currentGen) \in Frames /\ Frame("cancel", None, currentGen).q = None
    BY <2>1, FrameIsTyped DEF Frame, Job
  <2>3. QED BY <1>3, <1>5, <2>2 DEF Cancel
<1>6. ASSUME NEW t \in {"request", "active", "idle", "garbage"}, Ask(t) PROVE UniqueInv'
  <2>1. Frame(t, None, 0) \in Frames /\ Frame(t, None, 0).q = None
    BY FrameIsTyped, SessionAssumption DEF Frame, Job, None
  <2>2. QED BY <1>3, <1>6, <2>1 DEF Ask
<1>7. CASE Receive \/ Reload \/ HangUp \/ UNCHANGED vars
  <2>1. UNCHANGED <<inbox, sent, sends, pending, job, pc>>
    BY <1>7 DEF Receive, Reload, HangUp, vars
  <2>2. QED BY <1>2, <2>1 DEF Working, Busy
\* A frame leaves the inbox, and may be what the reader carries next.
<1>8. ASSUME inbox # <<>>, inbox' = Tail(inbox), UNCHANGED <<sent, sends, pending>>,
             job'["reader"].q \in {r, None, Head(inbox).q}, Working' \in {w, None}
      PROVE  UniqueInv'
  <2>1. Apart(Tail(inbox), p, job'["reader"].q, w, sent, sends)
    BY <1>0, <1>1, <1>8, ApartRead
  <2>2. Apart(Tail(inbox), p, job'["reader"].q, Working', sent, sends)
    BY <1>0, <1>8, <2>1, ApartFewer
  <2>3. QED BY <1>8, <2>2 DEF UniqueInv
<1>9. CASE Handshake
  <2>1. job'["reader"] = Reply /\ pc'["worker"] \in {"take", "done"}
    BY <1>0, <1>9 DEF Handshake, Carry
  <2>2. Working' = None
    BY <2>1 DEF Working, Busy
  <2>3. QED BY <1>8, <1>9, <2>1, <2>2, JobIsTyped DEF Handshake
<1>10. CASE ReadFrame
  <2> DEFINE f == Head(inbox)
  <2>1. /\ job'["worker"] = job["worker"] /\ pc'["worker"] = pc["worker"]
        /\ inbox # <<>> /\ inbox' = Tail(inbox) /\ UNCHANGED <<sent, sends, pending>>
    BY <1>0, <1>10 DEF ReadFrame, ReadSearch, ReadEmpty, ReadCancel, ReadRequest, ReadActivity,
                       ReadGarbage, Goto, Carry
  <2>2. job'["reader"].q \in {r, None, f.q}
    <3>1. \A k, g : Job(k, f.q, g).q = f.q
      BY DEF Job
    <3>2. ReadSearch(f) \/ ReadEmpty(f) \/ ReadRequest \/ job' = job
      BY <1>10 DEF ReadFrame, ReadCancel, ReadActivity, ReadGarbage
    <3> HIDE DEF f
    <3>3. QED BY <1>0, <3>1, <3>2, JobIsTyped DEF ReadSearch, ReadEmpty, ReadRequest, Carry
  <2>3. Working' = w
    BY <2>1 DEF Working, Busy
  <2>4. QED BY <1>8, <2>1, <2>2, <2>3
<1>11. CASE ReadEnd \/ StopSearch \/ Join
  <2>1. UNCHANGED <<inbox, sent, sends, pending, job>> /\ pc'["worker"] = pc["worker"]
    BY <1>0, <1>11 DEF ReadEnd, StopSearch, Join, Goto
  <2>2. QED BY <1>2, <2>1 DEF Working, Busy
<1>12. CASE Submit
  <2>1. /\ UNCHANGED <<inbox, sent, sends>> /\ Working' = w
        /\ \/ UNCHANGED <<pending, job>>
           \/ pending' = job["reader"] /\ job'["reader"] = Nothing
    BY <1>0, <1>12 DEF Submit, Goto, Carry, Working, Busy
  <2>2. CASE UNCHANGED <<pending, job>>
    BY <1>2, <2>1, <2>2
  <2>3. CASE pending' = job["reader"] /\ job'["reader"] = Nothing
    <3>1. Apart(inbox, r, None, w, sent, sends)
      BY <1>0, <1>1, ApartMoved
    <3>2. QED BY <2>1, <2>3, <3>1, JobIsTyped DEF UniqueInv
  <2>4. QED BY <2>1, <2>2, <2>3
<1>13. CASE CloseMailbox
  <2>1. UNCHANGED <<inbox, sent, sends, job>> /\ pc'["worker"] = pc["worker"] /\ pending' = Nothing
    BY <1>0, <1>13 DEF CloseMailbox, Goto
  <2>2. QED BY <1>2, <2>1, JobIsTyped DEF Working, Busy
<1>14. ASSUME NEW th \in Threads, Match(th) \/ Acquire(th) PROVE UniqueInv'
  <2>1. UNCHANGED <<inbox, sent, sends, pending, job>>
    BY <1>14 DEF Match, Acquire
  <2>2. pc'["worker"] = pc["worker"] \/ (Busy /\ Busy')
    BY <1>0, <1>14 DEF Match, Acquire, Goto, Busy
  <2>3. QED BY <1>2, <2>1, <2>2 DEF Working, Busy
<1>15. ASSUME NEW th \in Threads, Verify(th) PROVE UniqueInv'
  <2>1. UNCHANGED <<inbox, sent, sends, pending>>
    BY <1>15 DEF Verify
  <2>2. /\ job'[th].q \in {job[th].q, None} /\ \A o \in Threads : o # th => job'[o] = job[o]
    BY <1>0, <1>15, JobIsTyped DEF Verify, Carry, Jobs
  <2>3. Busy' => Busy
    BY <1>0, <1>15 DEF Verify, Goto, Busy
  <2>4. job'["reader"].q \in {r, None} /\ Working' \in {w, None}
    BY <1>0, <2>2, <2>3 DEF Working
  <2>5. QED BY <1>2, <2>1, <2>4
<1>16. ASSUME NEW th \in Threads, Write(th) PROVE UniqueInv'
  <2>1. /\ UNCHANGED <<inbox, sends, pending>> /\ job'[th] = Nothing
        /\ \A o \in Threads : o # th => job'[o] = job[o]
        /\ sent' \in {sent, Append(sent, Marked(job[th]))}
    BY <1>0, <1>16 DEF Write, Carry
  <2>2. Marked(job[th]) \in Batches /\ Marked(job[th]).q = job[th].q
    BY <1>0 DEF Marked, TypeInv, Jobs, Batches
  <2>3. CASE th = "reader"
    <3>1. job'["reader"].q = None /\ Working' = w
      BY <1>0, <1>16, <2>1, <2>3, JobIsTyped DEF Write, Goto, Working, Busy
    <3>2. Apart(inbox, p, None, w, Append(sent, Marked(job[th])), sends)
      BY <1>0, <1>1, <2>2, <2>3, ApartAnswered
    <3>3. CASE sent' = sent
      BY <1>2, <2>1, <3>1, <3>3
    <3>4. CASE sent' = Append(sent, Marked(job[th]))
      BY <2>1, <3>1, <3>2, <3>4 DEF UniqueInv
    <3>5. QED BY <2>1, <3>3, <3>4
  <2>4. CASE th = "worker"
    <3>1. job'["reader"] = job["reader"] /\ w = job["worker"].q
      BY <1>0, <1>16, <2>1, <2>4 DEF Write, Working, Busy
    <3>2. Working' = None
      BY <1>0, <1>16, <2>4 DEF Write, AfterSend, Goto, Working, Busy
    <3>3. Apart(inbox, p, r, None, Append(sent, Marked(job[th])), sends)
      BY <1>0, <1>1, <2>2, <2>4, <3>1, ApartAnswered
    <3>4. CASE sent' = sent
      BY <1>2, <2>1, <3>1, <3>2, <3>4
    <3>5. CASE sent' = Append(sent, Marked(job[th]))
      BY <2>1, <3>1, <3>2, <3>3, <3>5 DEF UniqueInv
    <3>6. QED BY <2>1, <3>4, <3>5
  <2>5. QED BY <1>0, <2>3, <2>4
<1>17. CASE Take
  <2>1. UNCHANGED <<inbox, sent, sends>> /\ job'["reader"] = job["reader"] /\ w = None
    BY <1>0, <1>17 DEF Take, Carry, Working, Busy
  <2>2. CASE closed
    BY <1>0, <1>2, <1>17, <2>1, <2>2 DEF Take, Goto, Working, Busy
  <2>3. CASE ~ closed
    <3>1. pending' = Nothing /\ job'["worker"] = pending /\ Busy'
      BY <1>0, <1>17, <2>3 DEF Take, Carry, Goto, Busy
    <3>2. Working' = p
      BY <3>1 DEF Working
    <3>3. Apart(inbox, None, r, p, sent, sends)
      BY <1>0, <1>1, ApartMoved
    <3>4. QED BY <2>1, <3>1, <3>2, <3>3, JobIsTyped DEF UniqueInv
  <2>4. QED BY <2>2, <2>3
<1>18. CASE SkipSuperseded
  <2>1. UNCHANGED <<inbox, sent, sends, pending, job>> /\ Busy
    BY <1>18 DEF SkipSuperseded, Busy
  <2>2. QED BY <1>2, <2>1 DEF Working
<1>19. QED
  BY <1>0, <1>4, <1>5, <1>6, <1>7, <1>9, <1>10, <1>11, <1>12, <1>13, <1>14, <1>15, <1>16, <1>17, <1>18
  DEF Next, ShellStep, ReaderStep, WorkerStep

-----------------------------------------------------------------------------
(* The theorems.                                                           *)

\* In every behaviour of a connection the invariant holds.
THEOREM SessionInvariant == Spec => []SessionInv
<1>1. Init => SessionInv
  <2> SUFFICES ASSUME Init PROVE SessionInv
    OBVIOUS
  <2> USE DEF Init
  <2>1. /\ <<>> \in Seq(Batches) /\ Len(<<>>) = 0 /\ Frame("hello", None, 0) \in Frames
        /\ Frame("hello", None, 0).q = None
    BY FrameIsTyped, SessionAssumption DEF Frame, Job, None
  <2>2. /\ inbox \in Seq(Frames) /\ Len(inbox) = 1 /\ inbox[1].q = None
        /\ \A i \in 1..Len(inbox) : i = 1
    BY <2>1
  <2>3. TypeInv
    <3>1. /\ inbox \in Seq(Frames) /\ sent \in Seq(Batches) /\ got \in 0..Len(sent)
          /\ Len(sent) - got <= PipeRoom
      BY <2>1, <2>2, SessionAssumption
    <3>2. /\ sends \in 0..MaxSends /\ reloads \in 0..MaxReloads /\ generation \in 0..sends
          /\ currentGen \in 0..sends /\ page \in 0..sends /\ shown \in 0..MaxSends
          /\ latest \in 0..GenTop
      BY SessionAssumption DEF None
    <3>3. pending \in Jobs /\ job \in [Threads -> Jobs]
      BY JobIsTyped
    <3>4. /\ pc \in [Threads -> ReaderAt \union WorkerAt]
          /\ pc["reader"] \in ReaderAt /\ pc["worker"] \in WorkerAt
      BY DEF Threads, ReaderAt, WorkerAt
    <3>5. /\ peer \in {"open", "gone"} /\ writer \in Threads \union {"free"}
          /\ awaited \in BOOLEAN /\ closed \in BOOLEAN /\ inline \in BOOLEAN /\ active \in BOOLEAN
      OBVIOUS
    <3>6. QED BY <3>1, <3>2, <3>3, <3>4, <3>5 DEF TypeInv
  <2>4. SearcherInv
    BY JobIsTyped DEF SearcherInv, Threads
  <2>5. UniqueInv
    <3>1. pending.q = None /\ job["reader"].q = None /\ Working = None
      BY JobIsTyped DEF Working, Busy, Threads
    <3>2. QED BY <2>1, <2>2, <3>1 DEF UniqueInv, Apart, None
  <2>6. LateInv
    BY <2>1, JobIsTyped DEF LateInv
  <2>7. CurrentInv
    BY <2>1, <2>2, NothingFits DEF CurrentInv, Fits
  <2>8. QED BY <2>3, <2>4, <2>5, <2>6, <2>7 DEF SessionInv
<1>2. SessionInv /\ [Next]_vars => SessionInv'
  BY TypeStep, SearcherStep, UniqueStep, LateStep, CurrentStep DEF SessionInv
<1>3. QED BY <1>1, <1>2, PTL DEF Spec

\* Two late batches under one watermark would have the later one older than what the
\* earlier was written under.
LEMMA LateOnce ==
  ASSUME TypeInv, LateInv PROVE OneLateBatch
<1>1. SUFFICES ASSUME NEW m \in 1..GenTop
               PROVE  Cardinality({i \in 1..Len(sent) :
                         sent[i].kind = "full" /\ sent[i].gen < m /\ m <= sent[i].mark}) <= 1
  BY DEF OneLateBatch
<1> DEFINE L == {i \in 1..Len(sent) :
                    sent[i].kind = "full" /\ sent[i].gen < m /\ m <= sent[i].mark}
<1>2. \A i \in 1..Len(sent) : sent[i].gen \in Nat /\ sent[i].mark \in Nat
  <2>1. \A i \in 1..Len(sent) : sent[i] \in Batches
    BY DEF TypeInv
  <2>2. \A x \in Batches : x.gen \in Nat /\ x.mark \in Nat
    BY SessionAssumption DEF Batches
  <2>3. QED BY <2>1, <2>2
<1>3. ASSUME NEW i \in L, NEW j \in L PROVE ~ (i < j)
  <2>1. /\ i \in 1..Len(sent) /\ sent[i].kind = "full" /\ sent[i].gen < m /\ m <= sent[i].mark
        /\ j \in 1..Len(sent) /\ sent[j].kind = "full" /\ sent[j].gen < m
    OBVIOUS
  <2>2. sent[i].gen \in Nat /\ sent[i].mark \in Nat /\ sent[j].gen \in Nat /\ m \in Int
    BY <1>2, <2>1
  <2> HIDE DEF L
  <2>3. Late(sent[i])
    BY <2>1, <2>2 DEF Late
  <2>4. i < j => sent[j].gen >= sent[i].mark
    BY <2>1, <2>3 DEF LateInv
  <2>5. QED BY <2>1, <2>2, <2>4
<1>4. \A i, j \in L : i = j
  <2>1. \A i \in L : i \in Nat
    OBVIOUS
  <2> HIDE DEF L
  <2>2. QED BY <1>3, <2>1
<1> HIDE DEF L
<1>5. ASSUME L = {} PROVE Cardinality(L) <= 1
  BY <1>5, FS_EmptySet
<1>6. ASSUME L # {} PROVE Cardinality(L) <= 1
  <2>1. PICK i \in L : TRUE
    BY <1>6
  <2>2. L = {i}
    BY <1>4, <2>1
  <2>3. Cardinality({i}) = 1
    BY FS_Singleton
  <2>4. QED BY <2>2, <2>3
<1>7. Cardinality(L) <= 1
  BY <1>5, <1>6
<1>8. QED BY <1>7 DEF L

\* Whatever the reader, the worker and the shell do and in which order, a query is
\* answered at most once, and of the searches one frame superseded at most one still
\* writes its batch.
THEOREM AnswersAreExact == Spec => []AnswersExact
<1>1. SessionInv => AnswersExact
  <2> SUFFICES ASSUME SessionInv PROVE AnswersExact
    OBVIOUS
  <2>0. TypeInv /\ LateInv /\ UniqueInv
    BY DEF SessionInv
  <2>1. SessionTypeOK
    <3>1. 0..sends \subseteq 0..GenTop /\ 0..sends \subseteq 0..MaxSends
      BY <2>0, SessionAssumption DEF TypeInv
    <3>2. \A i \in 1..Len(inbox) : inbox[i].gen \in 0..GenTop
      <4>1. \A i \in 1..Len(inbox) : inbox[i] \in Frames
        BY <2>0 DEF TypeInv
      <4>2. QED BY <4>1 DEF Frames
    <3>3. QED BY <2>0, <3>1, <3>2 DEF TypeInv, SessionTypeOK, ReaderAt, WorkerAt
  <2>2. AnsweredOnce
    BY <2>0 DEF UniqueInv, Apart, AnsweredOnce
  <2>3. OneLateBatch
    BY <2>0, LateOnce
  <2>4. QED BY <2>1, <2>2, <2>3 DEF AnswersExact
<1>2. QED BY <1>1, SessionInvariant, PTL

\* Until it is reloaded the page shows no rows but those of the query it issued last.
THEOREM ShownRowsAreCurrent == Spec => []ShownIsCurrent
<1>1. SessionInv => ShownIsCurrent
  BY DEF SessionInv, CurrentInv, ShownIsCurrent
<1>2. QED BY <1>1, SessionInvariant, PTL

-----------------------------------------------------------------------------
(* The order of offers.                                                    *)

Tier == {"exact", "prefix", "boundary", "inner", "initials", "fuzzy"}
Profile ==
  [hits : Seq({"exact", "prefix", "boundary", "inner"}), initials : BOOLEAN, superset : BOOLEAN,
   density : 0..100, depth : 0..DepthTop, hidden : BOOLEAN, accepted : BOOLEAN]
Asked ==
  /\ search \in [k : Nat \ {0}, qlen : Nat \ {0}]
  /\ corpus \in [Slots -> Profile]
  /\ \A s \in Slots : /\ \A i \in 2..Len(corpus[s].hits) : ~Start(corpus[s].hits[i])
                      /\ corpus[s].density > 0 => corpus[s].superset

Genuine(o) == \E s \in Slots, t \in Tier : o = Scored(s, t)

LEMMA SlotFacts ==
  ASSUME Asked, NEW s \in Slots
  PROVE  /\ corpus[s].depth \in 0..DepthTop /\ corpus[s].hidden \in BOOLEAN
         /\ corpus[s].density \in 0..100 /\ corpus[s].accepted \in BOOLEAN
         /\ corpus[s].initials \in BOOLEAN /\ corpus[s].superset \in BOOLEAN
         /\ corpus[s].hits \in Seq({"exact", "prefix", "boundary", "inner"})
         /\ Pen[corpus[s].depth][corpus[s].hidden] \in 1..100
         /\ Pen[corpus[s].depth][FALSE] \in 1..100
         /\ Pen[corpus[s].depth][corpus[s].hidden] <= Pen[corpus[s].depth][FALSE]
<1>1. corpus[s] \in Profile
  BY DEF Asked
<1>2. /\ corpus[s].depth \in 0..DepthTop /\ corpus[s].hidden \in BOOLEAN
      /\ corpus[s].density \in 0..100 /\ corpus[s].accepted \in BOOLEAN
      /\ corpus[s].initials \in BOOLEAN /\ corpus[s].superset \in BOOLEAN
      /\ corpus[s].hits \in Seq({"exact", "prefix", "boundary", "inner"})
  BY <1>1 DEF Profile
<1>3. Pen[corpus[s].depth] \in [BOOLEAN -> 1..100]
  BY <1>2, PageAssumption
<1>4. Pen[corpus[s].depth][TRUE] <= Pen[corpus[s].depth][FALSE]
  BY <1>2, PageAssumption
<1>5. Pen[corpus[s].depth][TRUE] \in 1..100 /\ Pen[corpus[s].depth][FALSE] \in 1..100
  BY <1>3
<1>6. CASE corpus[s].hidden = TRUE
  BY <1>2, <1>4, <1>5, <1>6
<1>7. CASE corpus[s].hidden = FALSE
  <2>1. Pen[corpus[s].depth][corpus[s].hidden] = Pen[corpus[s].depth][FALSE]
    BY <1>7
  <2>2. \A n \in 1..100 : n <= n
    OBVIOUS
  <2> QED
    BY <1>2, <1>5, <2>1, <2>2
<1> QED
  BY <1>2, <1>6, <1>7

\* A tier's base, and what bounds the score.
LEMMA BaseFacts ==
  ASSUME Asked, NEW s \in Slots, NEW t \in Tier
  PROVE  /\ t = "fuzzy" => Base(s, t) \in 30..50
         /\ t # "fuzzy" => Base(s, t) = TierBase[t] /\ Base(s, t) \in 55..100
         /\ \A u \in Tier : u # t => Base(s, u) # Base(s, t)
<1>1. corpus[s].density \in 0..100
  BY SlotFacts
<1>2. corpus[s].density \div 5 \in 0..20
  BY <1>1
<1>3. FuzzyBase(corpus[s].density) \in 30..50
  BY <1>2 DEF FuzzyBase
<1> QED
  BY <1>3 DEF Base, TierBase, Tier

\* The parts of an offer.
LEMMA ScoredParts ==
  ASSUME NEW s, NEW t
  PROVE  /\ Scored(s, t).slot = s /\ Scored(s, t).tier = t
         /\ Scored(s, t).score = Base(s, t) * Pen[corpus[s].depth][corpus[s].hidden]
BY DEF Scored

\* What bounds a score.
LEMMA ScoreRange ==
  ASSUME Asked, NEW s \in Slots, NEW t \in Tier
  PROVE  Scored(s, t).score \in Nat /\ Scored(s, t).score <= 10000
<1> DEFINE p == Pen[corpus[s].depth][corpus[s].hidden]
           q == Pen[corpus[s].depth][FALSE]
           b == Base(s, t)
<1>1. p \in 1..100 /\ q \in 1..100 /\ p <= q
  BY SlotFacts
<1>2. b \in 30..100 /\ (t = "fuzzy" => b <= 50) /\ (t # "fuzzy" => b = TierBase[t])
  BY BaseFacts
<1>3. Scored(s, t).score = b * p
  BY ScoredParts
<1> SUFFICES b * p \in Nat /\ b * p <= 10000
  BY <1>3
<1> HIDE DEF p, q, b
<1>4. \A x, y, z \in Nat : x <= y => x * z <= y * z /\ z * x <= z * y
  OBVIOUS
<1>5. b * p <= b * 100 /\ b * 100 <= 10000
  BY <1>1, <1>2, <1>4
<1> QED
  BY <1>1, <1>2, <1>5

LEMMA TierBounds ==
  ASSUME Asked, NEW s \in Slots, NEW t \in Tier
  PROVE  t # "fuzzy" => Scored(s, t).score <= TierBase[t] * 100
<1> DEFINE p == Pen[corpus[s].depth][corpus[s].hidden]
           q == Pen[corpus[s].depth][FALSE]
           b == Base(s, t)
<1>1. p \in 1..100 /\ q \in 1..100 /\ p <= q
  BY SlotFacts
<1>2. b \in 30..100 /\ (t = "fuzzy" => b <= 50) /\ (t # "fuzzy" => b = TierBase[t])
  BY BaseFacts
<1>3. Scored(s, t).score = b * p
  BY ScoredParts
<1> SUFFICES t # "fuzzy" => b * p <= TierBase[t] * 100
  BY <1>3
<1> HIDE DEF p, q, b
<1>4. \A x, y, z \in Nat : x <= y => x * z <= y * z /\ z * x <= z * y
  OBVIOUS
<1>5. b * p <= b * 100
  BY <1>1, <1>2, <1>4
<1> QED
  BY <1>2, <1>5

LEMMA FuzzyBounds ==
  ASSUME Asked, NEW s \in Slots, NEW t \in Tier
  PROVE  t = "fuzzy" => Scored(s, t).score <= FuzzyTop * Pen[corpus[s].depth][FALSE]
<1> DEFINE p == Pen[corpus[s].depth][corpus[s].hidden]
           q == Pen[corpus[s].depth][FALSE]
           b == Base(s, t)
<1>1. p \in 1..100 /\ q \in 1..100 /\ p <= q
  BY SlotFacts
<1>2. b \in 30..100 /\ (t = "fuzzy" => b <= 50) /\ (t # "fuzzy" => b = TierBase[t])
  BY BaseFacts
<1>3. Scored(s, t).score = b * p
  BY ScoredParts
<1> SUFFICES t = "fuzzy" => b * p <= FuzzyTop * q
  BY <1>3
<1> HIDE DEF p, q, b
<1>4. \A x, y, z \in Nat : x <= y => x * z <= y * z /\ z * x <= z * y
  OBVIOUS
<1>5. b * p <= b * q /\ (b <= 50 => b * q <= 50 * q)
  BY <1>1, <1>2, <1>4
<1>6. b * p \in Nat /\ b * q \in Nat /\ 50 * q \in Nat
  BY <1>1, <1>2
<1> QED
  BY <1>2, <1>5, <1>6 DEF FuzzyTop

\* On one slot, a better tier makes a better score.
LEMMA ScoreRises ==
  ASSUME Asked, NEW s \in Slots, NEW t \in Tier, NEW u \in Tier, Base(s, u) > Base(s, t)
  PROVE  Scored(s, u).score > Scored(s, t).score
<1> DEFINE p == Pen[corpus[s].depth][corpus[s].hidden]
           b == Base(s, t)
           c == Base(s, u)
<1>1. p \in 1..100
  BY SlotFacts
<1>2. b \in 30..100 /\ c \in 30..100 /\ c > b
  BY BaseFacts
<1>3. Scored(s, t).score = b * p /\ Scored(s, u).score = c * p
  BY ScoredParts
<1> SUFFICES c * p > b * p
  BY <1>3
<1> HIDE DEF p, b, c
<1>4. \A x, y, z \in Nat : x <= y => x * z <= y * z /\ z * x <= z * y
  OBVIOUS
<1>5. (b + 1) * p = b * p + p
  BY <1>1, <1>2
<1>6. c * p >= (b + 1) * p
  BY <1>1, <1>2, <1>4
<1>7. c * p \in Nat /\ b * p \in Nat
  BY <1>1, <1>2
<1> QED
  BY <1>1, <1>5, <1>6, <1>7

\* Better orders the offers.
LEMMA OfferFacts ==
  ASSUME Asked, NEW x, Genuine(x)
  PROVE  /\ x.score \in Nat /\ x.score <= 10000 /\ x.slot \in Slots /\ x.slot \in Nat /\ x.tier \in Tier
         /\ x = Scored(x.slot, x.tier)
<1>1. PICK s \in Slots, t \in Tier : x = Scored(s, t)
  BY DEF Genuine
<1>2. s \in Nat
  BY PageAssumption DEF Slots
<1>3. Scored(s, t).slot = s /\ Scored(s, t).tier = t
  BY ScoredParts
<1>4. Scored(s, t).score \in Nat /\ Scored(s, t).score <= 10000
  BY <1>1, ScoreRange
<1> QED
  BY <1>1, <1>2, <1>3, <1>4

LEMMA BetterOrders ==
  ASSUME Asked, NEW x, NEW y, Genuine(x), Genuine(y)
  PROVE  /\ x = y \/ Better(x, y) \/ Better(y, x)
         /\ ~(Better(x, y) /\ Better(y, x)) /\ ~Better(x, x)
         /\ \A z : Genuine(z) /\ Better(x, y) /\ Better(y, z) => Better(x, z)
<1>1. /\ x.score \in Nat /\ x.slot \in Nat /\ x = Scored(x.slot, x.tier) /\ x.tier \in Tier /\ x.slot \in Slots
      /\ y.score \in Nat /\ y.slot \in Nat /\ y = Scored(y.slot, y.tier) /\ y.tier \in Tier /\ y.slot \in Slots
  BY OfferFacts
<1>2. ASSUME x.score = y.score, x.slot = y.slot PROVE x = y
  <2>1. SUFFICES ASSUME x.tier # y.tier PROVE FALSE
    BY <1>1, <1>2
  <2>2. Base(x.slot, x.tier) > Base(x.slot, y.tier) \/ Base(x.slot, y.tier) > Base(x.slot, x.tier)
    <3>1. Base(x.slot, x.tier) # Base(x.slot, y.tier)
      BY <1>1, <2>1, BaseFacts
    <3>2. Base(x.slot, x.tier) \in 30..100 /\ Base(x.slot, y.tier) \in 30..100
      BY <1>1, BaseFacts
    <3> QED
      BY <3>1, <3>2
  <2>3. Scored(x.slot, x.tier).score = x.score /\ Scored(x.slot, y.tier).score = y.score
    BY <1>1, <1>2
  <2>4. \/ Scored(x.slot, x.tier).score > Scored(x.slot, y.tier).score
        \/ Scored(x.slot, y.tier).score > Scored(x.slot, x.tier).score
    BY <1>1, <2>2, ScoreRises
  <2> QED
    BY <1>1, <1>2, <2>3, <2>4
<1>3. x.score > y.score \/ y.score > x.score \/ x.score = y.score
  BY <1>1
<1>4. x.slot < y.slot \/ y.slot < x.slot \/ x.slot = y.slot
  BY <1>1
<1>5. x = y \/ Better(x, y) \/ Better(y, x)
  BY <1>2, <1>3, <1>4 DEF Better
<1>6. ~(Better(x, y) /\ Better(y, x)) /\ ~Better(x, x)
  BY <1>1 DEF Better
<1>7. ASSUME NEW z, Genuine(z), Better(x, y), Better(y, z) PROVE Better(x, z)
  <2>1. z.score \in Nat /\ z.slot \in Nat
    BY <1>7, OfferFacts
  <2> QED
    BY <1>1, <1>7, <2>1 DEF Better
<1> QED
  BY <1>5, <1>6, <1>7

-----------------------------------------------------------------------------
(* What every state of a search keeps to.                                  *)

\* The passes a slot may be offered by: each offers it once.
Group(tier) == IF tier = "initials" THEN 3 ELSE IF Short /\ Start(tier) THEN 2 ELSE 1

\* An offer is covered by a full heap of better ones, or by one as good of its slot.
Above(H, o)   == \A h \in H : Better(h, o)
AsGood(h, o)  == h.slot = o.slot /\ (h = o \/ Better(h, o))
Covers(H, o)  == (Cardinality(H) >= Cap /\ Above(H, o)) \/ \E h \in H : AsGood(h, o)
Covered(o)    == Covers(heap, o) \/ \E p \in pend : AsGood(Scored(p.slot, p.tier), o)

HitTiers == {"exact", "prefix", "boundary", "inner"}

PageTypes ==
  /\ Asked
  /\ pass \in {"head", "arena", "to_initials", "initials", "to_fuzzy", "fuzzy", "drain", "done"}
  /\ spot \in Nat \ {0} /\ nth \in Nat \ {0}
  /\ survivors \subseteq Slots /\ dropped \subseteq Slots /\ seen \subseteq Slots
  /\ overtime \in BOOLEAN /\ cancelled \in BOOLEAN

\* One offer waits at most, of the pass that is under way.
PendInv ==
  /\ \A p, q \in pend : p = q
  /\ \A p \in pend : /\ p = [slot |-> p.slot, tier |-> p.tier]
                     /\ p.slot \in Slots /\ p.tier \in Tiers(p.slot) /\ p.tier # "fuzzy"
  /\ pass \notin {"arena", "initials"} => pend = {}
  /\ pass = "arena" =>
       \A p \in pend : /\ Group(p.tier) = 1
                       /\ \A i \in Slots : i > spot => ArenaOrder[i] # p.slot
  /\ pass = "initials" => \A p \in pend : p.tier = "initials" /\ p.slot < spot

\* The heap holds genuine offers, one a slot and pass, and not the one that waits.
HeapGood(H) ==
  /\ IsFiniteSet(H)
  /\ \A h \in H : /\ h.slot \in Slots /\ corpus[h.slot].accepted /\ h.tier \in Tiers(h.slot)
                  /\ h = Scored(h.slot, h.tier)
  /\ \A h, g \in H : h.slot = g.slot /\ Group(h.tier) = Group(g.tier) => h = g
New(H, s, t) == \A h \in H : h.slot = s => Group(h.tier) # Group(t)
HeapInv ==
  /\ HeapGood(heap)
  /\ \A h \in heap : h.slot \in seen
  /\ \A p \in pend : New(heap, p.slot, p.tier)

\* What a pass has yet to come to, it has not offered.
FreshInv ==
  /\ pass = "head" => Short /\ nth = 1 /\ \A h \in heap : Group(h.tier) = 2 /\ h.slot < spot
  /\ pass = "arena" =>
       \A h \in heap : /\ Group(h.tier) # 3
                       /\ Group(h.tier) = 1 => \A i \in Slots : i >= spot => ArenaOrder[i] # h.slot
  /\ pass = "to_initials" => \A h \in heap : Group(h.tier) # 3
  /\ pass = "initials" => \A h \in heap : Group(h.tier) = 3 => h.slot < spot
  /\ pass = "fuzzy" => search.qlen >= 3 /\ \A s \in survivors : s >= spot => s \notin seen
  /\ pass \notin {"fuzzy", "drain", "done"} =>
       /\ survivors = {} /\ dropped = {}
       /\ \A s \in seen : \E t \in Tiers(s) : t # "fuzzy"

\* What the cap costs.
Ahead == {s \in survivors : s >= spot}
DropInv ==
  /\ dropped \subseteq survivors /\ dropped \cap seen = {}
  /\ pass = "fuzzy" => \A s \in dropped : s < spot
  /\ \A s \in dropped : corpus[s].depth >= Cut(survivors)
  /\ dropped # {} => overtime \/ Full
  /\ Cardinality(survivors) <= FUZZY_CAP =>
       /\ dropped = {}
       /\ pass = "fuzzy" => quota \in Nat /\ Cardinality(Ahead) <= quota

\* What the passes have come to by now.
Reached(s, t) ==
  \/ pass = "head" /\ Start(t) /\ s < spot
  \/ pass = "arena" /\ \/ Short /\ Start(t)
                       \/ \E i \in Slots : \E j \in DOMAIN corpus[s].hits :
                            /\ ArenaOrder[i] = s /\ corpus[s].hits[j] = t
                            /\ i < spot \/ (i = spot /\ j < nth)
  \/ pass = "to_initials" /\ t \notin {"initials", "fuzzy"}
  \/ pass = "initials" /\ t # "fuzzy" /\ (t = "initials" => s < spot)
  \/ pass = "to_fuzzy" /\ t # "fuzzy"
  \/ pass = "fuzzy" /\ (t = "fuzzy" => s \notin dropped /\ (s \in survivors => s < spot))
  \/ pass \in {"drain", "done"} /\ (t = "fuzzy" => s \notin dropped)
CoverInv ==
  ~cancelled =>
    \A s \in Slots : corpus[s].accepted =>
      \A t \in Tiers(s) : Reached(s, t) => Covered(Scored(s, t))

PageInv ==
  /\ PageTypes /\ PendInv /\ HeapInv /\ FreshInv /\ DropInv /\ CoverInv
  /\ pass = "done" => top = Truncated(Deduped(heap))


-----------------------------------------------------------------------------
(* What a heap gives.                                                      *)

LEMMA TiersFacts ==
  ASSUME Asked, NEW s \in Slots
  PROVE  /\ \A t \in Tiers(s) : t \in Tier
         /\ \A t \in Tiers(s) : t \notin {"initials", "fuzzy"} =>
              t \in HitTiers /\ \E j \in DOMAIN corpus[s].hits : corpus[s].hits[j] = t
         /\ "initials" \in Tiers(s) => corpus[s].initials
         /\ "fuzzy" \in Tiers(s) => /\ search.qlen >= 3 /\ corpus[s].density > 0
                                    /\ corpus[s].superset
         /\ \A j \in DOMAIN corpus[s].hits : corpus[s].hits[j] \in Tiers(s) /\ corpus[s].hits[j] \in HitTiers
<1>1. corpus[s].hits \in Seq(HitTiers) /\ corpus[s].initials \in BOOLEAN /\ corpus[s].density \in 0..100
  BY SlotFacts DEF HitTiers
<1>2. \A j \in DOMAIN corpus[s].hits : corpus[s].hits[j] \in HitTiers
  BY <1>1
<1>3. corpus[s].density > 0 => corpus[s].superset
  BY DEF Asked
<1>4. \A t \in Tiers(s) : \/ \E j \in DOMAIN corpus[s].hits : corpus[s].hits[j] = t
                          \/ t = "initials" /\ corpus[s].initials
                          \/ t = "fuzzy" /\ search.qlen >= 3 /\ corpus[s].density > 0
  BY DEF Tiers
<1>5. \A j \in DOMAIN corpus[s].hits : corpus[s].hits[j] \in Tiers(s)
  BY DEF Tiers
<1>6. HitTiers \subseteq Tier /\ "initials" \in Tier /\ "fuzzy" \in Tier
      /\ "initials" \notin HitTiers /\ "fuzzy" \notin HitTiers
  BY DEF HitTiers, Tier
<1>7. \A t \in Tiers(s) : t \in Tier
  BY <1>2, <1>4, <1>6
<1>8. \A t \in Tiers(s) : t \notin {"initials", "fuzzy"} =>
              t \in HitTiers /\ \E j \in DOMAIN corpus[s].hits : corpus[s].hits[j] = t
  BY <1>2, <1>4
<1>9. "initials" \in Tiers(s) => corpus[s].initials
  BY <1>2, <1>4, <1>6
<1>10. "fuzzy" \in Tiers(s) => search.qlen >= 3 /\ corpus[s].density > 0 /\ corpus[s].superset
  BY <1>2, <1>3, <1>4, <1>6
<1> QED
  BY <1>2, <1>5, <1>7, <1>8, <1>9, <1>10

LEMMA HeapIsGenuine ==
  ASSUME Asked, NEW H, HeapGood(H), NEW h \in H
  PROVE  /\ Genuine(h) /\ h.slot \in Slots /\ corpus[h.slot].accepted /\ h.tier \in Tiers(h.slot)
         /\ h = Scored(h.slot, h.tier)
<1>1. /\ h.slot \in Slots /\ corpus[h.slot].accepted /\ h.tier \in Tiers(h.slot)
      /\ h = Scored(h.slot, h.tier)
  BY DEF HeapGood
<1>2. h.tier \in Tier
  BY <1>1, TiersFacts
<1> QED
  BY <1>1, <1>2 DEF Genuine

LEMMA OffersFacts ==
  ASSUME Asked
  PROVE  /\ \A o \in Offers : /\ Genuine(o) /\ o.slot \in Slots /\ corpus[o.slot].accepted
                              /\ o.tier \in Tiers(o.slot) /\ o = Scored(o.slot, o.tier)
         /\ \A s \in Slots : corpus[s].accepted => \A t \in Tiers(s) : Scored(s, t) \in Offers
<1>1. ASSUME NEW o \in Offers
      PROVE  /\ Genuine(o) /\ o.slot \in Slots /\ corpus[o.slot].accepted
             /\ o.tier \in Tiers(o.slot) /\ o = Scored(o.slot, o.tier)
  <2>0. PICK s \in Slots : corpus[s].accepted /\ \E t \in Tiers(s) : o = Scored(s, t)
    BY DEF Offers
  <2>1. PICK t \in Tiers(s) : o = Scored(s, t)
    BY <2>0
  <2>2. o.slot = s /\ o.tier = t
    BY <2>1, ScoredParts
  <2>3. t \in Tier
    BY TiersFacts
  <2> QED
    BY <2>0, <2>1, <2>2, <2>3 DEF Genuine
<1>2. \A s \in Slots : corpus[s].accepted => \A t \in Tiers(s) : Scored(s, t) \in Offers
  BY DEF Offers
<1> QED
  BY <1>1, <1>2

LEMMA OffersFinite ==
  ASSUME Asked
  PROVE  IsFiniteSet(Offers)
<1> DEFINE P == Slots \X Tier
           T == {Scored(p[1], p[2]) : p \in P}
<1>1. IsFiniteSet(Slots)
  BY FS_Interval, PageAssumption DEF Slots
<1>2. IsFiniteSet(Tier)
  <2>1. Tier = ((((({} \cup {"exact"}) \cup {"prefix"}) \cup {"boundary"}) \cup {"inner"}) \cup {"initials"}) \cup {"fuzzy"}
    BY DEF Tier
  <2> QED
    BY <2>1, FS_EmptySet, FS_AddElement, Zenon
<1>3. IsFiniteSet(P)
  BY <1>1, <1>2, FS_Product
<1> DEFINE f == [p \in P |-> Scored(p[1], p[2])]
<1>4. f \in Surjection(P, T)
  BY DEF Surjection
<1>5. Offers \subseteq T
  <2> SUFFICES ASSUME NEW o \in Offers PROVE o \in T
    OBVIOUS
  <2>0. PICK s \in Slots : \E t \in Tiers(s) : o = Scored(s, t)
    BY DEF Offers
  <2>1. PICK t \in Tiers(s) : o = Scored(s, t)
    BY <2>0
  <2>2. t \in Tier
    BY TiersFacts
  <2>3. <<s, t>> \in P /\ <<s, t>>[1] = s /\ <<s, t>>[2] = t
    BY <2>2
  <2> QED
    BY <2>1, <2>3
<1> HIDE DEF f, T, P
<1>6. IsFiniteSet(T)
  BY <1>3, <1>4, FS_Surjection
<1> QED
  BY <1>5, <1>6, FS_Subset

\* A heap that is not empty has a worst offer.
LEMMA WorstFacts ==
  ASSUME Asked, NEW H, H # {}, \A h \in H : Genuine(h)
  PROVE  Worst(H) \in H /\ \A h \in H : h = Worst(H) \/ Better(h, Worst(H))
<1>1. \A h \in H : h.score \in Nat /\ h.slot \in Slots /\ h.slot \in Nat
  BY OfferFacts
<1>2. \E w \in H : \A h \in H : w.score <= h.score
  <2> DEFINE S == {h.score : h \in H}
  <2>1. S \in SUBSET Nat /\ S # {}
    BY <1>1
  <2>2. \A h \in H : h.score \in S
    OBVIOUS
  <2>3. \A n \in S : \E h \in H : n = h.score
    OBVIOUS
  <2> HIDE DEF S
  <2>4. \E n \in S : \A m \in S : n <= m
    BY <2>1, LeastElement
  <2> QED
    BY <2>2, <2>3, <2>4
<1>3. PICK v \in H : \A h \in H : v.score <= h.score
  BY <1>2
<1>4. \E w \in H : w.score = v.score /\ \A h \in H : h.score = v.score => h.slot <= w.slot
  <2> DEFINE L == {h \in H : h.score = v.score}
             S == {SlotCount - h.slot : h \in L}
  <2>1. SlotCount \in Nat /\ \A h \in H : h.slot \in 1..SlotCount
    BY <1>1, PageAssumption DEF Slots
  <2>2. S \in SUBSET Nat /\ S # {}
    BY <2>1
  <2>3. \A h \in L : SlotCount - h.slot \in S
    OBVIOUS
  <2>4. \A n \in S : \E h \in L : n = SlotCount - h.slot
    OBVIOUS
  <2>5. \E n \in S : \A m \in S : n <= m
    <3> HIDE DEF S
    <3> QED
      BY <2>2, LeastElement
  <2>6. PICK n \in S : \A m \in S : n <= m
    BY <2>5
  <2>7. PICK w \in L : n = SlotCount - w.slot
    BY <2>4, <2>6
  <2>8. ASSUME NEW h \in H, h.score = v.score PROVE h.slot <= w.slot
    <3>1. SlotCount - w.slot <= SlotCount - h.slot
      BY <2>3, <2>6, <2>7, <2>8
    <3> QED
      BY <2>1, <3>1
  <2> QED
    BY <2>7, <2>8
<1>5. PICK w \in H : w.score = v.score /\ \A h \in H : h.score = v.score => h.slot <= w.slot
  BY <1>4
<1>6. ASSUME NEW h \in H PROVE h = w \/ Better(h, w)
  <2>1. ~ Better(w, h)
    <3>1. w.score <= h.score
      BY <1>3, <1>5
    <3>2. w.score = h.score => h.slot <= w.slot
      BY <1>5
    <3> QED
      BY <1>1, <3>1, <3>2 DEF Better
  <2>2. Genuine(w) /\ Genuine(h)
    OBVIOUS
  <2> QED
    BY <2>1, <2>2, BetterOrders
<1>7. \E o \in H : \A p \in H : p = o \/ Better(p, o)
  BY <1>6
<1> DEFINE W == CHOOSE o \in H : \A p \in H : p = o \/ Better(p, o)
<1>8. W \in H /\ \A p \in H : p = W \/ Better(p, W)
  BY <1>7, Zenon
<1>9. Worst(H) = W
  BY DEF Worst
<1> HIDE DEF W
<1> QED
  BY <1>8, <1>9


-----------------------------------------------------------------------------
(* The page of a heap that covers what it leaves out.                      *)

Shown(H) == {p.slot : p \in H}

LEMMA ShownFinite ==
  ASSUME NEW H, IsFiniteSet(H)
  PROVE  IsFiniteSet(Shown(H)) /\ Cardinality(Shown(H)) \in Nat
<1> DEFINE f == [h \in H |-> h.slot]
<1>1. f \in Surjection(H, Shown(H))
  BY DEF Surjection, Shown
<1> HIDE DEF f
<1> QED
  BY <1>1, FS_Surjection, FS_CardinalityType

\* A full heap is of as many slots as the page has rows, for a slot is there once
\* for every pass that may offer it.
LEMMA FullHeapIsWide ==
  ASSUME Asked, NEW H, HeapGood(H), Cardinality(H) >= Cap
  PROVE  search.k <= Cardinality(Shown(H))
<1> DEFINE G == IF Short THEN {1, 2, 3} ELSE {1, 3}
           m == IF Short THEN 3 ELSE 2
           P == Shown(H) \X G
           f == [h \in H |-> <<h.slot, Group(h.tier)>>]
<1>1. IsFiniteSet(H) /\ IsFiniteSet(Shown(H)) /\ Cardinality(Shown(H)) \in Nat
  BY ShownFinite DEF HeapGood
<1>2. IsFiniteSet(G) /\ Cardinality(G) = m
  <2>1. /\ {1, 3} = ({} \cup {1}) \cup {3} /\ 3 \notin {} \cup {1} /\ 1 \notin {}
        /\ {1, 2, 3} = {1, 3} \cup {2} /\ 2 \notin {1, 3}
    OBVIOUS
  <2>2. IsFiniteSet({}) /\ Cardinality({}) = 0
    BY FS_EmptySet
  <2>3. IsFiniteSet({} \cup {1}) /\ Cardinality({} \cup {1}) = 1
    BY <2>1, <2>2, FS_AddElement
  <2>4. IsFiniteSet({1, 3}) /\ Cardinality({1, 3}) = 2
    BY <2>1, <2>3, FS_AddElement
  <2>5. IsFiniteSet({1, 2, 3}) /\ Cardinality({1, 2, 3}) = 3
    BY <2>1, <2>4, FS_AddElement
  <2> QED
    BY <2>4, <2>5
<1>3. IsFiniteSet(P) /\ Cardinality(P) = Cardinality(Shown(H)) * m
  <2> HIDE DEF G, m
  <2> QED
    BY <1>1, <1>2, FS_Product
<1>4. f \in Injection(H, P)
  <2>1. \A h \in H : h.slot \in Shown(H) /\ Group(h.tier) \in G
    BY DEF Shown, Group
  <2>2. f \in [H -> P]
    BY <2>1
  <2>3. \A h, g \in H : f[h] = f[g] => h = g
    <3>1. \A h, g \in H : h.slot = g.slot /\ Group(h.tier) = Group(g.tier) => h = g
      BY DEF HeapGood
    <3>2. \A h \in H : f[h] = <<h.slot, Group(h.tier)>>
      OBVIOUS
    <3> HIDE DEF f
    <3>3. \A a, b, c, d : <<a, b>> = <<c, d>> => a = c /\ b = d
      OBVIOUS
    <3> QED
      BY <3>1, <3>2, <3>3
  <2> HIDE DEF f, P
  <2> QED
    BY <2>2, <2>3 DEF Injection, IsInjective
<1>5. Cardinality(H) <= Cardinality(P)
  <2> HIDE DEF f, P
  <2> QED
    BY <1>3, <1>4, FS_Injection
<1>6. search.k \in Nat /\ Cardinality(H) \in Nat
  BY <1>1, FS_CardinalityType DEF Asked
<1>7. Cap = search.k * m
  BY DEF Cap
<1>8. search.k * m <= Cardinality(Shown(H)) * m
  <2> HIDE DEF P, m
  <2>1. m \in Nat
    BY DEF m
  <2> QED
    BY <1>1, <1>3, <1>5, <1>6, <1>7, <2>1
<1> DEFINE n == Cardinality(Shown(H))
           k == search.k
<1>9. n \in Nat /\ k \in Nat /\ k * m <= n * m
  BY <1>1, <1>6, <1>8
<1> HIDE DEF n, k
<1>10. CASE Short
  <2>1. k * 3 <= n * 3
    BY <1>9, <1>10
  <2>2. k <= n
    BY <1>9, <2>1
  <2> QED
    BY <2>2 DEF n, k
<1>11. CASE ~Short
  <2>1. k * 2 <= n * 2
    BY <1>9, <1>11
  <2>2. k <= n
    BY <1>9, <2>1
  <2> QED
    BY <2>2 DEF n, k
<1> QED
  BY <1>10, <1>11

\* Every slot of a heap has a best offer, and keeps it.
LEMMA DedupedIsAsWide ==
  ASSUME Asked, NEW H, HeapGood(H)
  PROVE  Cardinality(Shown(H)) <= Cardinality(Deduped(H)) /\ IsFiniteSet(Deduped(H))
<1> DEFINE R == Deduped(H)
           f == [r \in R |-> r.slot]
<1>1. \A h \in H : Genuine(h) /\ h.score \in Nat /\ h.score <= 10000
  BY HeapIsGenuine, OfferFacts
<1>2. IsFiniteSet(R)
  <2>1. R \in SUBSET H
    BY DEF Deduped
  <2> HIDE DEF R
  <2> QED
    BY <2>1, FS_Subset DEF HeapGood
<1>3. ASSUME NEW s \in Shown(H) PROVE \E r \in R : r.slot = s
  <2> DEFINE L == {h \in H : h.slot = s}
             S == {10000 - h.score : h \in L}
  <2>1. L # {}
    BY DEF Shown
  <2>2. S \in SUBSET Nat /\ S # {}
    BY <1>1, <2>1
  <2>3. \A h \in L : 10000 - h.score \in S
    OBVIOUS
  <2>4. \A n \in S : \E h \in L : n = 10000 - h.score
    OBVIOUS
  <2>5. \E n \in S : \A m \in S : n <= m
    <3> HIDE DEF S
    <3> QED
      BY <2>2, LeastElement
  <2>6. PICK n \in S : \A m \in S : n <= m
    BY <2>5
  <2>7. PICK w \in L : n = 10000 - w.score
    BY <2>4, <2>6
  <2>8. ASSUME NEW h \in H, h.slot = w.slot PROVE h = w \/ Better(w, h)
    <3>1. h \in L
      BY <2>8
    <3>2. 10000 - w.score <= 10000 - h.score
      BY <2>3, <2>6, <2>7, <3>1
    <3>3. h.score <= w.score
      BY <1>1, <3>1, <3>2
    <3>4. ~(h.score > w.score) /\ ~(h.slot < w.slot)
      <4>1. h.slot \in Nat /\ w.slot \in Nat
        BY <1>1, OfferFacts
      <4> QED
        BY <1>1, <2>8, <3>3, <4>1
    <3>5. ~Better(h, w)
      BY <3>4 DEF Better
    <3> QED
      BY <1>1, <3>5, BetterOrders
  <2>9. w \in R /\ w.slot = s
    BY <2>8 DEF Deduped
  <2> QED
    BY <2>9
<1>4. f \in Surjection(R, Shown(H))
  <2>1. \A r \in R : r.slot \in Shown(H)
    BY DEF Shown, Deduped
  <2>2. f \in [R -> Shown(H)]
    BY <2>1
  <2>3. \A s \in Shown(H) : \E r \in R : f[r] = s
    BY <1>3
  <2> HIDE DEF f, R
  <2> QED
    BY <2>2, <2>3 DEF Surjection
<1> HIDE DEF f, R
<1>5. Cardinality(Shown(H)) <= Cardinality(R)
  BY <1>2, <1>4, FS_Surjection
<1> QED
  BY <1>2, <1>5 DEF R

\* The page of a heap that covers every offer but those given up is the page of all
\* of them, but for rows given up.
LEMMA PageOfHeap ==
  ASSUME Asked, NEW H, HeapGood(H), NEW D,
         \A h \in H : h.slot \notin D,
         \A o \in Offers : (o.tier = "fuzzy" /\ o.slot \in D) \/ Covers(H, o)
  PROVE  /\ \A o \in Exhaustive : (o.tier = "fuzzy" /\ o.slot \in D) \/ o \in Truncated(Deduped(H))
         /\ D = {} => Truncated(Deduped(H)) \subseteq Exhaustive
<1> DEFINE R == Deduped(H)
           A == Deduped(Offers)
           Before(S, x) == {p \in S : Better(p, x)}
<1>1. H \subseteq Offers
  BY HeapIsGenuine, OffersFacts
<1>2. \A o \in Offers : Genuine(o)
  BY OffersFacts
<1>3. R \subseteq H /\ A \subseteq Offers
  BY DEF Deduped
<1>4. \A x, y \in Offers : (x = y \/ Better(x, y) \/ Better(y, x)) /\ ~(Better(x, y) /\ Better(y, x)) /\ ~Better(x, x)
  BY <1>2, BetterOrders
<1>5. \A x, y, z \in Offers : Better(x, y) /\ Better(y, z) => Better(x, z)
  BY <1>2, BetterOrders
\* What is best of its slot in the heap is best of its slot.
<1>6. ASSUME NEW x \in R PROVE x \in A
  <2>1. x \in H /\ x \in Offers /\ x.slot \notin D
    BY <1>1, <1>3
  <2>2. \A p \in H : p.slot = x.slot => p = x \/ Better(x, p)
    BY DEF Deduped
  <2>3. ASSUME NEW p \in Offers, p.slot = x.slot PROVE p = x \/ Better(x, p)
    <3>1. Covers(H, p)
      BY <2>1, <2>3
    <3>2. CASE Above(H, p)
      BY <2>1, <3>2 DEF Above
    <3>3. CASE \E h \in H : AsGood(h, p)
      <4>1. PICK h \in H : h.slot = p.slot /\ (h = p \/ Better(h, p))
        BY <3>3 DEF AsGood
      <4>2. h = x \/ Better(x, h)
        BY <2>2, <2>3, <4>1
      <4> QED
        BY <1>1, <1>5, <2>1, <4>1, <4>2
    <3> QED
      BY <3>1, <3>2, <3>3 DEF Covers
  <2> QED
    BY <2>1, <2>3 DEF Deduped
\* And the other way round, for what the heap holds.
<1>7. \A x \in A : x \in H => x \in R
  BY <1>1 DEF Deduped
<1>8. IsFiniteSet(A) /\ IsFiniteSet(R)
  <2>1. A \in SUBSET Offers /\ R \in SUBSET H
    BY <1>3
  <2> HIDE DEF A, R
  <2> QED
    BY <2>1, OffersFinite, FS_Subset DEF HeapGood
<1>9. \A x : /\ Cardinality(Before(R, x)) \in Nat /\ Cardinality(Before(A, x)) \in Nat
             /\ Cardinality(Before(R, x)) <= Cardinality(Before(A, x))
  <2> TAKE x
  <2>1. Before(R, x) \in SUBSET Before(A, x) /\ Before(A, x) \in SUBSET A
    BY <1>6
  <2> HIDE DEF Before, A, R
  <2>2. IsFiniteSet(Before(A, x))
    BY <1>8, <2>1, FS_Subset
  <2>3. IsFiniteSet(Before(R, x)) /\ Cardinality(Before(R, x)) <= Cardinality(Before(A, x))
    BY <2>1, <2>2, FS_Subset
  <2> QED
    BY <2>2, <2>3, FS_CardinalityType
<1>10. Exhaustive = {o \in A : Cardinality(Before(A, o)) < search.k}
  BY DEF Exhaustive, Truncated
<1>11. Truncated(R) = {o \in R : Cardinality(Before(R, o)) < search.k}
  BY DEF Truncated
<1>12. search.k \in Nat
  BY DEF Asked
<1>13. ASSUME NEW o \in Exhaustive, ~(o.tier = "fuzzy" /\ o.slot \in D) PROVE o \in Truncated(R)
  <2>1. o \in A /\ Cardinality(Before(A, o)) < search.k /\ o \in Offers
    BY <1>3, <1>10
  <2>2. Cardinality(Before(R, o)) < search.k
    <3> HIDE DEF Before, A, R
    <3> QED
      BY <1>9, <1>12, <2>1
  <2>3. Covers(H, o)
    BY <1>13, <2>1
  <2>4. ~(Cardinality(H) >= Cap /\ Above(H, o))
    <3>1. SUFFICES ASSUME Cardinality(H) >= Cap, Above(H, o) PROVE FALSE
      OBVIOUS
    <3>2. search.k <= Cardinality(Shown(H)) /\ Cardinality(Shown(H)) <= Cardinality(R)
      BY <3>1, FullHeapIsWide, DedupedIsAsWide
    <3>3. Before(R, o) = R
      BY <1>3, <3>1 DEF Above
    <3>4. Cardinality(R) \in Nat /\ Cardinality(Shown(H)) \in Nat
      BY <1>8, ShownFinite, FS_CardinalityType DEF HeapGood
    <3> HIDE DEF Before, R
    <3> QED
      BY <1>12, <2>2, <3>2, <3>3, <3>4
  <2>5. PICK h \in H : h.slot = o.slot /\ (h = o \/ Better(h, o))
    BY <2>3, <2>4 DEF Covers, AsGood
  <2>6. h \in Offers /\ (h = o \/ Better(o, h))
    BY <1>1, <2>1, <2>5 DEF Deduped
  <2>7. h = o
    BY <1>4, <2>1, <2>5, <2>6
  <2>8. o \in R
    BY <1>7, <2>1, <2>7
  <2> HIDE DEF Before, A, R
  <2> QED
    BY <1>11, <2>2, <2>8
<1>14. ASSUME D = {}, NEW x \in Truncated(R) PROVE x \in Exhaustive
  <2>1. x \in R /\ Cardinality(Before(R, x)) < search.k /\ x \in A /\ x \in H /\ x \in Offers
    BY <1>1, <1>3, <1>6, <1>11
  <2>2. Before(A, x) \subseteq Before(R, x)
    <3> SUFFICES ASSUME NEW p \in A, Better(p, x) PROVE p \in R
      OBVIOUS
    <3>1. p \in Offers /\ Covers(H, p)
      BY <1>3, <1>14
    <3>2. ~Above(H, p)
      BY <1>4, <2>1, <3>1 DEF Above
    <3>3. PICK h \in H : h.slot = p.slot /\ (h = p \/ Better(h, p))
      BY <3>1, <3>2 DEF Covers, AsGood
    <3>4. h \in Offers /\ (h = p \/ Better(p, h))
      BY <1>1, <3>3 DEF Deduped
    <3>5. h = p
      BY <1>4, <3>1, <3>3, <3>4
    <3> QED
      BY <1>7, <3>5
  <2>3. Before(R, x) \subseteq Before(A, x)
    BY <1>6
  <2>4. Before(A, x) = Before(R, x)
    BY <2>2, <2>3
  <2> HIDE DEF Before, A, R
  <2> QED
    BY <1>10, <2>1, <2>4
<1> QED
  BY <1>13, <1>14


-----------------------------------------------------------------------------
(* What an offer does to the heap.                                         *)

LEMMA CapFacts ==
  ASSUME Asked
  PROVE  Cap \in Nat /\ Cap > 0
<1>1. search.k \in Nat /\ search.k > 0
  BY DEF Asked
<1> QED
  BY <1>1 DEF Cap

\* A full heap holds something, and its floor is below all of it.
LEMMA FloorFacts ==
  ASSUME Asked, HeapGood(heap), Full
  PROVE  /\ Worst(heap) \in heap /\ Floor \in Nat /\ Floor = Worst(heap).score
         /\ \A h \in heap : /\ h = Worst(heap) \/ Better(h, Worst(heap))
                            /\ h.score \in Nat /\ Floor <= h.score
<1>1. heap # {}
  <2>1. SUFFICES ASSUME heap = {} PROVE FALSE
    OBVIOUS
  <2>2. Cardinality(heap) = 0
    BY <2>1, FS_EmptySet
  <2> QED
    BY <2>2, CapFacts DEF Full
<1>2. \A h \in heap : Genuine(h) /\ h.score \in Nat
  BY HeapIsGenuine, OfferFacts
<1>3. Worst(heap) \in heap /\ \A h \in heap : h = Worst(heap) \/ Better(h, Worst(heap))
  BY <1>1, <1>2, WorstFacts
<1>4. \A h \in heap : Worst(heap).score <= h.score
  BY <1>2, <1>3 DEF Better
<1> QED
  BY <1>2, <1>3, <1>4 DEF Floor

\* What lies below the floor is covered.
LEMMA BelowFloor ==
  ASSUME Asked, HeapGood(heap), Full, NEW o, o.score \in Nat, o.score < Floor
  PROVE  Covers(heap, o)
<1>1. \A h \in heap : h.score \in Nat /\ Floor <= h.score /\ Floor \in Nat
  BY FloorFacts
<1>2. \A h \in heap : Better(h, o)
  BY <1>1 DEF Better
<1> QED
  BY <1>2 DEF Covers, Above, Full

\* A tier that is rejected is covered, wherever it is met.
LEMMA RejectedIsCovered ==
  ASSUME Asked, HeapGood(heap), NEW ub \in Nat, Rejects(ub), NEW s \in Slots, NEW t \in Tier,
         IF t = "fuzzy" THEN FuzzyTop <= ub ELSE TierBase[t] <= ub
  PROVE  Covers(heap, Scored(s, t))
<1>1. Full /\ ub * 100 < Floor /\ Floor \in Nat
  BY FloorFacts DEF Rejects
<1>2. Scored(s, t).score \in Nat
  BY ScoreRange
<1>3. Scored(s, t).score <= ub * 100
  <2>1. CASE t = "fuzzy"
    <3>1. Scored(s, t).score <= FuzzyTop * Pen[corpus[s].depth][FALSE]
      BY <2>1, FuzzyBounds
    <3>2. Pen[corpus[s].depth][FALSE] \in 1..100
      BY SlotFacts
    <3>3. 50 <= ub
      BY <2>1 DEF FuzzyTop
    <3> DEFINE q == Pen[corpus[s].depth][FALSE]
               v == Scored(s, t).score
    <3>4. v <= 50 * q /\ q \in 1..100 /\ v \in Nat
      BY <1>2, <3>1, <3>2 DEF FuzzyTop
    <3> HIDE DEF q, v
    <3>5. v <= ub * 100
      BY <3>3, <3>4
    <3> QED
      BY <3>5 DEF v
  <2>2. CASE t # "fuzzy"
    <3>1. Scored(s, t).score <= TierBase[t] * 100
      BY <2>2, TierBounds
    <3>2. TierBase[t] \in Nat /\ TierBase[t] <= ub
      BY <2>2 DEF TierBase, Tier
    <3> DEFINE b == TierBase[t]
               v == Scored(s, t).score
    <3>4. v <= b * 100 /\ b \in Nat /\ b <= ub /\ v \in Nat
      BY <1>2, <3>1, <3>2
    <3> HIDE DEF b, v
    <3>5. v <= ub * 100
      BY <3>4
    <3> QED
      BY <3>5 DEF v
  <2> QED
    BY <2>1, <2>2
<1> DEFINE v == Scored(s, t).score
<1>4. v < Floor
  <2>1. v \in Nat /\ v <= ub * 100
    BY <1>2, <1>3
  <2> HIDE DEF v
  <2> QED
    BY <1>1, <2>1
<1> QED
  BY <1>1, <1>2, <1>4, BelowFloor

\* What covers an offer covers every lesser one of its slot.
LEMMA CoversLess ==
  ASSUME Asked, NEW H, HeapGood(H), NEW s \in Slots, NEW t \in Tier, NEW u \in Tier,
         Base(s, u) > Base(s, t), Covers(H, Scored(s, u))
  PROVE  Covers(H, Scored(s, t))
<1> DEFINE x == Scored(s, u)
           y == Scored(s, t)
<1>1. Genuine(x) /\ Genuine(y) /\ x.slot = s /\ y.slot = s
  BY ScoredParts DEF Genuine
<1>2. Better(x, y)
  BY ScoreRises DEF Better
<1>3. \A h \in H : Genuine(h)
  BY HeapIsGenuine
<1> HIDE DEF x, y
<1>4. \A h \in H : Better(h, x) => Better(h, y)
  BY <1>1, <1>2, <1>3, BetterOrders
<1>5. \A h \in H : AsGood(h, x) => AsGood(h, y)
  BY <1>1, <1>2, <1>4 DEF AsGood
<1>6. Covers(H, x)
  BY DEF x
<1>7. Covers(H, y)
  BY <1>4, <1>5, <1>6 DEF Covers, Above
<1> QED
  BY <1>7 DEF y

LEMMA OfferStep ==
  ASSUME Asked, HeapGood(heap), NEW s \in Slots, NEW t \in Tiers(s), New(heap, s, t), Offer(s, t)
  PROVE  /\ HeapGood(heap')
         /\ \A o : Genuine(o) /\ Covers(heap, o) => Covers(heap', o)
         /\ corpus[s].accepted => Covers(heap', Scored(s, t))
         /\ \A h \in heap' : h \in heap \/ h = Scored(s, t)
         /\ Full => Cardinality(heap') >= Cap
<1> DEFINE x == Scored(s, t)
           W == Worst(heap)
<1>1. t \in Tier
  BY TiersFacts
<1>2. Genuine(x) /\ x.slot = s /\ x.tier = t /\ x = Scored(x.slot, x.tier)
  BY <1>1, ScoredParts DEF Genuine
<1>3. \A h \in heap : Genuine(h)
  BY HeapIsGenuine
<1>4. x \notin heap
  BY <1>2 DEF New
<1>5. IsFiniteSet(heap) /\ Cardinality(heap) \in Nat /\ Cap \in Nat
  BY CapFacts, FS_CardinalityType DEF HeapGood
<1>6. CASE heap' = heap /\ ~corpus[s].accepted
  BY <1>6 DEF Full
<1>7. CASE heap' = heap \cup {x} /\ ~Full /\ corpus[s].accepted
  <2>1. IsFiniteSet(heap') /\ Cardinality(heap') = Cardinality(heap) + 1
    BY <1>4, <1>5, <1>7, FS_AddElement
  <2>2. HeapGood(heap')
    <3>1. \A h \in heap' : /\ h.slot \in Slots /\ corpus[h.slot].accepted /\ h.tier \in Tiers(h.slot)
                           /\ h = Scored(h.slot, h.tier)
      BY <1>2, <1>7 DEF HeapGood
    <3>2. \A h, g \in heap' : h.slot = g.slot /\ Group(h.tier) = Group(g.tier) => h = g
      BY <1>2, <1>7 DEF HeapGood, New
    <3> HIDE DEF x
    <3> QED
      BY <2>1, <3>1, <3>2 DEF HeapGood
  <2>3. \A o : Covers(heap, o) => Covers(heap', o)
    BY <1>7 DEF Covers, Full
  <2>4. Covers(heap', x)
    BY <1>7 DEF Covers, AsGood
  <2> QED
    BY <1>7, <2>2, <2>3, <2>4
<1>8. CASE heap' = (heap \ {W}) \cup {x} /\ Full /\ Better(x, W) /\ corpus[s].accepted
  <2>1. W \in heap /\ \A h \in heap : h = W \/ Better(h, W)
    BY <1>8, FloorFacts
  <2>2. IsFiniteSet(heap') /\ Cardinality(heap') = Cardinality(heap)
    <3> HIDE DEF W, x
    <3>1. IsFiniteSet(heap \ {W}) /\ Cardinality(heap \ {W}) = Cardinality(heap) - 1
      BY <1>5, <2>1, FS_RemoveElement
    <3>2. IsFiniteSet(heap') /\ Cardinality(heap') = Cardinality(heap \ {W}) + 1
      BY <1>4, <1>8, <3>1, FS_AddElement
    <3> QED
      BY <1>5, <3>1, <3>2
  <2>3. HeapGood(heap')
    <3>1. \A h \in heap' : /\ h.slot \in Slots /\ corpus[h.slot].accepted /\ h.tier \in Tiers(h.slot)
                           /\ h = Scored(h.slot, h.tier)
      BY <1>2, <1>8 DEF HeapGood
    <3>2. \A h, g \in heap' : h.slot = g.slot /\ Group(h.tier) = Group(g.tier) => h = g
      BY <1>2, <1>8 DEF HeapGood, New
    <3> HIDE DEF x, W
    <3> QED
      BY <2>2, <3>1, <3>2 DEF HeapGood
  <2>4. Genuine(W)
    BY <1>3, <2>1
  <2> HIDE DEF x, W
  <2>5. ASSUME NEW o, Genuine(o), Covers(heap, o) PROVE Covers(heap', o)
    <3>1. CASE Above(heap, o)
      <4>1. Better(W, o)
        BY <2>1, <3>1 DEF Above
      <4>2. Better(x, o)
        BY <1>2, <1>8, <2>4, <2>5, <4>1, BetterOrders
      <4>3. Above(heap', o)
        BY <1>8, <3>1, <4>2 DEF Above
      <4> QED
        BY <1>8, <2>2, <4>3 DEF Covers, Full
    <3>2. CASE \E h \in heap : AsGood(h, o)
      <4>1. PICK h \in heap : AsGood(h, o)
        BY <3>2
      <4>2. CASE h # W
        BY <1>8, <4>1, <4>2 DEF Covers
      <4>3. CASE h = W
        <5>1. W = o \/ Better(W, o)
          BY <4>1, <4>3 DEF AsGood
        <5>2. ASSUME NEW g \in heap' PROVE Better(g, o)
          <6>1. Genuine(g) /\ Better(g, W)
            BY <1>2, <1>3, <1>8, <2>1, <5>2
          <6> QED
            BY <2>4, <2>5, <5>1, <6>1, BetterOrders
        <5> QED
          BY <1>8, <2>2, <5>2 DEF Covers, Above, Full
      <4> QED
        BY <4>2, <4>3
    <3> QED
      BY <2>5, <3>1, <3>2 DEF Covers
  <2>6. Covers(heap', x)
    BY <1>8 DEF Covers, AsGood
  <2> QED
    BY <1>8, <2>2, <2>3, <2>5, <2>6 DEF Full, x
<1>9. CASE heap' = heap /\ Full /\ ~Better(x, W) /\ corpus[s].accepted
  <2>1. W \in heap /\ \A h \in heap : h = W \/ Better(h, W)
    BY <1>9, FloorFacts
  <2>2. Genuine(W)
    BY <1>3, <2>1
  <2> HIDE DEF x, W
  <2>3. Better(W, x)
    BY <1>2, <1>4, <1>9, <2>1, <2>2, BetterOrders
  <2>4. \A h \in heap : Better(h, x)
    BY <1>2, <1>3, <2>1, <2>2, <2>3, BetterOrders
  <2>5. Covers(heap', x)
    BY <1>9, <2>4 DEF Covers, Above, Full
  <2> QED
    BY <1>9, <2>5 DEF Full, x
<1> QED
  BY <1>6, <1>7, <1>8, <1>9 DEF Offer

\* What waits may be offered.
LEMMA FlushStep ==
  ASSUME Asked, PendInv, HeapInv, Flush
  PROVE  /\ HeapGood(heap')
         /\ \A s \in Slots, t \in Tier :
              corpus[s].accepted /\ Covered(Scored(s, t)) => Covers(heap', Scored(s, t))
         /\ \A h \in heap' : h \in heap \/ \E p \in pend : h = Scored(p.slot, p.tier)
         /\ \A h \in heap' : h.slot \in seen'
         /\ seen' = seen \cup {p.slot : p \in pend}
         /\ Full => Cardinality(heap') >= Cap
<1>1. HeapGood(heap) /\ \A h \in heap : h.slot \in seen
  BY DEF HeapInv
<1>2. \A s \in Slots, t \in Tier : Genuine(Scored(s, t))
  BY DEF Genuine
<1>3. CASE pend = {} /\ UNCHANGED selector
  <2>1. heap' = heap /\ seen' = seen
    BY <1>3 DEF selector
  <2> QED
    BY <1>1, <1>3, <2>1 DEF Covered, Full
<1>4. CASE \E p \in pend : Offer(p.slot, p.tier)
  <2>1. PICK p \in pend : Offer(p.slot, p.tier)
    BY <1>4
  <2>2. p.slot \in Slots /\ p.tier \in Tiers(p.slot) /\ pend = {p}
    BY DEF PendInv
  <2>3. New(heap, p.slot, p.tier)
    BY DEF HeapInv
  <2> DEFINE x == Scored(p.slot, p.tier)
  <2>4. /\ HeapGood(heap')
        /\ \A o : Genuine(o) /\ Covers(heap, o) => Covers(heap', o)
        /\ corpus[p.slot].accepted => Covers(heap', x)
        /\ \A h \in heap' : h \in heap \/ h = x
        /\ Full => Cardinality(heap') >= Cap
    BY <1>1, <2>1, <2>2, <2>3, OfferStep
  <2>5. seen' = seen \cup {p.slot}
    BY <2>1 DEF Offer
  <2>6. x.slot = p.slot /\ p.tier \in Tier
    BY <2>2, ScoredParts, TiersFacts
  <2>7. ASSUME NEW s \in Slots, NEW t \in Tier, corpus[s].accepted, Covered(Scored(s, t))
        PROVE  Covers(heap', Scored(s, t))
    <3>1. CASE Covers(heap, Scored(s, t))
      BY <1>2, <2>4, <3>1
    <3>2. CASE AsGood(x, Scored(s, t))
      <4> DEFINE o == Scored(s, t)
      <4>1. o.slot = s /\ Genuine(o) /\ Genuine(x)
        BY <1>2, <2>2, <2>6, ScoredParts
      <4>2. Covers(heap', x) /\ (x = o \/ Better(x, o)) /\ x.slot = o.slot
        BY <2>4, <2>6, <2>7, <3>2, <4>1 DEF AsGood
      <4>3. \A h \in heap' : Genuine(h)
        BY <2>4, HeapIsGenuine
      <4> HIDE DEF x, o
      <4>4. \A h \in heap' : Better(h, x) => Better(h, o)
        BY <4>1, <4>2, <4>3, BetterOrders
      <4>5. \A h \in heap' : AsGood(h, x) => AsGood(h, o)
        BY <4>1, <4>2, <4>4 DEF AsGood
      <4>6. Covers(heap', o)
        BY <4>2, <4>4, <4>5 DEF Covers, Above
      <4> QED
        BY <4>6 DEF o
    <3> QED
      BY <2>2, <2>7, <3>1, <3>2 DEF Covered
  <2>8. \A h \in heap' : h.slot \in seen'
    BY <1>1, <2>4, <2>5, <2>6
  <2> QED
    BY <2>2, <2>4, <2>5, <2>7, <2>8
<1> QED
  BY <1>3, <1>4 DEF Flush


-----------------------------------------------------------------------------
(* A search does not change what it was asked.                             *)

LEMMA AskedFrame ==
  ASSUME Asked, UNCHANGED asked
  PROVE  /\ Asked' /\ search' = search /\ corpus' = corpus
         /\ \A s, t : Scored(s, t)' = Scored(s, t)
         /\ \A s : Tiers(s)' = Tiers(s)
         /\ \A t : Group(t)' = Group(t)
         /\ Cap' = Cap /\ Short' = Short
<1>1. search' = search /\ corpus' = corpus
  BY DEF asked
<1>2. Short' = Short
  BY <1>1 DEF Short
<1>3. Cap' = Cap
  BY <1>1, <1>2 DEF Cap
<1>4. \A t : Group(t)' = Group(t)
  BY <1>2 DEF Group
<1>5. \A s, t : Base(s, t)' = Base(s, t)
  BY <1>1 DEF Base
<1>6. \A s, t : Scored(s, t)' = Scored(s, t)
  BY <1>1, <1>5 DEF Scored
<1>7. \A s : Tiers(s)' = Tiers(s)
  BY <1>1 DEF Tiers
<1>8. Asked'
  BY <1>1 DEF Asked
<1> QED
  BY <1>1, <1>2, <1>3, <1>4, <1>6, <1>7, <1>8

LEMMA HeapFrame ==
  ASSUME Asked, UNCHANGED asked
  PROVE  /\ HeapGood(heap') => HeapGood(heap)'
         /\ \A s, t : New(heap, s, t)' <=> New(heap', s, t)
         /\ \A o : Covers(heap, o)' <=> Covers(heap', o)
<1>1. /\ corpus' = corpus
      /\ \A s, t : Scored(s, t)' = Scored(s, t)
      /\ \A s : Tiers(s)' = Tiers(s)
      /\ \A t : Group(t)' = Group(t)
      /\ Cap' = Cap
  BY AskedFrame
<1>2. HeapGood(heap') => HeapGood(heap)'
  BY <1>1 DEF HeapGood
<1>3. \A s, t : New(heap, s, t)' <=> New(heap', s, t)
  BY <1>1 DEF New
<1>4. \A o : Covers(heap, o)' <=> Covers(heap', o)
  BY <1>1 DEF Covers, Above, AsGood
<1> QED
  BY <1>2, <1>3, <1>4

LEMMA CutFrame ==
  ASSUME UNCHANGED asked, UNCHANGED survivors
  PROVE  Cut(survivors)' = Cut(survivors)
<1>1. corpus' = corpus /\ survivors' = survivors
  BY DEF asked
<1> QED
  BY <1>1 DEF Cut, Within


\* No step uncovers an offer.
OffersStay == \A s \in Slots, t \in Tier :
                corpus[s].accepted /\ Covered(Scored(s, t)) => Covered(Scored(s, t))'

LEMMA CoveredFrame ==
  ASSUME Asked, UNCHANGED asked
  PROVE  \A s, t : Covered(Scored(s, t))' <=>
           \/ Covers(heap', Scored(s, t))
           \/ \E p \in pend' : AsGood(Scored(p.slot, p.tier), Scored(s, t))
<1>1. /\ \A s, t : Scored(s, t)' = Scored(s, t)
      /\ \A o : Covers(heap, o)' <=> Covers(heap', o)
  BY AskedFrame, HeapFrame
<1> QED
  BY <1>1 DEF Covered, AsGood

LEMMA SameStep ==
  ASSUME PageInv, UNCHANGED asked, UNCHANGED <<pend, selector>>
  PROVE  HeapInv' /\ OffersStay /\ Full' = Full
<1>1. Asked /\ HeapInv
  BY DEF PageInv, PageTypes
<1>2. heap' = heap /\ seen' = seen /\ pend' = pend
  BY DEF selector
<1>3. HeapGood(heap)'
  BY <1>1, <1>2, HeapFrame DEF HeapInv
<1>4. \A p \in pend' : New(heap, p.slot, p.tier)'
  BY <1>1, <1>2, HeapFrame DEF HeapInv
<1>5. HeapInv'
  BY <1>1, <1>2, <1>3, <1>4 DEF HeapInv
<1>6. OffersStay
  BY <1>1, <1>2, CoveredFrame DEF OffersStay, Covered
<1>7. Full' = Full
  BY <1>1, <1>2, AskedFrame DEF Full
<1> QED
  BY <1>5, <1>6, <1>7

LEMMA OfferKeeps ==
  ASSUME PageInv, UNCHANGED asked, pend = {}, pend' = {},
         NEW s \in Slots, NEW t \in Tiers(s), New(heap, s, t), Offer(s, t)
  PROVE  /\ HeapInv' /\ OffersStay /\ (Full => Full')
         /\ corpus[s].accepted => Covered(Scored(s, t))'
         /\ \A h \in heap' : h \in heap \/ h = Scored(s, t)
         /\ seen' = seen \cup {s}
<1>1. Asked /\ HeapInv /\ HeapGood(heap)
  BY DEF PageInv, PageTypes, HeapInv
<1>2. /\ HeapGood(heap')
      /\ \A o : Genuine(o) /\ Covers(heap, o) => Covers(heap', o)
      /\ corpus[s].accepted => Covers(heap', Scored(s, t))
      /\ \A h \in heap' : h \in heap \/ h = Scored(s, t)
      /\ Full => Cardinality(heap') >= Cap
  BY <1>1, OfferStep
<1>3. seen' = seen \cup {s}
  BY DEF Offer
<1>4. HeapInv'
  <2>1. HeapGood(heap)'
    BY <1>1, <1>2, HeapFrame
  <2>2. \A h \in heap' : h.slot \in seen'
    BY <1>1, <1>2, <1>3, ScoredParts DEF HeapInv
  <2> QED
    BY <2>1, <2>2 DEF HeapInv
<1>5. \A o \in Slots, u \in Tier : Genuine(Scored(o, u))
  BY DEF Genuine
<1>6. OffersStay
  BY <1>1, <1>2, <1>5, CoveredFrame DEF OffersStay, Covered
<1>7. Full => Full'
  BY <1>1, <1>2, AskedFrame DEF Full
<1>8. corpus[s].accepted => Covered(Scored(s, t))'
  BY <1>1, <1>2, CoveredFrame
<1> QED
  BY <1>2, <1>3, <1>4, <1>6, <1>7, <1>8

\* After a flush the heap covers what was covered, whatever waits next.
LEMMA FlushKeeps ==
  ASSUME PageInv, UNCHANGED asked, Flush, \A p \in pend' : New(heap', p.slot, p.tier)
  PROVE  /\ HeapInv' /\ OffersStay /\ (Full => Full')
         /\ \A s \in Slots, t \in Tier :
              corpus[s].accepted /\ Covered(Scored(s, t)) => Covers(heap', Scored(s, t))
         /\ \A h \in heap' : h \in heap \/ \E p \in pend : h = Scored(p.slot, p.tier)
         /\ seen' = seen \cup {p.slot : p \in pend}
<1>1. Asked /\ HeapInv /\ PendInv
  BY DEF PageInv, PageTypes
<1>2. /\ HeapGood(heap')
      /\ \A s \in Slots, t \in Tier :
           corpus[s].accepted /\ Covered(Scored(s, t)) => Covers(heap', Scored(s, t))
      /\ \A h \in heap' : h \in heap \/ \E p \in pend : h = Scored(p.slot, p.tier)
      /\ \A h \in heap' : h.slot \in seen'
      /\ seen' = seen \cup {p.slot : p \in pend}
      /\ Full => Cardinality(heap') >= Cap
  BY <1>1, FlushStep
<1>3. HeapInv'
  <2>1. HeapGood(heap)'
    BY <1>1, <1>2, HeapFrame
  <2>2. \A p \in pend' : New(heap, p.slot, p.tier)'
    BY <1>1, HeapFrame
  <2> QED
    BY <1>2, <2>1, <2>2 DEF HeapInv
<1>4. OffersStay
  BY <1>1, <1>2, CoveredFrame DEF OffersStay
<1>5. Full => Full'
  BY <1>1, <1>2, AskedFrame DEF Full
<1> QED
  BY <1>2, <1>3, <1>4, <1>5

\* A step covers what it comes to, and uncovers nothing.
LEMMA CoverStep ==
  ASSUME PageInv, UNCHANGED asked, OffersStay, cancelled' = cancelled,
         \A s \in Slots : corpus[s].accepted /\ ~cancelled =>
           \A t \in Tiers(s) : Reached(s, t)' => Reached(s, t) \/ Covered(Scored(s, t))'
  PROVE  CoverInv'
<1>1. Asked /\ CoverInv
  BY DEF PageInv, PageTypes
<1>2. corpus' = corpus /\ (\A s : Tiers(s)' = Tiers(s)) /\ \A s, t : Scored(s, t)' = Scored(s, t)
  BY <1>1, AskedFrame
<1>3. ASSUME ~cancelled, NEW s \in Slots, corpus[s].accepted, NEW t \in Tiers(s), Reached(s, t)'
      PROVE  Covered(Scored(s, t))'
  <2>1. t \in Tier
    BY <1>1, TiersFacts
  <2>2. CASE Reached(s, t)
    BY <1>1, <1>3, <2>1, <2>2 DEF CoverInv, OffersStay
  <2> QED
    BY <1>3, <2>2
<1> QED
  BY <1>2, <1>3 DEF CoverInv

\* The cap has cost nothing new.
LEMMA DropStep ==
  ASSUME PageInv, UNCHANGED asked, UNCHANGED fuzzy, Full => Full', pass' # "fuzzy",
         dropped = {} \/ seen' = seen
  PROVE  DropInv'
<1>1. DropInv /\ survivors' = survivors /\ overtime' = overtime /\ dropped' = dropped /\ corpus' = corpus
  BY DEF PageInv, fuzzy, asked
<1>2. Cut(survivors)' = Cut(survivors)
  BY <1>1, CutFrame
<1> QED
  BY <1>1, <1>2 DEF DropInv


-----------------------------------------------------------------------------
(* The actions.                                                            *)

LEMMA InvParts ==
  ASSUME PageInv
  PROVE  /\ Asked /\ PageTypes /\ PendInv /\ HeapInv /\ FreshInv /\ DropInv /\ CoverInv
         /\ HeapGood(heap)
         /\ pass \notin {"arena", "initials"} => pend = {}
         /\ pass \notin {"fuzzy", "drain", "done"} =>
              survivors = {} /\ dropped = {} /\ \A s \in seen : \E t \in Tiers(s) : t # "fuzzy"
BY DEF PageInv, PageTypes, HeapInv, PendInv, FreshInv

LEMMA InitPage == PageInit => PageInv
<1> SUFFICES ASSUME PageInit PROVE PageInv
  OBVIOUS
<1>1. Asked
  <2>1. search \in [k : Nat \ {0}, qlen : Nat \ {0}]
    BY PageAssumption DEF PageInit
  <2>2. corpus \in [Slots -> Profiles]
    BY DEF PageInit
  <2>3. Profiles \subseteq Profile
    BY PageAssumption DEF Profile
  <2>4. corpus \in [Slots -> Profile]
    BY <2>2, <2>3
  <2>5. \A s \in Slots : corpus[s] \in Profiles
    BY <2>2
  <2>6. \A p \in Profiles : /\ \A i \in 2..Len(p.hits) : ~Start(p.hits[i])
                            /\ p.density > 0 => p.superset
    BY PageAssumption
  <2>7. \A s \in Slots : /\ \A i \in 2..Len(corpus[s].hits) : ~Start(corpus[s].hits[i])
                         /\ corpus[s].density > 0 => corpus[s].superset
    BY <2>5, <2>6
  <2> QED
    BY <2>1, <2>4, <2>7 DEF Asked
<1>2. pend = {} /\ heap = {} /\ seen = {} /\ survivors = {} /\ dropped = {}
  BY DEF PageInit
<1>3. PageTypes
  <2>0. pass \in {"head", "arena"} /\ spot = 1 /\ nth = 1
    BY DEF PageInit
  <2>1. spot \in Nat \ {0} /\ nth \in Nat \ {0}
    BY <2>0
  <2>2. overtime \in BOOLEAN /\ cancelled \in BOOLEAN
    BY DEF PageInit
  <2>3. survivors \subseteq Slots /\ dropped \subseteq Slots /\ seen \subseteq Slots
    BY <1>2
  <2> QED
    BY <1>1, <2>0, <2>1, <2>2, <2>3 DEF PageTypes
<1>4. PendInv
  BY <1>2 DEF PendInv
<1>5. HeapInv
  BY <1>2, FS_EmptySet DEF HeapInv, HeapGood
<1>6. FreshInv
  <2>1. (pass = "head" => Short) /\ nth = 1
    BY DEF PageInit
  <2>2. pass \in {"head", "arena"}
    BY DEF PageInit
  <2> QED
    BY <1>2, <2>1, <2>2 DEF FreshInv
<1>7. DropInv
  <2>1. pass # "fuzzy"
    BY DEF PageInit
  <2> QED
    BY <1>2, <2>1 DEF DropInv
<1>8. CoverInv
  <2>1. ASSUME NEW s \in Slots, NEW t \in Tiers(s) PROVE ~Reached(s, t)
    <3>1. spot = 1 /\ nth = 1 /\ pass = (IF Short THEN "head" ELSE "arena")
      BY DEF PageInit
    <3>2. s >= 1 /\ s \in Nat /\ \A i \in Slots : i >= 1 /\ i \in Nat
      BY PageAssumption DEF Slots
    <3>3. \A j \in DOMAIN corpus[s].hits : j >= 1 /\ j \in Nat
      <4>1. corpus[s].hits \in Seq(HitTiers)
        BY <1>1, SlotFacts DEF HitTiers
      <4> QED
        BY <4>1
    <3>4. CASE Short
      <4>1. pass = "head" /\ ~(s < spot)
        BY <3>1, <3>2, <3>4
      <4> QED
        BY <4>1 DEF Reached
    <3>5. CASE ~Short
      <4>1. pass = "arena" /\ \A i \in Slots : ~(i < spot)
        BY <3>1, <3>2, <3>5
      <4>2. \A j \in DOMAIN corpus[s].hits : ~(j < nth)
        BY <3>1, <3>3
      <4> QED
        BY <3>5, <4>1, <4>2 DEF Reached
    <3> QED
      BY <3>4, <3>5
  <2> QED
    BY <2>1 DEF CoverInv
<1>9. pass # "done"
  BY DEF PageInit
<1> QED
  BY <1>3, <1>4, <1>5, <1>6, <1>7, <1>8, <1>9 DEF PageInv

LEMMA HeadSlotKeeps == PageInv /\ HeadSlot => PageInv'
<1> SUFFICES ASSUME PageInv, HeadSlot PROVE PageInv'
  OBVIOUS
<1>1. /\ Asked /\ PageTypes /\ HeapGood(heap) /\ HeapInv /\ pend = {} /\ survivors = {} /\ dropped = {}
      /\ \A s \in seen : \E t \in Tiers(s) : t # "fuzzy"
      /\ Short /\ nth = 1 /\ \A h \in heap : Group(h.tier) = 2 /\ h.slot < spot
  BY InvParts DEF HeadSlot, FreshInv
<1>2. /\ UNCHANGED <<asked, pass, nth, pend, fuzzy, cancelled, top>> /\ pass = "head"
      /\ spot \in Slots /\ spot' = spot + 1 /\ spot \in Nat \ {0}
  BY <1>1, PageAssumption DEF HeadSlot, Slots, PageTypes
<1>3. /\ corpus' = corpus /\ Short' = Short
      /\ \A s : Tiers(s)' = Tiers(s)
      /\ \A t : Group(t)' = Group(t)
  BY <1>1, <1>2, AskedFrame
<1>4. survivors' = {} /\ dropped' = {} /\ overtime' = overtime /\ pass' = "head" /\ pend' = {}
  BY <1>1, <1>2 DEF fuzzy
<1>0. PICK r \in Slots : r = spot
  BY <1>2
<1> DEFINE hits == corpus[r].hits
           t1 == hits[1]
           skipped == hits = <<>> \/ ~Start(t1) \/ Rejects(TierBase[t1])
<1>5. hits \in Seq(HitTiers)
  BY <1>1, SlotFacts DEF HitTiers
\* What there is of the slot to offer, the slot is offered at.
<1>6. ASSUME NEW t \in Tiers(r), Start(t) PROVE t = t1 /\ hits # <<>>
  <2>1. t \notin {"initials", "fuzzy"}
    BY <1>6 DEF Start
  <2>2. PICK j \in DOMAIN hits : hits[j] = t
    BY <1>1, <2>1, TiersFacts
  <2>3. j \in 1..Len(hits)
    BY <1>5
  <2>4. \A i \in 2..Len(hits) : ~Start(hits[i])
    BY <1>1 DEF Asked
  <2>5. j = 1
    BY <1>6, <2>2, <2>3, <2>4
  <2> QED
    BY <1>5, <2>2, <2>3, <2>5
<1>7. CASE skipped
  <2>1. UNCHANGED <<pend, selector>>
    BY <1>0, <1>2, <1>7 DEF HeadSlot
  <2>2. HeapInv' /\ OffersStay /\ Full' = Full
    BY <1>2, <2>1, SameStep
  <2>3. seen' = seen /\ heap' = heap
    BY <2>1 DEF selector
  <2>4. ASSUME NEW t \in Tiers(r), Start(t), corpus[r].accepted PROVE Covered(Scored(r, t))'
    <3>1. t = t1 /\ Rejects(TierBase[t1])
      BY <1>6, <1>7, <2>4
    <3>2. t \in Tier /\ t # "fuzzy"
      BY <1>1, <1>2, <2>4, TiersFacts DEF Start
    <3>3. TierBase[t] \in Nat /\ TierBase[t] <= TierBase[t]
      BY <2>4 DEF TierBase, Start
    <3>4. Covers(heap, Scored(r, t))
      BY <1>1, <1>2, <3>1, <3>2, <3>3, RejectedIsCovered
    <3>5. Covered(Scored(r, t))
      BY <3>4 DEF Covered
    <3> QED
      BY <1>2, <2>2, <2>4, <3>2, <3>5 DEF OffersStay
  <2>5. PageTypes'
    BY <1>1, <1>2, <1>4, <2>3, AskedFrame DEF PageTypes
  <2>6. PendInv'
    BY <1>4 DEF PendInv
  <2>7. FreshInv'
    <3>1. \A h \in heap' : Group(h.tier)' = 2 /\ h.slot < spot'
      BY <1>1, <1>2, <1>3, <2>3, OfferFacts, HeapIsGenuine
    <3> QED
      BY <1>1, <1>2, <1>3, <1>4, <2>3, <3>1 DEF FreshInv
  <2>8. DropInv'
    BY <1>1, <1>2, <1>4, <2>2, DropStep
  <2>9. CoverInv'
    <3>1. ASSUME NEW s \in Slots, corpus[s].accepted, NEW t \in Tiers(s), Reached(s, t)'
          PROVE  Reached(s, t) \/ Covered(Scored(s, t))'
      <4>1. Start(t) /\ s < spot + 1
        BY <1>2, <1>4, <3>1 DEF Reached
      <4>2. s \in Nat
        BY PageAssumption DEF Slots
      <4>3. s < spot \/ s = r
        BY <1>0, <1>2, <4>1, <4>2
      <4> QED
        BY <1>2, <2>4, <3>1, <4>1, <4>3 DEF Reached
    <3> QED
      BY <1>2, <2>2, <3>1, CoverStep
  <2> QED
    BY <1>4, <2>2, <2>5, <2>6, <2>7, <2>8, <2>9 DEF PageInv
<1>8. CASE ~skipped
  <2>1. Offer(r, t1) /\ hits # <<>> /\ Start(t1)
    BY <1>0, <1>8 DEF HeadSlot
  <2>2. t1 \in Tiers(r) /\ t1 \in HitTiers
    <3>1. 1 \in DOMAIN hits
      BY <1>5, <2>1
    <3> QED
      BY <1>1, <3>1, TiersFacts
  <2>0. PICK u \in Tiers(r) : u = t1
    BY <2>2
  <2>3. Group(u) = 2 /\ u # "fuzzy"
    BY <1>1, <2>0, <2>1, <2>2 DEF Group, HitTiers
  <2>4. \A h \in heap : h.slot # r
    BY <1>0, <1>1, <1>2, OfferFacts, HeapIsGenuine
  <2>5. New(heap, r, u)
    BY <2>4 DEF New
  <2>6. /\ HeapInv' /\ OffersStay /\ (Full => Full')
        /\ corpus[r].accepted => Covered(Scored(r, u))'
        /\ \A h \in heap' : h \in heap \/ h = Scored(r, u)
        /\ seen' = seen \cup {r}
    <3>1. Offer(r, u)
      BY <2>0, <2>1
    <3> QED
      BY <1>1, <1>2, <1>4, <2>5, <3>1, OfferKeeps
  <2>7. PageTypes'
    BY <1>1, <1>2, <1>4, <2>6, AskedFrame DEF PageTypes
  <2>8. PendInv'
    BY <1>4 DEF PendInv
  <2>9. FreshInv'
    <3>1. \A h \in heap' : Group(h.tier)' = 2 /\ h.slot < spot'
      <4>1. \A h \in heap : h.slot \in Nat
        BY <1>1, OfferFacts, HeapIsGenuine
      <4>2. Scored(r, u).slot = r /\ Scored(r, u).tier = u
        BY ScoredParts
      <4> QED
        BY <1>0, <1>1, <1>2, <1>3, <2>3, <2>6, <4>1, <4>2
    <3>2. \A s \in seen' : \E t \in Tiers(s)' : t # "fuzzy"
      BY <1>1, <1>3, <2>2, <2>3, <2>6
    <3> QED
      BY <1>1, <1>2, <1>3, <1>4, <3>1, <3>2 DEF FreshInv
  <2>10. DropInv'
    BY <1>1, <1>2, <1>4, <2>6, DropStep
  <2>11. CoverInv'
    <3>1. ASSUME NEW s \in Slots, corpus[s].accepted, NEW t \in Tiers(s), Reached(s, t)'
          PROVE  Reached(s, t) \/ Covered(Scored(s, t))'
      <4>1. Start(t) /\ s < spot + 1
        BY <1>2, <1>4, <3>1 DEF Reached
      <4>2. s \in Nat
        BY PageAssumption DEF Slots
      <4>3. s < spot \/ s = r
        BY <1>0, <1>2, <4>1, <4>2
      <4>4. CASE s = r
        BY <1>6, <2>0, <2>6, <3>1, <4>1, <4>4
      <4> QED
        BY <1>2, <4>1, <4>3, <4>4 DEF Reached
    <3> QED
      BY <1>2, <2>6, <3>1, CoverStep
  <2> QED
    BY <1>4, <2>6, <2>7, <2>8, <2>9, <2>10, <2>11 DEF PageInv
<1> QED
  BY <1>7, <1>8


LEMMA HeadEndsKeeps == PageInv /\ HeadEnds => PageInv'
<1> SUFFICES ASSUME PageInv, HeadEnds PROVE PageInv'
  OBVIOUS
<1>1. /\ Asked /\ PageTypes /\ HeapGood(heap) /\ pend = {} /\ survivors = {} /\ dropped = {}
      /\ \A s \in seen : \E t \in Tiers(s) : t # "fuzzy"
      /\ nth = 1 /\ \A h \in heap : Group(h.tier) = 2
  BY InvParts DEF HeadEnds, FreshInv
<1>2. /\ UNCHANGED asked /\ UNCHANGED <<pend, selector>> /\ UNCHANGED fuzzy
      /\ nth' = nth /\ cancelled' = cancelled /\ spot' = 1
      /\ pass = "head" /\ spot > SlotCount
  BY DEF HeadEnds
<1>3. pass' = (IF Rejects(TierBase.boundary) THEN "to_initials" ELSE "arena")
  BY DEF HeadEnds
<1>4. heap' = heap /\ seen' = seen /\ pend' = {} /\ survivors' = {} /\ dropped' = {} /\ overtime' = overtime
  BY <1>1, <1>2 DEF selector, fuzzy
<1>5. HeapInv' /\ OffersStay /\ Full' = Full
  BY <1>2, SameStep
<1>6. /\ corpus' = corpus /\ (\A s : Tiers(s)' = Tiers(s)) /\ \A t : Group(t)' = Group(t)
  BY <1>1, <1>2, AskedFrame
<1>7. PageTypes'
  <2>1. Asked'
    BY <1>1, <1>2, AskedFrame
  <2>2. pass' \in {"arena", "to_initials"}
    BY <1>3
  <2> QED
    BY <1>1, <1>2, <1>4, <2>1, <2>2 DEF PageTypes
<1>8. PendInv'
  BY <1>4 DEF PendInv
<1>9. FreshInv'
  <2>1. \A h \in heap' : Group(h.tier)' = 2
    BY <1>1, <1>4, <1>6
  <2> QED
    BY <1>1, <1>3, <1>4, <1>6, <2>1 DEF FreshInv
<1>10. DropInv'
  BY <1>1, <1>2, <1>3, <1>5, DropStep
<1>11. CoverInv'
  <2>1. ASSUME NEW s \in Slots, corpus[s].accepted, NEW t \in Tiers(s), Reached(s, t)'
        PROVE  Reached(s, t) \/ Covered(Scored(s, t))'
    <3>1. s \in 1..SlotCount /\ s < spot
      BY <1>1, <1>2, PageAssumption DEF Slots, PageTypes
    <3>2. CASE Start(t)
      BY <1>2, <3>1, <3>2 DEF Reached
    <3>3. CASE ~Start(t) /\ pass' = "arena"
      <4>1. PICK i \in Slots : \E j \in DOMAIN corpus[s].hits : i < 1 \/ (i = 1 /\ j < 1)
        BY <1>1, <1>2, <1>6, <2>1, <3>3 DEF Reached
      <4>2. corpus[s].hits \in Seq(HitTiers)
        BY <1>1, SlotFacts DEF HitTiers
      <4>3. \A j \in DOMAIN corpus[s].hits : j \in Nat /\ ~(j < 1)
        BY <4>2
      <4>4. i \in Nat /\ ~(i < 1)
        BY PageAssumption DEF Slots
      <4> QED
        BY <4>1, <4>3, <4>4
    <3>4. CASE ~Start(t) /\ pass' = "to_initials"
      <4>1. t \notin {"initials", "fuzzy"}
        BY <2>1, <3>4 DEF Reached
      <4>2. t \in {"boundary", "inner"} /\ t \in Tier
        BY <1>1, <3>4, <4>1, TiersFacts DEF HitTiers, Start
      <4>3. TierBase.boundary \in Nat /\ TierBase[t] <= TierBase.boundary
        BY <4>2 DEF TierBase
      <4>4. Rejects(TierBase.boundary)
        BY <1>3, <3>4
      <4>5. Covers(heap, Scored(s, t))
        BY <1>1, <4>1, <4>2, <4>3, <4>4, RejectedIsCovered
      <4> QED
        BY <1>5, <2>1, <4>2, <4>5 DEF OffersStay, Covered
    <3> QED
      BY <1>3, <3>2, <3>3, <3>4
  <2> QED
    BY <1>2, <1>5, <2>1, CoverStep
<1>12. pass' # "done"
  BY <1>3
<1> QED
  BY <1>5, <1>7, <1>8, <1>9, <1>10, <1>11, <1>12 DEF PageInv

LEMMA ArenaRecordKeeps == PageInv /\ ArenaRecord => PageInv'
<1> SUFFICES ASSUME PageInv, ArenaRecord PROVE PageInv'
  OBVIOUS
<1>1. /\ Asked /\ PageTypes /\ PendInv /\ HeapGood(heap) /\ survivors = {} /\ dropped = {}
      /\ \A s \in seen : \E t \in Tiers(s) : t # "fuzzy"
      /\ \A h \in heap : /\ Group(h.tier) # 3
                         /\ Group(h.tier) = 1 => \A i \in Slots : i >= spot => ArenaOrder[i] # h.slot
  BY InvParts DEF ArenaRecord, FreshInv
<1>2. /\ UNCHANGED asked /\ UNCHANGED <<pend, selector>> /\ UNCHANGED fuzzy
      /\ nth' = 1 /\ cancelled' = cancelled /\ spot' = spot + 1
      /\ pass = "arena" /\ pass' = "arena" /\ spot <= SlotCount /\ nth > Len(corpus[HitSlot].hits)
  BY DEF ArenaRecord
<1>3. spot \in Nat /\ spot \in Slots /\ nth \in Nat /\ \A i \in Slots : i \in Nat
  BY <1>1, <1>2, PageAssumption DEF PageTypes, Slots
<1>4. heap' = heap /\ seen' = seen /\ pend' = pend /\ survivors' = {} /\ dropped' = {} /\ overtime' = overtime
  BY <1>1, <1>2 DEF selector, fuzzy
<1>5. HeapInv' /\ OffersStay /\ Full' = Full
  BY <1>2, SameStep
<1>6. corpus' = corpus /\ Short' = Short /\ (\A s : Tiers(s)' = Tiers(s)) /\ \A t : Group(t)' = Group(t)
  BY <1>1, <1>2, AskedFrame
<1>7. PageTypes'
  <2>1. Asked'
    BY <1>1, <1>2, AskedFrame
  <2> QED
    BY <1>1, <1>2, <1>3, <1>4, <2>1 DEF PageTypes
<1>8. PendInv'
  <2>1. \A i \in Slots : i > spot' => i > spot
    BY <1>2, <1>3
  <2> QED
    BY <1>1, <1>2, <1>4, <1>6, <2>1 DEF PendInv
<1>9. FreshInv'
  <2>1. \A i \in Slots : i >= spot' => i >= spot
    BY <1>2, <1>3
  <2> QED
    BY <1>1, <1>2, <1>4, <1>6, <2>1 DEF FreshInv
<1>10. DropInv'
  BY <1>1, <1>2, <1>5, DropStep
<1>11. CoverInv'
  <2>1. ASSUME NEW s \in Slots, corpus[s].accepted, NEW t \in Tiers(s), Reached(s, t)'
        PROVE  Reached(s, t)
    <3>1. CASE Short /\ Start(t)
      BY <1>2, <3>1 DEF Reached
    <3>2. CASE ~(Short /\ Start(t))
      <4>1. PICK i \in Slots :
              \E j \in DOMAIN corpus[s].hits :
                /\ ArenaOrder[i] = s /\ corpus[s].hits[j] = t
                /\ i < spot + 1 \/ (i = spot + 1 /\ j < 1)
        BY <1>2, <1>6, <2>1, <3>2 DEF Reached
      <4>2. PICK j \in DOMAIN corpus[s].hits :
                /\ ArenaOrder[i] = s /\ corpus[s].hits[j] = t
                /\ i < spot + 1 \/ (i = spot + 1 /\ j < 1)
        BY <4>1
      <4>3. corpus[s].hits \in Seq(HitTiers)
        BY <1>1, SlotFacts DEF HitTiers
      <4>4. j \in Nat /\ ~(j < 1) /\ j <= Len(corpus[s].hits) /\ Len(corpus[s].hits) \in Nat
        BY <4>3
      <4>5. i < spot \/ i = spot
        <5>1. i \in Nat /\ spot \in Nat
          BY <1>3
        <5>2. i < spot + 1
          BY <4>2, <4>4
        <5> QED
          BY <5>1, <5>2
      <4>6. i = spot => j < nth
        BY <1>2, <1>3, <4>2, <4>4 DEF HitSlot
      <4> QED
        BY <1>2, <4>2, <4>5, <4>6 DEF Reached
    <3> QED
      BY <3>1, <3>2
  <2> QED
    BY <1>2, <1>5, <2>1, CoverStep
<1> QED
  BY <1>2, <1>5, <1>7, <1>8, <1>9, <1>10, <1>11 DEF PageInv

LEMMA ArenaEndsKeeps == PageInv /\ ArenaEnds => PageInv'
<1> SUFFICES ASSUME PageInv, ArenaEnds PROVE PageInv'
  OBVIOUS
<1>1. /\ Asked /\ PageTypes /\ PendInv /\ HeapGood(heap) /\ survivors = {} /\ dropped = {}
      /\ \A s \in seen : \E t \in Tiers(s) : t # "fuzzy"
      /\ \A h \in heap : Group(h.tier) # 3
  BY InvParts DEF ArenaEnds, FreshInv
<1>2. /\ UNCHANGED asked /\ UNCHANGED <<spot, nth>> /\ UNCHANGED fuzzy
      /\ Flush /\ pend' = {} /\ cancelled' = cancelled
      /\ pass = "arena" /\ pass' = "to_initials" /\ spot > SlotCount
  BY DEF ArenaEnds, place
<1>3. survivors' = {} /\ dropped' = {} /\ overtime' = overtime
  BY <1>1, <1>2 DEF fuzzy
<1>4. /\ HeapInv' /\ OffersStay /\ (Full => Full')
      /\ \A h \in heap' : h \in heap \/ \E p \in pend : h = Scored(p.slot, p.tier)
      /\ seen' = seen \cup {p.slot : p \in pend}
  BY <1>2, FlushKeeps
<1>5. \A p \in pend : /\ p.slot \in Slots /\ p.tier \in Tiers(p.slot) /\ p.tier # "fuzzy"
                      /\ Group(p.tier) = 1
  BY <1>1, <1>2 DEF PendInv
<1>6. corpus' = corpus /\ (\A s : Tiers(s)' = Tiers(s)) /\ \A t : Group(t)' = Group(t)
  BY <1>1, <1>2, AskedFrame
<1>7. PageTypes'
  <2>1. Asked'
    BY <1>1, <1>2, AskedFrame
  <2>2. seen' \subseteq Slots
    BY <1>1, <1>4, <1>5 DEF PageTypes
  <2> QED
    BY <1>1, <1>2, <1>3, <2>1, <2>2 DEF PageTypes
<1>8. PendInv'
  BY <1>2 DEF PendInv
<1>9. FreshInv'
  <2>1. \A h \in heap' : Group(h.tier)' # 3
    BY <1>1, <1>4, <1>5, <1>6, ScoredParts
  <2>2. \A s \in seen' : \E t \in Tiers(s)' : t # "fuzzy"
    BY <1>1, <1>4, <1>5, <1>6
  <2> QED
    BY <1>2, <1>3, <2>1, <2>2 DEF FreshInv
<1>10. DropInv'
  BY <1>1, <1>2, <1>4, DropStep
<1>11. CoverInv'
  <2>1. ASSUME NEW s \in Slots, corpus[s].accepted, NEW t \in Tiers(s), Reached(s, t)'
        PROVE  Reached(s, t)
    <3>1. t \notin {"initials", "fuzzy"}
      BY <1>2, <2>1 DEF Reached
    <3>2. PICK j \in DOMAIN corpus[s].hits : corpus[s].hits[j] = t
      BY <1>1, <3>1, TiersFacts
    <3>3. PICK i \in Slots : ArenaOrder[i] = s
      BY PageAssumption
    <3>4. i < spot
      BY <1>1, <1>2, PageAssumption DEF PageTypes, Slots
    <3> QED
      BY <1>2, <3>2, <3>3, <3>4 DEF Reached
  <2> QED
    BY <1>2, <1>4, <2>1, CoverStep
<1> QED
  BY <1>2, <1>4, <1>7, <1>8, <1>9, <1>10, <1>11 DEF PageInv


\* A better hit of the record takes the place of the one that waits.
LEMMA ArenaHitUpgrades ==
  ASSUME PageInv, ArenaHit, NEW r \in Slots, r = HitSlot, NEW u, u = corpus[r].hits[nth],
         ~(Short /\ Start(u)), ~Rejects(TierBase[u]), \E h \in pend : h.slot = r
  PROVE  /\ HeapInv' /\ PendInv' /\ OffersStay /\ UNCHANGED selector
         /\ corpus[r].accepted => Covered(Scored(r, u))'
<1>1. /\ Asked /\ PageTypes /\ PendInv /\ HeapInv /\ HeapGood(heap)
  BY InvParts
<1>2. /\ UNCHANGED asked /\ spot' = spot /\ pass = "arena" /\ pass' = "arena"
      /\ spot <= SlotCount /\ nth <= Len(corpus[HitSlot].hits)
  BY DEF ArenaHit
<1>3. /\ (\A s : Tiers(s)' = Tiers(s)) /\ (\A t : Group(t)' = Group(t)) /\ Cap' = Cap
      /\ \A s, t : Scored(s, t)' = Scored(s, t)
  BY <1>1, <1>2, AskedFrame
<1>4. corpus[r].hits \in Seq(HitTiers) /\ nth \in DOMAIN corpus[r].hits
  <2>1. corpus[r].hits \in Seq(HitTiers)
    BY <1>1, SlotFacts DEF HitTiers
  <2>2. nth \in Nat \ {0}
    BY <1>1 DEF PageTypes
  <2> QED
    BY <1>2, <2>1, <2>2
<1>5. u \in HitTiers /\ u \in Tiers(r) /\ u \in Tier /\ u \notin {"initials", "fuzzy"} /\ Group(u) = 1
  <2>1. u \in HitTiers /\ u \in Tiers(r)
    BY <1>1, <1>4, TiersFacts
  <2>2. u \notin {"initials", "fuzzy"}
    BY <2>1 DEF HitTiers
  <2>3. u \in Tier
    BY <1>1, <2>1, TiersFacts
  <2> QED
    BY <2>1, <2>2, <2>3 DEF Group
<1>6. PICK p \in pend : p.slot = r
  OBVIOUS
<1>7. /\ pend = {p} /\ p = [slot |-> p.slot, tier |-> p.tier] /\ Group(p.tier) = 1
      /\ p.tier \in Tiers(r) /\ p.tier # "fuzzy" /\ p.tier \in Tier
      /\ \A i \in Slots : i > spot => ArenaOrder[i] # r
  <2>1. /\ p = [slot |-> p.slot, tier |-> p.tier] /\ p.tier \in Tiers(r) /\ p.tier # "fuzzy"
        /\ Group(p.tier) = 1 /\ \A i \in Slots : i > spot => ArenaOrder[i] # r
    BY <1>1, <1>2, <1>6 DEF PendInv
  <2>2. pend = {p}
    BY <1>1, <1>6 DEF PendInv
  <2> QED
    BY <1>1, <2>1, <2>2, TiersFacts
<1> DEFINE hit == [slot |-> r, tier |-> u]
           q == IF TierBase[u] > TierBase[p.tier] THEN hit ELSE p
<1>8. pend' = {q} /\ UNCHANGED selector
  <2>1. /\ pend' = {IF TierBase[u] > TierBase[h.tier] THEN hit ELSE h : h \in pend}
        /\ UNCHANGED selector
    BY DEF ArenaHit
  <2> HIDE DEF hit
  <2> QED
    BY <1>7, <2>1
<1>9. /\ q = [slot |-> q.slot, tier |-> q.tier] /\ q.slot = r /\ q.tier \in Tiers(r)
      /\ q.tier # "fuzzy" /\ q.tier \in Tier /\ Group(q.tier) = 1
  BY <1>5, <1>6, <1>7
\* It is as good as either.
<1>10. \A t \in {u, p.tier} : q.tier = t \/ Base(r, q.tier) > Base(r, t)
  <2>1. Base(r, u) = TierBase[u] /\ Base(r, p.tier) = TierBase[p.tier]
    BY <1>5, <1>7, BaseFacts, <1>1
  <2>2. u # p.tier => TierBase[u] # TierBase[p.tier]
    BY <1>1, <1>5, <1>7, <2>1, BaseFacts
  <2>3. TierBase[u] \in Nat /\ TierBase[p.tier] \in Nat
    BY <1>5, <1>7 DEF TierBase, Tier
  <2> QED
    BY <2>1, <2>2, <2>3
<1>11. \A t \in {u, p.tier} : AsGood(Scored(r, q.tier), Scored(r, t))
  <2> SUFFICES ASSUME NEW t \in {u, p.tier}, q.tier # t
               PROVE  AsGood(Scored(r, q.tier), Scored(r, t))
    BY ScoredParts DEF AsGood
  <2>1. Base(r, q.tier) > Base(r, t) /\ t \in Tier
    BY <1>5, <1>7, <1>10
  <2>2. Scored(r, q.tier).score > Scored(r, t).score
    BY <1>1, <1>9, <2>1, ScoreRises
  <2> QED
    BY <2>2, ScoredParts DEF AsGood, Better
<1>12. heap' = heap /\ seen' = seen
  BY <1>8 DEF selector
<1> HIDE DEF q
<1>13. HeapInv'
  <2>1. HeapGood(heap)'
    BY <1>1, <1>2, <1>12, HeapFrame
  <2>2. New(heap, r, q.tier)
    BY <1>1, <1>6, <1>7, <1>9 DEF HeapInv, New
  <2>3. \A x \in pend' : New(heap, x.slot, x.tier)'
    BY <1>1, <1>2, <1>8, <1>9, <1>12, <2>2, HeapFrame
  <2> QED
    BY <1>1, <1>12, <2>1, <2>3 DEF HeapInv
<1>14. PendInv'
  BY <1>2, <1>3, <1>7, <1>8, <1>9 DEF PendInv
<1>15. OffersStay
  <2> SUFFICES ASSUME NEW s \in Slots, NEW t \in Tier, corpus[s].accepted, Covered(Scored(s, t))
               PROVE  Covered(Scored(s, t))'
    BY DEF OffersStay
  <2>1. CASE Covers(heap, Scored(s, t))
    BY <1>1, <1>2, <1>12, <2>1, CoveredFrame
  <2>2. CASE AsGood(Scored(r, p.tier), Scored(s, t))
    <3> DEFINE x == Scored(r, q.tier)
               y == Scored(r, p.tier)
               o == Scored(s, t)
    <3>1. Genuine(x) /\ Genuine(y) /\ Genuine(o)
      BY <1>7, <1>9 DEF Genuine
    <3>2. AsGood(x, y) /\ AsGood(y, o)
      BY <1>11, <2>2
    <3> HIDE DEF x, y, o
    <3>3. AsGood(x, o)
      BY <1>1, <3>1, <3>2, BetterOrders DEF AsGood
    <3> QED
      BY <1>1, <1>2, <1>8, <1>9, <3>3, CoveredFrame DEF x, o
  <2> QED
    BY <1>6, <1>7, <2>1, <2>2 DEF Covered
<1>16. Covered(Scored(r, u))'
  BY <1>1, <1>2, <1>8, <1>9, <1>11, CoveredFrame
<1> QED
  BY <1>8, <1>13, <1>14, <1>15, <1>16


\* The first hit of a record makes the offer of the record before it.
LEMMA ArenaHitFlushes ==
  ASSUME PageInv, ArenaHit, NEW r \in Slots, r = HitSlot, NEW u, u = corpus[r].hits[nth],
         ~(Short /\ Start(u)), ~Rejects(TierBase[u]), ~\E h \in pend : h.slot = r
  PROVE  /\ HeapInv' /\ PendInv' /\ OffersStay /\ (Full => Full')
         /\ \A h \in heap' : h \in heap \/ \E p \in pend : h = Scored(p.slot, p.tier)
         /\ seen' = seen \cup {p.slot : p \in pend}
         /\ Covered(Scored(r, u))'
<1>1. /\ Asked /\ PageTypes /\ PendInv /\ HeapInv /\ HeapGood(heap) /\ FreshInv
  BY InvParts
<1>2. /\ UNCHANGED asked /\ spot' = spot /\ pass = "arena" /\ pass' = "arena"
      /\ spot <= SlotCount /\ nth <= Len(corpus[HitSlot].hits)
  BY DEF ArenaHit
<1>3. /\ (\A s : Tiers(s)' = Tiers(s)) /\ (\A t : Group(t)' = Group(t))
  BY <1>1, <1>2, AskedFrame
<1>4. corpus[r].hits \in Seq(HitTiers) /\ nth \in DOMAIN corpus[r].hits
  <2>1. corpus[r].hits \in Seq(HitTiers)
    BY <1>1, SlotFacts DEF HitTiers
  <2>2. nth \in Nat \ {0}
    BY <1>1 DEF PageTypes
  <2> QED
    BY <1>2, <2>1, <2>2
<1>5. u \in Tiers(r) /\ u # "fuzzy" /\ Group(u) = 1
  <2>1. u \in HitTiers /\ u \in Tiers(r)
    BY <1>1, <1>4, TiersFacts
  <2>2. u \notin {"initials", "fuzzy"}
    BY <2>1 DEF HitTiers
  <2> QED
    BY <2>1, <2>2 DEF Group
<1>6. spot \in Slots /\ spot \in Nat /\ r = ArenaOrder[spot] /\ \A i \in Slots : i \in Nat
  BY <1>1, <1>2, PageAssumption DEF PageTypes, Slots, HitSlot
<1>7. Flush /\ pend' = {[slot |-> r, tier |-> u]}
  BY DEF ArenaHit
<1>8. \A p \in pend : Scored(p.slot, p.tier).slot # r
  BY ScoredParts
<1>9. \A h \in heap : h.slot = r => Group(h.tier) # 1
  BY <1>1, <1>2, <1>6 DEF FreshInv
<1>10. \A h \in heap' : h \in heap \/ \E p \in pend : h = Scored(p.slot, p.tier)
  BY <1>1, <1>7, FlushStep
<1>11. New(heap', r, u)
  BY <1>5, <1>8, <1>9, <1>10 DEF New
<1>12. /\ HeapInv' /\ OffersStay /\ (Full => Full')
       /\ seen' = seen \cup {p.slot : p \in pend}
  BY <1>2, <1>7, <1>11, FlushKeeps
<1>13. PendInv'
  <2>1. \A i \in Slots : i > spot => ArenaOrder[i] # r
    BY <1>6, PageAssumption
  <2> QED
    BY <1>2, <1>3, <1>5, <1>7, <2>1 DEF PendInv
<1>14. Covered(Scored(r, u))'
  BY <1>1, <1>2, <1>7, CoveredFrame DEF AsGood
<1> QED
  BY <1>10, <1>12, <1>13, <1>14

LEMMA ArenaHitKeeps == PageInv /\ ArenaHit => PageInv'
<1> SUFFICES ASSUME PageInv, ArenaHit PROVE PageInv'
  OBVIOUS
<1>1. /\ Asked /\ PageTypes /\ PendInv /\ HeapInv /\ HeapGood(heap) /\ survivors = {} /\ dropped = {}
      /\ \A s \in seen : \E t \in Tiers(s) : t # "fuzzy"
      /\ \A h \in heap : /\ Group(h.tier) # 3
                         /\ Group(h.tier) = 1 => \A i \in Slots : i >= spot => ArenaOrder[i] # h.slot
  BY InvParts DEF ArenaHit, FreshInv
<1>2. /\ UNCHANGED asked /\ spot' = spot /\ UNCHANGED fuzzy /\ cancelled' = cancelled
      /\ pass = "arena" /\ pass' = "arena" /\ nth' = nth + 1
      /\ spot <= SlotCount /\ nth <= Len(corpus[HitSlot].hits)
  BY DEF ArenaHit
<1>3. /\ spot \in Nat /\ spot \in Slots /\ nth \in Nat \ {0} /\ (\A i \in Slots : i \in Nat)
      /\ HitSlot \in Slots
  <2>1. /\ spot \in Nat /\ spot \in Slots /\ nth \in Nat \ {0} /\ (\A i \in Slots : i \in Nat)
    BY <1>1, <1>2, PageAssumption DEF PageTypes, Slots
  <2>2. HitSlot \in Slots
    BY <2>1, PageAssumption DEF HitSlot
  <2> QED
    BY <2>1, <2>2
<1>4. survivors' = {} /\ dropped' = {} /\ overtime' = overtime
  BY <1>1, <1>2 DEF fuzzy
<1>5. corpus' = corpus /\ Short' = Short /\ (\A s : Tiers(s)' = Tiers(s)) /\ \A t : Group(t)' = Group(t)
  BY <1>1, <1>2, AskedFrame
<1>6. PICK r \in Slots : r = HitSlot
  BY <1>3
<1>7. corpus[r].hits \in Seq(HitTiers) /\ nth \in DOMAIN corpus[r].hits
  <2>1. corpus[r].hits \in Seq(HitTiers)
    BY <1>1, SlotFacts DEF HitTiers
  <2> QED
    BY <1>2, <1>3, <1>6, <2>1
<1>8. PICK u \in Tiers(r) : u = corpus[r].hits[nth]
  BY <1>1, <1>7, TiersFacts
<1>9. u \in HitTiers /\ u \in Tier /\ u \notin {"initials", "fuzzy"}
  <2>1. u \in HitTiers /\ u \in Tier
    BY <1>1, <1>7, <1>8, TiersFacts
  <2> QED
    BY <2>1 DEF HitTiers
\* What the step leads to is the same for each of its cases.
<1>10. ASSUME HeapInv', PendInv', OffersStay, Full => Full',
              \A h \in heap' : h \in heap \/ \E p \in pend : h = Scored(p.slot, p.tier) /\ p.slot # r,
              seen' \subseteq seen \cup {p.slot : p \in pend},
              corpus[r].accepted => (Short /\ Start(u)) \/ Covered(Scored(r, u))'
       PROVE  PageInv'
  <2>1. \A p \in pend : /\ p.slot \in Slots /\ p.tier \in Tiers(p.slot) /\ p.tier # "fuzzy"
                        /\ Group(p.tier) = 1 /\ \A i \in Slots : i > spot => ArenaOrder[i] # p.slot
    BY <1>1, <1>2 DEF PendInv
  <2>2. PageTypes'
    <3>1. Asked'
      BY <1>1, <1>2, AskedFrame
    <3>2. seen' \subseteq Slots
      BY <1>1, <1>10, <2>1 DEF PageTypes
    <3>3. nth' \in Nat \ {0}
      BY <1>2, <1>3
    <3> QED
      BY <1>1, <1>2, <1>4, <3>1, <3>2, <3>3 DEF PageTypes
  <2>3. FreshInv'
    <3>1. \A s \in seen' : \E t \in Tiers(s)' : t # "fuzzy"
      BY <1>1, <1>5, <1>10, <2>1
    <3>2. ASSUME NEW h \in heap'
          PROVE  /\ Group(h.tier)' # 3
                 /\ Group(h.tier)' = 1 => \A i \in Slots : i >= spot' => ArenaOrder[i] # h.slot
      <4>1. CASE h \in heap
        BY <1>1, <1>2, <1>5, <4>1
      <4>2. CASE \E p \in pend : h = Scored(p.slot, p.tier) /\ p.slot # r
        <5>1. PICK p \in pend : h = Scored(p.slot, p.tier) /\ p.slot # r
          BY <4>2
        <5>2. h.slot = p.slot /\ h.tier = p.tier
          BY <5>1, ScoredParts
        <5>3. \A i \in Slots : i >= spot => i > spot \/ i = spot
          BY <1>3
        <5>4. ArenaOrder[spot] # p.slot
          BY <1>6, <5>1 DEF HitSlot
        <5> QED
          BY <1>2, <1>5, <2>1, <5>2, <5>3, <5>4
      <4> QED
        BY <1>10, <4>1, <4>2
    <3> QED
      BY <1>2, <1>4, <3>1, <3>2 DEF FreshInv
  <2>4. DropInv'
    BY <1>1, <1>2, <1>10, DropStep
  <2>5. CoverInv'
    <3>1. ASSUME NEW s \in Slots, corpus[s].accepted, NEW t \in Tiers(s), Reached(s, t)'
          PROVE  Reached(s, t) \/ Covered(Scored(s, t))'
      <4>1. CASE Short /\ Start(t)
        BY <1>2, <4>1 DEF Reached
      <4>2. CASE ~(Short /\ Start(t))
        <5>1. PICK i \in Slots :
                \E j \in DOMAIN corpus[s].hits :
                  /\ ArenaOrder[i] = s /\ corpus[s].hits[j] = t
                  /\ i < spot \/ (i = spot /\ j < nth + 1)
          BY <1>2, <1>5, <3>1, <4>2 DEF Reached
        <5>2. PICK j \in DOMAIN corpus[s].hits :
                  /\ ArenaOrder[i] = s /\ corpus[s].hits[j] = t
                  /\ i < spot \/ (i = spot /\ j < nth + 1)
          BY <5>1
        <5>3. CASE i < spot \/ (i = spot /\ j < nth)
          BY <1>2, <5>2, <5>3 DEF Reached
        <5>4. CASE i = spot /\ ~(j < nth)
          <6>1. corpus[s].hits \in Seq(HitTiers)
            BY <1>1, SlotFacts DEF HitTiers
          <6>2. j \in Nat /\ j < nth + 1
            BY <1>3, <5>2, <5>4, <6>1
          <6>3. j = nth
            BY <1>3, <5>4, <6>2
          <6>4. s = r /\ t = u
            BY <1>6, <1>8, <5>2, <5>4, <6>3 DEF HitSlot
          <6> QED
            BY <1>10, <3>1, <4>2, <6>4
        <5> QED
          BY <5>2, <5>3, <5>4
      <4> QED
        BY <4>1, <4>2
    <3> QED
      BY <1>2, <1>10, <3>1, CoverStep
  <2> QED
    BY <1>2, <1>10, <2>2, <2>3, <2>4, <2>5 DEF PageInv
<1>11. CASE (Short /\ Start(u)) \/ Rejects(TierBase[u])
  <2>1. UNCHANGED <<pend, selector>>
    BY <1>6, <1>8, <1>11 DEF ArenaHit
  <2>2. HeapInv' /\ OffersStay /\ Full' = Full
    BY <1>2, <2>1, SameStep
  <2>3. heap' = heap /\ seen' = seen /\ pend' = pend
    BY <2>1 DEF selector
  <2>4. PendInv'
    BY <1>1, <1>2, <1>5, <2>3 DEF PendInv
  <2>5. ASSUME Rejects(TierBase[u]), corpus[r].accepted PROVE Covered(Scored(r, u))'
    <3>1. TierBase[u] \in Nat /\ TierBase[u] <= TierBase[u]
      BY <1>9 DEF TierBase, HitTiers
    <3>2. Covers(heap, Scored(r, u))
      BY <1>1, <1>9, <2>5, <3>1, RejectedIsCovered
    <3> QED
      BY <1>9, <2>2, <2>5, <3>2 DEF OffersStay, Covered
  <2> QED
    BY <1>10, <1>11, <2>2, <2>3, <2>4, <2>5
<1>12. CASE ~(Short /\ Start(u)) /\ ~Rejects(TierBase[u]) /\ \E h \in pend : h.slot = r
  <2>1. /\ HeapInv' /\ PendInv' /\ OffersStay /\ UNCHANGED selector
        /\ corpus[r].accepted => Covered(Scored(r, u))'
    BY <1>6, <1>8, <1>12, ArenaHitUpgrades
  <2>2. heap' = heap /\ seen' = seen
    BY <2>1 DEF selector
  <2>3. Full => Full'
    BY <1>1, <1>2, <2>2, AskedFrame DEF Full
  <2> QED
    BY <1>10, <2>1, <2>2, <2>3
<1>13. CASE ~(Short /\ Start(u)) /\ ~Rejects(TierBase[u]) /\ ~\E h \in pend : h.slot = r
  <2>1. /\ HeapInv' /\ PendInv' /\ OffersStay /\ (Full => Full')
        /\ \A h \in heap' : h \in heap \/ \E p \in pend : h = Scored(p.slot, p.tier)
        /\ seen' = seen \cup {p.slot : p \in pend}
        /\ Covered(Scored(r, u))'
    BY <1>6, <1>8, <1>13, ArenaHitFlushes
  <2>2. \A h \in heap' : h \in heap \/ \E p \in pend : h = Scored(p.slot, p.tier) /\ p.slot # r
    BY <1>13, <2>1
  <2> QED
    BY <1>10, <2>1, <2>2
<1> QED
  BY <1>11, <1>12, <1>13


LEMMA InitialsBeginKeeps == PageInv /\ InitialsBegin => PageInv'
<1> SUFFICES ASSUME PageInv, InitialsBegin PROVE PageInv'
  OBVIOUS
<1>1. /\ Asked /\ PageTypes /\ HeapGood(heap) /\ pend = {} /\ survivors = {} /\ dropped = {}
      /\ \A s \in seen : \E t \in Tiers(s) : t # "fuzzy"
      /\ \A h \in heap : Group(h.tier) # 3
  BY InvParts DEF InitialsBegin, FreshInv
<1>2. /\ UNCHANGED asked /\ UNCHANGED <<pend, selector>> /\ UNCHANGED fuzzy
      /\ nth' = nth /\ cancelled' = cancelled /\ spot' = 1
      /\ pass = "to_initials"
      /\ pass' = (IF Rejects(TierBase.initials) THEN "to_fuzzy" ELSE "initials")
  BY DEF InitialsBegin
<1>3. heap' = heap /\ seen' = seen /\ pend' = {} /\ survivors' = {} /\ dropped' = {} /\ overtime' = overtime
  BY <1>1, <1>2 DEF selector, fuzzy
<1>4. HeapInv' /\ OffersStay /\ Full' = Full
  BY <1>2, SameStep
<1>5. (\A s : Tiers(s)' = Tiers(s)) /\ \A t : Group(t)' = Group(t)
  BY <1>1, <1>2, AskedFrame
<1>6. PageTypes'
  <2>1. Asked'
    BY <1>1, <1>2, AskedFrame
  <2>2. pass' \in {"to_fuzzy", "initials"}
    BY <1>2
  <2> QED
    BY <1>1, <1>2, <1>3, <2>1, <2>2 DEF PageTypes
<1>7. PendInv'
  BY <1>3 DEF PendInv
<1>8. FreshInv'
  BY <1>1, <1>2, <1>3, <1>5 DEF FreshInv
<1>9. DropInv'
  BY <1>1, <1>2, <1>4, DropStep
<1>10. CoverInv'
  <2>1. ASSUME NEW s \in Slots, corpus[s].accepted, NEW t \in Tiers(s), Reached(s, t)'
        PROVE  Reached(s, t) \/ Covered(Scored(s, t))'
    <3>1. t # "fuzzy"
      BY <1>2, <2>1 DEF Reached
    <3>2. CASE t # "initials"
      BY <1>2, <3>1, <3>2 DEF Reached
    <3>3. CASE t = "initials" /\ pass' = "initials"
      <4>1. s < 1
        BY <1>2, <2>1, <3>3 DEF Reached
      <4> QED
        BY <4>1, PageAssumption DEF Slots
    <3>4. CASE t = "initials" /\ pass' = "to_fuzzy"
      <4>1. Rejects(TierBase.initials)
        BY <1>2, <3>4
      <4>2. TierBase.initials \in Nat /\ TierBase[t] <= TierBase.initials /\ t \in Tier
        BY <3>4 DEF TierBase, Tier
      <4>3. Covers(heap, Scored(s, t))
        BY <1>1, <3>1, <4>1, <4>2, RejectedIsCovered
      <4> QED
        BY <1>4, <2>1, <4>2, <4>3 DEF OffersStay, Covered
    <3> QED
      BY <1>2, <3>2, <3>3, <3>4
  <2> QED
    BY <1>2, <1>4, <2>1, CoverStep
<1>11. pass' # "done"
  BY <1>2
<1> QED
  BY <1>4, <1>6, <1>7, <1>8, <1>9, <1>10, <1>11 DEF PageInv

LEMMA InitialsSlotKeeps == PageInv /\ InitialsSlot => PageInv'
<1> SUFFICES ASSUME PageInv, InitialsSlot PROVE PageInv'
  OBVIOUS
<1>1. /\ Asked /\ PageTypes /\ PendInv /\ HeapInv /\ HeapGood(heap) /\ survivors = {} /\ dropped = {}
      /\ \A s \in seen : \E t \in Tiers(s) : t # "fuzzy"
      /\ \A h \in heap : Group(h.tier) = 3 => h.slot < spot
  BY InvParts DEF InitialsSlot, FreshInv
<1>2. /\ UNCHANGED asked /\ UNCHANGED fuzzy /\ nth' = nth /\ cancelled' = cancelled
      /\ pass = "initials" /\ pass' = "initials" /\ spot <= SlotCount /\ spot' = spot + 1
  BY DEF InitialsSlot
<1>3. spot \in Nat \ {0} /\ spot \in Slots /\ \A i \in Slots : i \in Nat
  BY <1>1, <1>2, PageAssumption DEF PageTypes, Slots
<1>4. survivors' = {} /\ dropped' = {} /\ overtime' = overtime
  BY <1>1, <1>2 DEF fuzzy
<1>5. (\A s : Tiers(s)' = Tiers(s)) /\ \A t : Group(t)' = Group(t)
  BY <1>1, <1>2, AskedFrame
<1>6. PICK r \in Slots : r = spot
  BY <1>3
<1>7. \A h \in heap : h.slot \in Nat
  BY <1>1, <1>3, HeapIsGenuine
<1>8. \A p \in pend : /\ p.slot \in Slots /\ p.slot \in Nat /\ p.tier \in Tiers(p.slot)
                      /\ p.tier = "initials" /\ p.slot < spot
  BY <1>1, <1>2, <1>3 DEF PendInv
\* What the step leads to is the same for both of its cases.
<1>9. ASSUME HeapInv', PendInv', OffersStay, Full => Full',
             \A h \in heap' : h \in heap \/ \E p \in pend : h = Scored(p.slot, p.tier),
             seen' \subseteq seen \cup {p.slot : p \in pend},
             corpus[r].accepted /\ "initials" \in Tiers(r) => Covered(Scored(r, "initials"))'
      PROVE  PageInv'
  <2>1. PageTypes'
    <3>1. Asked'
      BY <1>1, <1>2, AskedFrame
    <3>2. seen' \subseteq Slots
      BY <1>1, <1>8, <1>9 DEF PageTypes
    <3>3. spot' \in Nat \ {0}
      BY <1>2, <1>3
    <3> QED
      BY <1>1, <1>2, <1>4, <3>1, <3>2, <3>3 DEF PageTypes
  <2>2. FreshInv'
    <3>1. \A s \in seen' : \E t \in Tiers(s)' : t # "fuzzy"
      BY <1>1, <1>5, <1>8, <1>9
    <3>2. ASSUME NEW h \in heap', Group(h.tier)' = 3 PROVE h.slot < spot'
      <4>1. CASE h \in heap
        <5>1. h.slot < spot /\ h.slot \in Nat
          BY <1>1, <1>5, <1>7, <3>2, <4>1
        <5> QED
          BY <1>2, <1>3, <5>1
      <4>2. CASE \E p \in pend : h = Scored(p.slot, p.tier)
        <5>1. PICK p \in pend : h = Scored(p.slot, p.tier)
          BY <4>2
        <5>2. h.slot = p.slot
          BY <5>1, ScoredParts
        <5> QED
          BY <1>2, <1>3, <1>8, <5>2
      <4> QED
        BY <1>9, <4>1, <4>2
    <3> QED
      BY <1>2, <1>4, <3>1, <3>2 DEF FreshInv
  <2>3. DropInv'
    BY <1>1, <1>2, <1>9, DropStep
  <2>4. CoverInv'
    <3>1. ASSUME NEW s \in Slots, corpus[s].accepted, NEW t \in Tiers(s), Reached(s, t)'
          PROVE  Reached(s, t) \/ Covered(Scored(s, t))'
      <4>1. t # "fuzzy" /\ (t = "initials" => s < spot + 1)
        BY <1>2, <3>1 DEF Reached
      <4>2. CASE t = "initials" => s < spot
        BY <1>2, <4>1, <4>2 DEF Reached
      <4>3. CASE t = "initials" /\ ~(s < spot)
        <5>1. s = r
          BY <1>3, <1>6, <4>1, <4>3
        <5> QED
          BY <1>9, <3>1, <4>3, <5>1
      <4> QED
        BY <4>2, <4>3
    <3> QED
      BY <1>2, <1>9, <3>1, CoverStep
  <2> QED
    BY <1>2, <1>9, <2>1, <2>2, <2>3, <2>4 DEF PageInv
<1>10. CASE corpus[r].initials
  <2>1. Flush /\ pend' = {[slot |-> r, tier |-> "initials"]}
    BY <1>6, <1>10 DEF InitialsSlot
  <2>2. "initials" \in Tiers(r) /\ Group("initials") = 3
    BY <1>10 DEF Tiers, Group
  <2>3. \A h \in heap' : h \in heap \/ \E p \in pend : h = Scored(p.slot, p.tier)
    BY <1>1, <2>1, FlushStep
  <2>4. New(heap', r, "initials")
    <3>1. ASSUME NEW h \in heap', h.slot = r PROVE Group(h.tier) # 3
      <4>1. CASE h \in heap
        BY <1>1, <1>3, <1>6, <1>7, <3>1, <4>1
      <4>2. CASE \E p \in pend : h = Scored(p.slot, p.tier)
        <5>1. PICK p \in pend : h = Scored(p.slot, p.tier)
          BY <4>2
        <5>2. h.slot = p.slot
          BY <5>1, ScoredParts
        <5> QED
          BY <1>3, <1>6, <1>8, <3>1, <5>2
      <4> QED
        BY <2>3, <4>1, <4>2
    <3> QED
      BY <2>2, <3>1 DEF New
  <2>5. HeapInv' /\ OffersStay /\ (Full => Full') /\ seen' = seen \cup {p.slot : p \in pend}
    BY <1>2, <2>1, <2>4, FlushKeeps
  <2>6. PendInv'
    <3>1. r < spot'
      BY <1>2, <1>3, <1>6
    <3> QED
      BY <1>2, <1>5, <2>1, <2>2, <3>1 DEF PendInv
  <2>7. Covered(Scored(r, "initials"))'
    BY <1>1, <1>2, <2>1, CoveredFrame DEF AsGood
  <2> QED
    BY <1>9, <2>3, <2>5, <2>6, <2>7
<1>11. CASE ~corpus[r].initials
  <2>1. UNCHANGED <<pend, selector>>
    BY <1>6, <1>11 DEF InitialsSlot
  <2>2. HeapInv' /\ OffersStay /\ Full' = Full
    BY <1>2, <2>1, SameStep
  <2>3. heap' = heap /\ seen' = seen /\ pend' = pend
    BY <2>1 DEF selector
  <2>4. PendInv'
    <3>1. \A p \in pend' : p.slot < spot'
      BY <1>2, <1>3, <1>8, <2>3
    <3> QED
      BY <1>1, <1>2, <1>5, <2>3, <3>1 DEF PendInv
  <2>5. "initials" \notin Tiers(r)
    BY <1>1, <1>11, TiersFacts
  <2> QED
    BY <1>9, <2>2, <2>3, <2>4, <2>5
<1> QED
  BY <1>10, <1>11

LEMMA InitialsEndKeeps == PageInv /\ InitialsEnd => PageInv'
<1> SUFFICES ASSUME PageInv, InitialsEnd PROVE PageInv'
  OBVIOUS
<1>1. /\ Asked /\ PageTypes /\ PendInv /\ HeapInv /\ HeapGood(heap) /\ survivors = {} /\ dropped = {}
      /\ \A s \in seen : \E t \in Tiers(s) : t # "fuzzy"
  BY InvParts DEF InitialsEnd, FreshInv
<1>2. /\ UNCHANGED asked /\ UNCHANGED <<spot, nth>> /\ UNCHANGED fuzzy
      /\ Flush /\ pend' = {} /\ cancelled' = cancelled
      /\ pass = "initials" /\ pass' = "to_fuzzy"
      /\ spot > SlotCount \/ Rejects(TierBase.initials)
  BY <1>1, PageAssumption DEF InitialsEnd, place, PageTypes
<1>3. survivors' = {} /\ dropped' = {} /\ overtime' = overtime
  BY <1>1, <1>2 DEF fuzzy
<1>4. HeapInv' /\ OffersStay /\ (Full => Full') /\ seen' = seen \cup {p.slot : p \in pend}
  BY <1>2, FlushKeeps
<1>5. \A p \in pend : /\ p.slot \in Slots /\ p.tier \in Tiers(p.slot) /\ p.tier # "fuzzy"
  BY <1>1, <1>2 DEF PendInv
<1>6. \A s : Tiers(s)' = Tiers(s)
  BY <1>1, <1>2, AskedFrame
<1>7. PageTypes'
  <2>1. Asked'
    BY <1>1, <1>2, AskedFrame
  <2>2. seen' \subseteq Slots
    BY <1>1, <1>4, <1>5 DEF PageTypes
  <2> QED
    BY <1>1, <1>2, <1>3, <2>1, <2>2 DEF PageTypes
<1>8. PendInv'
  BY <1>2 DEF PendInv
<1>9. FreshInv'
  <2>1. \A s \in seen' : \E t \in Tiers(s)' : t # "fuzzy"
    BY <1>1, <1>4, <1>5, <1>6
  <2> QED
    BY <1>2, <1>3, <2>1 DEF FreshInv
<1>10. DropInv'
  BY <1>1, <1>2, <1>4, DropStep
<1>11. CoverInv'
  <2>1. ASSUME NEW s \in Slots, corpus[s].accepted, NEW t \in Tiers(s), Reached(s, t)'
        PROVE  Reached(s, t) \/ Covered(Scored(s, t))'
    <3>1. t # "fuzzy"
      BY <1>2, <2>1 DEF Reached
    <3>2. CASE t # "initials"
      BY <1>2, <3>1, <3>2 DEF Reached
    <3>3. CASE spot > SlotCount
      <4>1. s < spot
        BY <1>1, <3>3, PageAssumption DEF PageTypes, Slots
      <4> QED
        BY <1>2, <3>1, <4>1 DEF Reached
    <3>4. CASE t = "initials" /\ Rejects(TierBase.initials)
      <4>1. TierBase.initials \in Nat /\ TierBase[t] <= TierBase.initials /\ t \in Tier
        BY <3>4 DEF TierBase, Tier
      <4>2. Covers(heap, Scored(s, t))
        BY <1>1, <3>1, <3>4, <4>1, RejectedIsCovered
      <4> QED
        BY <1>4, <2>1, <4>1, <4>2 DEF OffersStay, Covered
    <3> QED
      BY <1>2, <3>2, <3>3, <3>4
  <2> QED
    BY <1>2, <1>4, <2>1, CoverStep
<1> QED
  BY <1>2, <1>4, <1>7, <1>8, <1>9, <1>10, <1>11 DEF PageInv


\* The depth the budget runs out at is a depth.
LEMMA CutFacts ==
  ASSUME Asked, NEW S \in SUBSET Slots
  PROVE  /\ Cut(S) \in 0..DepthTop
         /\ Cardinality(S) <= FUZZY_CAP => Cut(S) = DepthTop /\ Quota(S) = FUZZY_CAP
<1>1. IsFiniteSet(S) /\ Cardinality(S) \in Nat /\ DepthTop \in Nat /\ FUZZY_CAP \in Nat
  <2>1. IsFiniteSet(Slots)
    BY FS_Interval, PageAssumption DEF Slots
  <2>2. IsFiniteSet(S)
    BY <2>1, FS_Subset
  <2> QED
    BY <2>2, FS_CardinalityType, PageAssumption
<1>2. CASE Cardinality(S) <= FUZZY_CAP
  BY <1>1, <1>2 DEF Cut, Quota
<1>3. CASE ~(Cardinality(S) <= FUZZY_CAP)
  <2> DEFINE T == {d \in 0..DepthTop : Within(S, d) >= FUZZY_CAP}
             RunsOut(d) == /\ Within(S, d) >= FUZZY_CAP
                           /\ \A e \in 0..DepthTop : e < d => Within(S, e) < FUZZY_CAP
  <2>1. \A d \in 0..DepthTop : Within(S, d) \in Nat
    <3> TAKE d \in 0..DepthTop
    <3>1. {s \in S : corpus[s].depth <= d} \in SUBSET S
      OBVIOUS
    <3>2. IsFiniteSet({s \in S : corpus[s].depth <= d})
      BY <1>1, <3>1, FS_Subset
    <3> QED
      BY <3>2, FS_CardinalityType DEF Within
  <2>2. DepthTop \in T
    <3>1. {s \in S : corpus[s].depth <= DepthTop} = S
      <4>1. \A s \in S : corpus[s].depth \in 0..DepthTop
        BY SlotFacts
      <4> QED
        BY <1>1, <4>1
    <3>2. Within(S, DepthTop) = Cardinality(S)
      BY <3>1 DEF Within
    <3> QED
      BY <1>1, <1>3, <3>2
  <2>3. T \in SUBSET Nat /\ T # {}
    BY <2>2
  <2>4. PICK n \in T : \A m \in T : n <= m
    <3> HIDE DEF T
    <3> QED
      BY <2>3, LeastElement
  <2>5. \A e \in 0..DepthTop : e < n => Within(S, e) < FUZZY_CAP
    <3> SUFFICES ASSUME NEW e \in 0..DepthTop, e < n PROVE Within(S, e) < FUZZY_CAP
      OBVIOUS
    <3>1. ~(Within(S, e) >= FUZZY_CAP)
      <4>1. e \notin T
        BY <2>3, <2>4
      <4> QED
        BY <4>1
    <3> QED
      BY <1>1, <2>1, <3>1
  <2>6. n \in 0..DepthTop /\ RunsOut(n)
    BY <2>5
  <2>7. Cut(S) = CHOOSE d \in 0..DepthTop : RunsOut(d)
    BY <1>3 DEF Cut
  <2> HIDE DEF RunsOut
  <2>8. Cut(S) \in 0..DepthTop
    BY <2>6, <2>7
  <2> QED
    BY <1>3, <2>8
<1> QED
  BY <1>2, <1>3

LEMMA FuzzyBeginKeeps == PageInv /\ FuzzyBegin => PageInv'
<1> SUFFICES ASSUME PageInv, FuzzyBegin PROVE PageInv'
  OBVIOUS
<1>1. /\ Asked /\ PageTypes /\ HeapGood(heap) /\ CoverInv /\ pend = {} /\ survivors = {} /\ dropped = {}
      /\ \A s \in seen : \E t \in Tiers(s) : t # "fuzzy"
  BY InvParts DEF FuzzyBegin
<1>2. /\ UNCHANGED asked /\ UNCHANGED <<pend, selector>>
      /\ nth' = nth /\ cancelled' = cancelled /\ spot' = 1 /\ pass = "to_fuzzy"
  BY DEF FuzzyBegin
<1>3. heap' = heap /\ seen' = seen /\ pend' = {}
  BY <1>1, <1>2 DEF selector
<1>4. HeapInv' /\ OffersStay /\ Full' = Full
  BY <1>2, SameStep
<1>5. Asked' /\ search' = search /\ corpus' = corpus
  BY <1>1, <1>2, AskedFrame
<1>6. PendInv'
  BY <1>3 DEF PendInv
<1>7. CASE (search.qlen < 3 \/ Rejects(FuzzyTop)) /\ pass' = "drain" /\ UNCHANGED fuzzy
  <2>1. survivors' = {} /\ dropped' = {} /\ overtime' = overtime
    BY <1>1, <1>7 DEF fuzzy
  <2>2. PageTypes'
    BY <1>1, <1>2, <1>3, <1>5, <1>7, <2>1 DEF PageTypes
  <2>3. FreshInv'
    BY <1>7 DEF FreshInv
  <2>4. DropInv'
    BY <1>1, <1>2, <1>4, <1>7, DropStep
  <2>5. CoverInv'
    <3>1. ASSUME NEW s \in Slots, corpus[s].accepted, NEW t \in Tiers(s), Reached(s, t)'
          PROVE  Reached(s, t) \/ Covered(Scored(s, t))'
      <4>1. CASE t # "fuzzy"
        BY <1>2, <4>1 DEF Reached
      <4>2. CASE t = "fuzzy"
        <5>1. search.qlen >= 3 /\ search.qlen \in Nat
          BY <1>1, <4>2, TiersFacts DEF Asked
        <5>2. Rejects(FuzzyTop)
          BY <1>7, <5>1
        <5>3. FuzzyTop \in Nat /\ FuzzyTop <= FuzzyTop /\ t \in Tier
          BY <4>2 DEF FuzzyTop, Tier
        <5>4. Covers(heap, Scored(s, t))
          BY <1>1, <4>2, <5>2, <5>3, RejectedIsCovered
        <5> QED
          BY <1>4, <3>1, <5>3, <5>4 DEF OffersStay, Covered
      <4> QED
        BY <4>1, <4>2
    <3> QED
      BY <1>2, <1>4, <3>1, CoverStep
  <2> QED
    BY <1>4, <1>6, <1>7, <2>2, <2>3, <2>4, <2>5 DEF PageInv
<1> DEFINE S == {s \in Slots : corpus[s].superset /\ s \notin seen /\ ~TooDeep(corpus[s].depth)}
<1>8. CASE /\ ~(search.qlen < 3) /\ pass' = "fuzzy" /\ UNCHANGED <<overtime, dropped>>
           /\ survivors' = S /\ quota' = Quota(survivors')
  <2>1. S \in SUBSET Slots
    OBVIOUS
  <2>2. survivors' \subseteq Slots /\ dropped' = {} /\ overtime' = overtime
    BY <1>1, <1>8
  <2>3. PageTypes'
    BY <1>1, <1>2, <1>3, <1>5, <1>8, <2>2 DEF PageTypes
  <2>4. FreshInv'
    <3>1. search'.qlen >= 3
      BY <1>1, <1>5, <1>8 DEF Asked
    <3>2. \A s \in survivors' : s \notin seen'
      BY <1>3, <1>8
    <3> QED
      BY <1>8, <3>1, <3>2 DEF FreshInv
  <2>5. DropInv'
    <3>1. Ahead' \in SUBSET S
      BY <1>8 DEF Ahead
    <3>2. IsFiniteSet(S)
      <4>1. IsFiniteSet(Slots)
        BY FS_Interval, PageAssumption DEF Slots
      <4> HIDE DEF S
      <4> QED
        BY <2>1, <4>1, FS_Subset
    <3>3. Cardinality(S) <= FUZZY_CAP => quota' = FUZZY_CAP
      <4> HIDE DEF S
      <4> QED
        BY <1>1, <1>8, <2>1, CutFacts
    <3> HIDE DEF S
    <3>4. IsFiniteSet(Ahead') /\ Cardinality(Ahead') <= Cardinality(S)
      BY <3>1, <3>2, FS_Subset
    <3>5. Cardinality(Ahead') \in Nat /\ Cardinality(S) \in Nat /\ FUZZY_CAP \in Nat
      BY <3>2, <3>4, FS_CardinalityType, PageAssumption
    <3>6. Cardinality(S) <= FUZZY_CAP => quota' \in Nat /\ Cardinality(Ahead') <= quota'
      BY <3>3, <3>4, <3>5
    <3> QED
      BY <1>8, <2>2, <3>6 DEF DropInv
  <2>6. CoverInv'
    <3>1. ASSUME ~cancelled, NEW s \in Slots, corpus[s].accepted, NEW t \in Tiers(s), Reached(s, t)'
          PROVE  Reached(s, t) \/ Covered(Scored(s, t))'
      <4>1. CASE t # "fuzzy"
        BY <1>2, <4>1 DEF Reached
      <4>2. CASE t = "fuzzy"
        <5>1. s \notin S
          <6>1. s \in S => s < 1
            BY <1>2, <1>8, <3>1, <4>2 DEF Reached
          <6> QED
            BY <6>1, PageAssumption DEF Slots
        <5>2. corpus[s].superset
          BY <1>1, <4>2, TiersFacts
        <5>3. t \in Tier
          BY <1>1, TiersFacts
        <5>4. CASE s \in seen
          <6>1. PICK u \in Tiers(s) : u # "fuzzy"
            BY <1>1, <5>4
          <6>2. Covered(Scored(s, u))
            BY <1>1, <1>2, <3>1, <6>1 DEF CoverInv, Reached
          <6>3. Covers(heap, Scored(s, u))
            BY <1>1, <6>2 DEF Covered
          <6>4. u \in Tier /\ Base(s, u) > Base(s, t)
            <7>1. u \in Tier
              BY <1>1, TiersFacts
            <7>2. Base(s, u) \in 55..100
              BY <1>1, <6>1, <7>1, BaseFacts
            <7>3. Base(s, t) \in 30..50
              BY <1>1, <4>2, <5>3, BaseFacts
            <7> QED
              BY <7>1, <7>2, <7>3
          <6>5. Covers(heap, Scored(s, t))
            BY <1>1, <5>3, <6>3, <6>4, CoversLess
          <6> QED
            BY <1>4, <3>1, <5>3, <6>5 DEF OffersStay, Covered
        <5>5. CASE TooDeep(corpus[s].depth)
          <6>1. corpus[s].depth \in 0..DepthTop /\ Pen[corpus[s].depth][FALSE] \in 1..100
            BY <1>1, SlotFacts
          <6>2. corpus[s].depth \in corpus[s].depth..DepthTop
            BY <6>1, PageAssumption
          <6>3. Full /\ FuzzyTop * Pen[corpus[s].depth][FALSE] < Floor
            BY <5>5, <6>2 DEF TooDeep
          <6>4. Floor \in Nat
            BY <1>1, <6>3, FloorFacts
          <6>5. Scored(s, t).score <= FuzzyTop * Pen[corpus[s].depth][FALSE]
            BY <1>1, <4>2, <5>3, FuzzyBounds
          <6>6. Scored(s, t).score \in Nat
            BY <1>1, <5>3, ScoreRange
          <6> DEFINE v == Scored(s, t).score
                     w == FuzzyTop * Pen[corpus[s].depth][FALSE]
          <6>7. w \in Nat
            <7> DEFINE q == Pen[corpus[s].depth][FALSE]
            <7>1. q \in 1..100 /\ w = 50 * q
              BY <6>1 DEF FuzzyTop
            <7> HIDE DEF q, w
            <7> QED
              BY <7>1
          <6>8. v < Floor
            <7>1. v <= w /\ w < Floor /\ v \in Nat
              BY <6>3, <6>5, <6>6
            <7> HIDE DEF v, w
            <7> QED
              BY <6>4, <6>7, <7>1
          <6>9. Covers(heap, Scored(s, t))
            BY <1>1, <6>3, <6>6, <6>8, BelowFloor
          <6> QED
            BY <1>4, <3>1, <5>3, <6>9 DEF OffersStay, Covered
        <5> QED
          BY <5>1, <5>2, <5>4, <5>5
      <4> QED
        BY <4>1, <4>2
    <3> QED
      BY <1>2, <1>4, <3>1, CoverStep
  <2> QED
    BY <1>4, <1>6, <1>8, <2>3, <2>4, <2>5, <2>6 DEF PageInv
<1> QED
  BY <1>7, <1>8 DEF FuzzyBegin


LEMMA FuzzySlotKeeps == PageInv /\ FuzzySlot => PageInv'
<1> SUFFICES ASSUME PageInv, FuzzySlot PROVE PageInv'
  OBVIOUS
<1>1. /\ Asked /\ PageTypes /\ HeapGood(heap) /\ HeapInv /\ DropInv /\ CoverInv /\ pend = {}
      /\ search.qlen >= 3 /\ \A s \in survivors : s >= spot => s \notin seen
  BY InvParts DEF FuzzySlot, FreshInv
<1>2. /\ UNCHANGED asked /\ nth' = nth /\ pend' = pend /\ cancelled' = cancelled
      /\ pass = "fuzzy" /\ pass' = "fuzzy" /\ spot <= SlotCount /\ spot' = spot + 1
  BY DEF FuzzySlot
<1>3. spot \in Nat \ {0} /\ spot \in Slots /\ \A i \in Slots : i \in Nat
  BY <1>1, <1>2, PageAssumption DEF PageTypes, Slots
<1>4. PICK r \in Slots : r = spot
  BY <1>3
<1>5. Asked' /\ search' = search /\ corpus' = corpus
  BY <1>1, <1>2, AskedFrame
<1>6. survivors' = survivors /\ survivors \in SUBSET Slots
  BY <1>1 DEF FuzzySlot, fuzzy, PageTypes
<1>7. Cut(survivors)' = Cut(survivors) /\ Cut(survivors) \in 0..DepthTop /\ corpus[r].depth \in 0..DepthTop
  BY <1>1, <1>2, <1>6, CutFrame, CutFacts, SlotFacts
\* The slot is ahead until the step has been taken.
<1>8. IsFiniteSet(Ahead) /\ Cardinality(Ahead) \in Nat
  <2>1. IsFiniteSet(Slots)
    BY FS_Interval, PageAssumption DEF Slots
  <2>2. Ahead \in SUBSET Slots
    BY <1>6 DEF Ahead
  <2>3. IsFiniteSet(Ahead)
    BY <2>1, <2>2, FS_Subset
  <2> QED
    BY <2>3, FS_CardinalityType
<1>9. Ahead' = Ahead \ {r} /\ (r \in Ahead <=> r \in survivors)
  <2>1. \A s \in survivors : s \in Nat
    BY <1>3, <1>6
  <2>2. Ahead' = {s \in survivors : s >= spot + 1}
    BY <1>2, <1>6 DEF Ahead
  <2>3. \A s \in survivors : s >= spot + 1 <=> s >= spot /\ s # r
    BY <1>3, <1>4, <2>1
  <2>4. r >= spot
    BY <1>3, <1>4
  <2> QED
    BY <2>2, <2>3, <2>4 DEF Ahead
<1>10. /\ Cardinality(Ahead') \in Nat
       /\ Cardinality(Ahead') = IF r \in survivors THEN Cardinality(Ahead) - 1 ELSE Cardinality(Ahead)
       /\ r \in survivors => Cardinality(Ahead) > 0
  <2>1. IsFiniteSet(Ahead \ {r})
        /\ Cardinality(Ahead \ {r}) = IF r \in Ahead THEN Cardinality(Ahead) - 1 ELSE Cardinality(Ahead)
    BY <1>8, FS_RemoveElement
  <2>2. Cardinality(Ahead \ {r}) \in Nat
    BY <2>1, FS_CardinalityType
  <2> QED
    BY <1>8, <1>9, <2>1, <2>2
<1>11. PendInv'
  BY <1>1, <1>2 DEF PendInv
\* What the step leads to is the same for each of its cases.
<1>12. ASSUME HeapInv', OffersStay, seen' \subseteq seen \cup {r}, dropped' \subseteq Slots, overtime' \in BOOLEAN,
              DropInv', dropped \subseteq dropped',
              corpus[r].accepted /\ r \in survivors /\ r \notin dropped' /\ "fuzzy" \in Tiers(r)
                => Covered(Scored(r, "fuzzy"))'
       PROVE  PageInv'
  <2>1. PageTypes'
    <3>1. seen' \subseteq Slots
      BY <1>1, <1>12 DEF PageTypes
    <3>2. spot' \in Nat \ {0}
      BY <1>2, <1>3
    <3> QED
      BY <1>1, <1>2, <1>5, <1>6, <1>12, <3>1, <3>2 DEF PageTypes
  <2>2. FreshInv'
    <3>1. \A s \in survivors' : s >= spot' => s \notin seen'
      <4> SUFFICES ASSUME NEW s \in survivors, s >= spot + 1 PROVE s \notin seen'
        BY <1>2, <1>6
      <4>1. s \in Nat /\ s >= spot /\ s # r
        BY <1>3, <1>4, <1>6
      <4> QED
        BY <1>1, <1>12, <4>1
    <3> QED
      BY <1>1, <1>2, <1>5, <3>1 DEF FreshInv
  <2>3. CoverInv'
    <3>1. ASSUME NEW s \in Slots, corpus[s].accepted, NEW t \in Tiers(s), Reached(s, t)'
          PROVE  Reached(s, t) \/ Covered(Scored(s, t))'
      <4>1. t = "fuzzy" => s \notin dropped' /\ (s \in survivors => s < spot + 1)
        BY <1>2, <1>6, <3>1 DEF Reached
      <4>2. CASE t # "fuzzy" \/ s \notin survivors \/ s < spot
        BY <1>2, <1>12, <4>1, <4>2 DEF Reached
      <4>3. CASE t = "fuzzy" /\ s \in survivors /\ ~(s < spot)
        <5>1. s = r
          BY <1>3, <1>4, <4>1, <4>3
        <5> QED
          BY <1>12, <3>1, <4>1, <4>3, <5>1
      <4> QED
        BY <4>2, <4>3
    <3> QED
      BY <1>2, <1>12, <3>1, CoverStep
  <2> QED
    BY <1>2, <1>11, <1>12, <2>1, <2>2, <2>3 DEF PageInv
<1>13. /\ dropped \subseteq survivors /\ dropped \cap seen = {} /\ (\A s \in dropped : s < spot)
       /\ (\A s \in dropped : corpus[s].depth >= Cut(survivors))
       /\ (dropped # {} => overtime \/ Full)
       /\ (Cardinality(survivors) <= FUZZY_CAP =>
             dropped = {} /\ quota \in Nat /\ Cardinality(Ahead) <= quota)
  BY <1>1, <1>2 DEF DropInv
<1>14. \A s \in dropped : s < spot + 1
  <2> SUFFICES ASSUME NEW s \in dropped PROVE s < spot + 1
    OBVIOUS
  <2>1. s \in Nat /\ s < spot
    BY <1>3, <1>6, <1>13
  <2> QED
    BY <1>3, <2>1
<1>15. dropped \subseteq Slots /\ overtime \in BOOLEAN
  BY <1>1 DEF PageTypes
<1>16. CASE r \notin survivors /\ UNCHANGED <<selector, fuzzy>>
  <2>1. /\ heap' = heap /\ seen' = seen /\ dropped' = dropped /\ overtime' = overtime /\ quota' = quota
        /\ UNCHANGED <<pend, selector>>
    BY <1>2, <1>16 DEF selector, fuzzy
  <2>2. HeapInv' /\ OffersStay /\ Full' = Full
    BY <1>2, <2>1, SameStep
  <2>3. DropInv'
    BY <1>2, <1>5, <1>6, <1>7, <1>10, <1>13, <1>14, <1>16, <2>1, <2>2 DEF DropInv
  <2> QED
    BY <1>12, <1>15, <1>16, <2>1, <2>2, <2>3
<1>17. CASE /\ r \in survivors
            /\ quota' = (IF AtCut THEN quota - 1 ELSE quota)
            /\ IF corpus[r].density = 0 THEN UNCHANGED selector ELSE Offer(r, "fuzzy")
            /\ UNCHANGED <<survivors, overtime, dropped>>
  <2>1. r \notin seen /\ r \notin dropped
    <3>1. r >= spot /\ ~(r < spot)
      BY <1>3, <1>4
    <3> QED
      BY <1>1, <1>13, <1>17, <3>1
  <2>2. AtCut => quota > 0
    BY DEF AtCut
  <2>3. Cardinality(survivors) <= FUZZY_CAP => quota' \in Nat /\ Cardinality(Ahead') <= quota'
    BY <1>8, <1>10, <1>13, <1>17, <2>2
  <2>4. ASSUME HeapInv', OffersStay, Full => Full', seen' \subseteq seen \cup {r},
               corpus[r].accepted /\ "fuzzy" \in Tiers(r) => Covered(Scored(r, "fuzzy"))'
        PROVE  PageInv'
    <3>1. dropped' \cap seen' = {}
      BY <1>13, <1>17, <2>1, <2>4
    <3>2. DropInv'
      BY <1>2, <1>5, <1>6, <1>7, <1>13, <1>14, <1>17, <2>3, <2>4, <3>1 DEF DropInv
    <3> QED
      BY <1>12, <1>15, <1>17, <2>4, <3>2
  <2>5. CASE corpus[r].density = 0
    <3>1. UNCHANGED <<pend, selector>> /\ seen' = seen
      BY <1>2, <1>17, <2>5 DEF selector
    <3>2. HeapInv' /\ OffersStay /\ Full' = Full
      BY <1>2, <3>1, SameStep
    <3>3. "fuzzy" \notin Tiers(r)
      BY <1>1, <2>5, TiersFacts
    <3> QED
      BY <2>4, <3>1, <3>2, <3>3
  <2>6. CASE corpus[r].density # 0
    <3>1. corpus[r].density \in 0..100
      BY <1>1, SlotFacts
    <3>2. "fuzzy" \in Tiers(r)
      BY <1>1, <2>6, <3>1 DEF Tiers
    <3>3. New(heap, r, "fuzzy")
      BY <1>1, <2>1 DEF HeapInv, New
    <3>4. Offer(r, "fuzzy") /\ pend' = {}
      BY <1>1, <1>2, <1>17, <2>6
    <3>5. /\ HeapInv' /\ OffersStay /\ (Full => Full')
          /\ corpus[r].accepted => Covered(Scored(r, "fuzzy"))'
          /\ seen' = seen \cup {r}
      BY <1>1, <1>2, <3>2, <3>3, <3>4, OfferKeeps
    <3> QED
      BY <2>4, <3>5
  <2> QED
    BY <2>5, <2>6
<1>18. CASE /\ r \in survivors /\ ~Retained
            /\ \/ (Full \/ overtime) /\ UNCHANGED overtime
               \/ ~Full /\ overtime' = TRUE
            /\ dropped' = dropped \cup {r} /\ UNCHANGED <<selector, survivors, quota>>
  <2>1. UNCHANGED <<pend, selector>> /\ heap' = heap /\ seen' = seen /\ quota' = quota
    BY <1>2, <1>18 DEF selector
  <2>2. HeapInv' /\ OffersStay /\ Full' = Full
    BY <1>2, <2>1, SameStep
  <2>3. r \notin seen
    BY <1>1, <1>3, <1>4, <1>18
  <2>4. ~(corpus[r].depth < Cut(survivors)) /\ (corpus[r].depth = Cut(survivors) => ~(quota > 0))
    BY <1>4, <1>18 DEF Retained, AtCut
  <2>5. corpus[r].depth >= Cut(survivors)
    BY <1>7, <2>4, PageAssumption
  <2>6. ~(Cardinality(survivors) <= FUZZY_CAP)
    <3>1. SUFFICES ASSUME Cardinality(survivors) <= FUZZY_CAP PROVE FALSE
      OBVIOUS
    <3>2. Cut(survivors) = DepthTop
      BY <1>1, <1>6, <3>1, CutFacts
    <3>3. corpus[r].depth = Cut(survivors)
      BY <1>7, <2>5, <3>2, PageAssumption
    <3>4. quota \in Nat /\ ~(quota > 0) /\ Cardinality(Ahead) <= quota
      BY <1>13, <2>4, <3>1, <3>3
    <3> QED
      BY <1>8, <1>10, <1>18, <3>4
  <2>7. overtime' \/ Full'
    BY <1>18, <2>2
  <2>8. overtime' \in BOOLEAN
    BY <1>15, <1>18
  <2>9. DropInv'
    <3>1. dropped' \subseteq survivors' /\ dropped' \cap seen' = {}
      BY <1>6, <1>13, <1>18, <2>1, <2>3
    <3>2. \A s \in dropped' : s < spot'
      BY <1>2, <1>3, <1>4, <1>14, <1>18
    <3>3. \A s \in dropped' : corpus'[s].depth >= Cut(survivors)'
      BY <1>5, <1>7, <1>13, <1>18, <2>5
    <3>4. ~(Cardinality(survivors') <= FUZZY_CAP)
      BY <1>6, <2>6
    <3> QED
      BY <2>7, <3>1, <3>2, <3>3, <3>4 DEF DropInv
  <2>10. dropped' \subseteq Slots
    BY <1>15, <1>18
  <2> QED
    BY <1>12, <1>18, <2>1, <2>2, <2>8, <2>9, <2>10
<1> QED
  <2>1. \/ r \notin survivors /\ UNCHANGED <<selector, fuzzy>>
        \/ /\ r \in survivors /\ (Retained \/ ~(Full \/ overtime))
           /\ quota' = (IF AtCut THEN quota - 1 ELSE quota)
           /\ IF corpus[r].density = 0 THEN UNCHANGED selector ELSE Offer(r, "fuzzy")
           /\ UNCHANGED <<survivors, overtime, dropped>>
        \/ /\ r \in survivors /\ ~Retained
           /\ \/ (Full \/ overtime) /\ UNCHANGED overtime
              \/ ~Full /\ overtime' = TRUE
           /\ dropped' = dropped \cup {r} /\ UNCHANGED <<selector, survivors, quota>>
    BY <1>4 DEF FuzzySlot
  <2> QED
    BY <1>16, <1>17, <1>18, <2>1

LEMMA FuzzyEndsKeeps == PageInv /\ FuzzyEnds => PageInv'
<1> SUFFICES ASSUME PageInv, FuzzyEnds PROVE PageInv'
  OBVIOUS
<1>1. /\ Asked /\ PageTypes /\ HeapInv /\ DropInv /\ pend = {}
  BY InvParts DEF FuzzyEnds
<1>2. /\ UNCHANGED asked /\ UNCHANGED <<spot, nth>> /\ UNCHANGED <<pend, selector>> /\ UNCHANGED fuzzy
      /\ cancelled' = cancelled /\ pass = "fuzzy" /\ pass' = "drain" /\ spot > SlotCount
  BY DEF FuzzyEnds, place
<1>3. heap' = heap /\ seen' = seen /\ pend' = {} /\ survivors' = survivors /\ dropped' = dropped
      /\ overtime' = overtime
  BY <1>1, <1>2 DEF selector, fuzzy
<1>4. HeapInv' /\ OffersStay /\ Full' = Full
  BY <1>2, SameStep
<1>5. Asked'
  BY <1>1, <1>2, AskedFrame
<1>6. PageTypes'
  BY <1>1, <1>2, <1>3, <1>5 DEF PageTypes
<1>7. PendInv'
  BY <1>3 DEF PendInv
<1>8. FreshInv'
  BY <1>2 DEF FreshInv
<1>9. DropInv'
  BY <1>2, <1>3, <1>4, DropStep
<1>10. CoverInv'
  <2>1. ASSUME NEW s \in Slots, corpus[s].accepted, NEW t \in Tiers(s), Reached(s, t)'
        PROVE  Reached(s, t)
    <3>1. t = "fuzzy" => s \notin dropped
      BY <1>2, <1>3, <2>1 DEF Reached
    <3>2. s < spot
      BY <1>1, <1>2, PageAssumption DEF PageTypes, Slots
    <3> QED
      BY <1>2, <3>1, <3>2 DEF Reached
  <2> QED
    BY <1>2, <1>4, <2>1, CoverStep
<1> QED
  BY <1>2, <1>4, <1>6, <1>7, <1>8, <1>9, <1>10 DEF PageInv

LEMMA CancelKeeps == PageInv /\ CancelSearch => PageInv'
<1> SUFFICES ASSUME PageInv, CancelSearch PROVE PageInv'
  OBVIOUS
<1>1. /\ Asked /\ PageTypes /\ PendInv /\ HeapInv /\ DropInv
      /\ pass \notin {"arena", "initials"} => pend = {}
      /\ pass \notin {"fuzzy", "drain", "done"} => dropped = {}
  BY InvParts
<1>2. /\ UNCHANGED asked /\ UNCHANGED <<spot, nth>> /\ UNCHANGED fuzzy /\ Flush /\ pend' = {}
      /\ cancelled' = TRUE /\ pass \notin {"drain", "done"} /\ pass' = "drain"
  BY DEF CancelSearch, place
<1>3. survivors' = survivors /\ dropped' = dropped /\ overtime' = overtime
  BY <1>2 DEF fuzzy
<1>4. HeapInv' /\ OffersStay /\ (Full => Full') /\ seen' = seen \cup {p.slot : p \in pend}
  BY <1>2, FlushKeeps
<1>5. dropped = {} \/ seen' = seen
  BY <1>1, <1>2, <1>4
<1>6. Asked'
  BY <1>1, <1>2, AskedFrame
<1>7. seen' \subseteq Slots
  BY <1>1, <1>4 DEF PendInv, PageTypes
<1>8. PageTypes'
  BY <1>1, <1>2, <1>3, <1>6, <1>7 DEF PageTypes
<1>9. PendInv'
  BY <1>2 DEF PendInv
<1>10. FreshInv'
  BY <1>2 DEF FreshInv
<1>11. DropInv'
  BY <1>2, <1>4, <1>5, DropStep
<1>12. CoverInv'
  BY <1>2 DEF CoverInv
<1> QED
  BY <1>2, <1>4, <1>8, <1>9, <1>10, <1>11, <1>12 DEF PageInv

LEMMA DrainKeeps == PageInv /\ Drain => PageInv'
<1> SUFFICES ASSUME PageInv, Drain PROVE PageInv'
  OBVIOUS
<1>1. /\ Asked /\ PageTypes /\ HeapInv /\ DropInv /\ pend = {}
  BY InvParts DEF Drain
<1>2. /\ UNCHANGED asked /\ UNCHANGED <<spot, nth>> /\ UNCHANGED <<pend, selector>> /\ UNCHANGED fuzzy
      /\ cancelled' = cancelled /\ pass = "drain" /\ pass' = "done"
      /\ top' = Truncated(Deduped(heap))
  BY DEF Drain, place
<1>3. heap' = heap /\ seen' = seen /\ pend' = {} /\ survivors' = survivors /\ dropped' = dropped
      /\ overtime' = overtime
  BY <1>1, <1>2 DEF selector, fuzzy
<1>4. HeapInv' /\ OffersStay /\ Full' = Full
  BY <1>2, SameStep
<1>5. Asked' /\ search' = search
  BY <1>1, <1>2, AskedFrame
<1>6. PageTypes'
  BY <1>1, <1>2, <1>3, <1>5 DEF PageTypes
<1>7. PendInv'
  BY <1>3 DEF PendInv
<1>8. FreshInv'
  BY <1>2 DEF FreshInv
<1>9. DropInv'
  BY <1>2, <1>3, <1>4, DropStep
<1>10. CoverInv'
  <2>1. \A s \in Slots, t \in Tier : Reached(s, t)' => Reached(s, t)
    BY <1>2, <1>3 DEF Reached
  <2>2. \A s \in Slots : \A t \in Tiers(s) : t \in Tier
    BY <1>1, TiersFacts
  <2> QED
    BY <1>2, <1>4, <2>1, <2>2, CoverStep
<1>11. top' = Truncated(Deduped(heap))'
  BY <1>2, <1>3, <1>5 DEF Truncated, Deduped, Better
<1> QED
  BY <1>4, <1>6, <1>7, <1>8, <1>9, <1>10, <1>11 DEF PageInv


LEMMA PageStep == PageInv /\ [PageNext]_pageVars => PageInv'
<1> SUFFICES ASSUME PageInv, [PageNext]_pageVars PROVE PageInv'
  OBVIOUS
<1>1. CASE HeadSlot
  BY <1>1, HeadSlotKeeps
<1>2. CASE HeadEnds
  BY <1>2, HeadEndsKeeps
<1>3. CASE ArenaHit
  BY <1>3, ArenaHitKeeps
<1>4. CASE ArenaRecord
  BY <1>4, ArenaRecordKeeps
<1>5. CASE ArenaEnds
  BY <1>5, ArenaEndsKeeps
<1>6. CASE InitialsBegin
  BY <1>6, InitialsBeginKeeps
<1>7. CASE InitialsSlot
  BY <1>7, InitialsSlotKeeps
<1>8. CASE InitialsEnd
  BY <1>8, InitialsEndKeeps
<1>9. CASE FuzzyBegin
  BY <1>9, FuzzyBeginKeeps
<1>10. CASE FuzzySlot
  BY <1>10, FuzzySlotKeeps
<1>11. CASE FuzzyEnds
  BY <1>11, FuzzyEndsKeeps
<1>12. CASE CancelSearch
  BY <1>12, CancelKeeps
<1>13. CASE Drain
  BY <1>13, DrainKeeps
<1>14. CASE UNCHANGED pageVars
  <2>1. /\ UNCHANGED asked /\ UNCHANGED <<pend, selector>> /\ UNCHANGED fuzzy
        /\ pass' = pass /\ spot' = spot /\ nth' = nth /\ cancelled' = cancelled /\ top' = top
    BY <1>14 DEF pageVars, place
  <2>2. /\ heap' = heap /\ seen' = seen /\ pend' = pend /\ survivors' = survivors /\ dropped' = dropped
        /\ overtime' = overtime /\ quota' = quota
    BY <2>1 DEF selector, fuzzy
  <2>3. Asked /\ PageTypes /\ PendInv /\ FreshInv /\ DropInv
    BY InvParts
  <2>4. /\ Asked' /\ search' = search /\ corpus' = corpus /\ Short' = Short
        /\ (\A s : Tiers(s)' = Tiers(s)) /\ (\A t : Group(t)' = Group(t))
    BY <2>1, <2>3, AskedFrame
  <2>5. HeapInv' /\ OffersStay /\ Full' = Full
    BY <2>1, SameStep
  <2>6. PageTypes'
    BY <2>1, <2>2, <2>3, <2>4 DEF PageTypes
  <2>7. PendInv'
    BY <2>1, <2>2, <2>3, <2>4 DEF PendInv
  <2>8. FreshInv'
    BY <2>1, <2>2, <2>3, <2>4 DEF FreshInv
  <2>9. DropInv'
    <3>1. Cut(survivors)' = Cut(survivors) /\ Ahead' = Ahead
      BY <2>1, <2>2, CutFrame DEF Ahead
    <3> QED
      BY <2>1, <2>2, <2>3, <2>4, <2>5, <3>1 DEF DropInv
  <2>10. CoverInv'
    <3>1. \A s \in Slots, t \in Tier : Reached(s, t)' => Reached(s, t)
      BY <2>1, <2>2, <2>4 DEF Reached
    <3>2. \A s \in Slots : \A t \in Tiers(s) : t \in Tier
      BY <2>3, TiersFacts
    <3> QED
      BY <2>1, <2>5, <3>1, <3>2, CoverStep
  <2>11. Truncated(Deduped(heap))' = Truncated(Deduped(heap))
    BY <2>2, <2>4 DEF Truncated, Deduped, Better
  <2>12. pass' = "done" => top' = Truncated(Deduped(heap))'
    BY <2>1, <2>11 DEF PageInv
  <2> QED
    BY <2>5, <2>6, <2>7, <2>8, <2>9, <2>10, <2>12 DEF PageInv
<1> QED
  BY <1>1, <1>2, <1>3, <1>4, <1>5, <1>6, <1>7, <1>8, <1>9, <1>10, <1>11, <1>12, <1>13, <1>14
     DEF PageNext

\* What the heap has come to, the page is read off.
LEMMA PageHolds == PageInv => PageIsExhaustive
<1> SUFFICES ASSUME PageInv, pass = "done"
             PROVE  /\ top \subseteq Offers
                    /\ ~cancelled /\ Cardinality(survivors) <= FUZZY_CAP => top = Exhaustive
                    /\ ~cancelled => \A o \in Exhaustive \ top :
                         /\ o.tier = "fuzzy" /\ corpus[o.slot].depth >= Cut(survivors)
                         /\ overtime \/ Cardinality({p.slot : p \in heap}) >= search.k
  BY DEF PageIsExhaustive
<1>1. /\ Asked /\ HeapGood(heap) /\ HeapInv /\ DropInv /\ CoverInv /\ pend = {}
      /\ top = Truncated(Deduped(heap))
  BY InvParts DEF PageInv
<1>2. top \subseteq Offers
  <2>1. top \subseteq heap
    BY <1>1 DEF Truncated, Deduped
  <2>2. heap \subseteq Offers
    BY <1>1, HeapIsGenuine, OffersFacts
  <2> QED
    BY <2>1, <2>2
<1>3. ASSUME ~cancelled
      PROVE  /\ \A o \in Exhaustive : (o.tier = "fuzzy" /\ o.slot \in dropped) \/ o \in top
             /\ dropped = {} => top \subseteq Exhaustive
  <2>1. \A h \in heap : h.slot \notin dropped
    BY <1>1 DEF HeapInv, DropInv
  <2>2. ASSUME NEW o \in Offers, ~(o.tier = "fuzzy" /\ o.slot \in dropped) PROVE Covers(heap, o)
    <3>1. /\ o.slot \in Slots /\ corpus[o.slot].accepted /\ o.tier \in Tiers(o.slot)
          /\ o = Scored(o.slot, o.tier)
      BY <1>1, OffersFacts
    <3>2. Reached(o.slot, o.tier)
      BY <2>2 DEF Reached
    <3>3. Covered(Scored(o.slot, o.tier))
      BY <1>1, <1>3, <3>1, <3>2 DEF CoverInv
    <3> QED
      BY <1>1, <3>1, <3>3 DEF Covered
  <2> QED
    BY <1>1, <2>1, <2>2, PageOfHeap
<1>4. ASSUME ~cancelled, Cardinality(survivors) <= FUZZY_CAP PROVE top = Exhaustive
  <2>1. dropped = {}
    BY <1>1, <1>4 DEF DropInv
  <2> QED
    BY <1>3, <1>4, <2>1
<1>5. ASSUME ~cancelled, NEW o \in Exhaustive \ top
      PROVE  /\ o.tier = "fuzzy" /\ corpus[o.slot].depth >= Cut(survivors)
             /\ overtime \/ Cardinality({p.slot : p \in heap}) >= search.k
  <2>1. o.tier = "fuzzy" /\ o.slot \in dropped
    BY <1>3, <1>5
  <2>2. corpus[o.slot].depth >= Cut(survivors) /\ (overtime \/ Full)
    BY <1>1, <2>1 DEF DropInv
  <2>3. ASSUME Full PROVE Cardinality({p.slot : p \in heap}) >= search.k
    <3>1. search.k <= Cardinality(Shown(heap))
      BY <1>1, <2>3, FullHeapIsWide DEF Full
    <3>2. search.k \in Nat /\ Cardinality(Shown(heap)) \in Nat
      BY <1>1, ShownFinite DEF Asked, HeapGood
    <3>3. Cardinality(Shown(heap)) >= search.k
      BY <3>1, <3>2
    <3> QED
      BY <3>3 DEF Shown
  <2> QED
    BY <2>1, <2>2, <2>3
<1> QED
  BY <1>2, <1>4, <1>5

\* The page of a search is the best rows of everything the passes could have offered:
\* what the heap, its floor, the passes skipped and the filter asked last leave out was
\* never going to be on it, and only the fuzzy cap may cost a row.
THEOREM PagesAreExhaustive == PageSpec => []PageIsExhaustive
<1>1. PageInit => PageInv
  BY InitPage
<1>2. PageInv /\ [PageNext]_pageVars => PageInv'
  BY PageStep
<1>3. PageInv => PageIsExhaustive
  BY PageHolds
<1> QED
  BY <1>1, <1>2, <1>3, PTL DEF PageSpec

-----------------------------------------------------------------------------
(* How a volume's files are found. The loops of VolumeScan are recursive   *)
(* functions on an interval; each is the one run of its step.              *)

\* The states from s0 through k steps.
RunOf(g, S, k, step, s0) ==
  g \in [0..k -> S] /\ g[0] = s0 /\ \A n \in 1..k : g[n] = step[<<n, g[n - 1]>>]

\* A step can be taken any number of times.
LEMMA Iterates ==
  ASSUME NEW S, NEW k \in Nat, NEW step \in [(1..k) \X S -> S], NEW s0 \in S
  PROVE  \E g : RunOf(g, S, k, step, s0)
<1> DEFINE Upto(m, g) == /\ g \in [0..m -> S] /\ g[0] = s0
                         /\ \A n \in 1..m : g[n] = step[<<n, g[n - 1]>>]
           T == {m \in 0..k : \E g : Upto(m, g)}
<1>1. 0 \in T
  <2>1. Upto(0, [i \in 0..0 |-> s0])
    OBVIOUS
  <2> HIDE DEF Upto
  <2>2. \E g : Upto(0, g)
    BY <2>1, Zenon
  <2>3. QED BY <2>2
<1>2. ASSUME NEW m \in 0..(k - 1), m \in T PROVE m + 1 \in T
  <2>1. PICK g : Upto(m, g)
    BY <1>2
  <2> DEFINE h == [i \in 0..(m + 1) |-> IF i <= m THEN g[i] ELSE step[<<m + 1, g[m]>>]]
  <2>2. m + 1 \in 1..k /\ g[m] \in S /\ step[<<m + 1, g[m]>>] \in S
    BY <2>1
  <2>3. h \in [0..(m + 1) -> S] /\ h[0] = s0
    BY <2>1, <2>2
  <2>4. ASSUME NEW n \in 1..(m + 1) PROVE h[n] = step[<<n, h[n - 1]>>]
    <3>1. CASE n <= m
      BY <3>1, <2>1
    <3>2. CASE n = m + 1
      <4>1. h[n] = step[<<m + 1, g[m]>>] /\ h[n - 1] = g[m]
        BY <3>2
      <4>2. QED BY <4>1, <3>2
    <3>3. QED BY <3>1, <3>2
  <2>5. Upto(m + 1, h)
    BY <2>3, <2>4
  <2> HIDE DEF Upto, h
  <2>6. \E f : Upto(m + 1, f)
    BY <2>5, Zenon
  <2>7. QED BY <2>6
<1>3. k \in T
  <2> HIDE DEF T
  <2>1. \A n \in 0..k : n \in T
    BY <1>1, <1>2, InductionUpTo
  <2>2. QED BY <2>1
<1>4. QED BY <1>3 DEF RunOf

\* What is kept of each start of a sequence.
KeepsUpto(g, seq, wanted) ==
  /\ g[0] = <<>>
  /\ \A n \in 1..Len(seq) :
       g[n] = Keep(g[n - 1], seq[n], wanted)

LEMMA KeepType ==
  ASSUME NEW E, NEW s \in Seq(E), NEW e \in E, NEW wanted PROVE Keep(s, e, wanted) \in Seq(E)
BY DEF Keep

LEMMA KeptIsRun ==
  ASSUME NEW E, NEW seq \in Seq(E), NEW wanted
  PROVE  \E g \in [0..Len(seq) -> Seq(E)] : KeepsUpto(g, seq, wanted) /\ Kept(seq, wanted) = g[Len(seq)]
<1> DEFINE k == Len(seq)
           step == [p \in (1..k) \X Seq(E) |-> Keep(p[2], seq[p[1]], wanted)]
           Def(g) == [i \in 0..k |-> IF i = 0 THEN <<>> ELSE Keep(g[i - 1], seq[i], wanted)]
<1>0. k \in Nat /\ <<>> \in Seq(E)
  OBVIOUS
<1>1. step \in [(1..k) \X Seq(E) -> Seq(E)]
  <2>1. ASSUME NEW p \in (1..k) \X Seq(E)
        PROVE  Keep(p[2], seq[p[1]], wanted) \in Seq(E)
    <3>1. seq[p[1]] \in E /\ p[2] \in Seq(E)
      <4>1. p[1] \in 1..k /\ p[2] \in Seq(E)
        OBVIOUS
      <4>2. QED BY <4>1, <1>0
    <3>2. QED BY <3>1, KeepType
  <2>2. QED BY <2>1
<1>2. PICK g \in [0..k -> Seq(E)] : g[0] = <<>> /\ \A n \in 1..k : g[n] = step[<<n, g[n - 1]>>]
  <2> DEFINE S == Seq(E)
             none == <<>>
  <2>1. none \in S /\ step \in [(1..k) \X S -> S]
    BY <1>0, <1>1
  <2>2. \E g : RunOf(g, S, k, step, none)
    <3>1. k \in Nat
      BY <1>0
    <3> HIDE DEF step, S, none, k
    <3>2. QED BY <3>1, <2>1, Iterates
  <2>3. QED BY <2>2 DEF RunOf
<1>3. \A n \in 1..k : g[n] = Keep(g[n - 1], seq[n], wanted)
  <2>1. ASSUME NEW n \in 1..k
        PROVE  g[n] = Keep(g[n - 1], seq[n], wanted)
    <3>1. n - 1 \in 0..k
      BY <1>0
    <3>2. g[n - 1] \in Seq(E)
      BY <3>1
    <3>3. <<n, g[n - 1]>> \in (1..k) \X Seq(E)
      BY <3>2
    <3>4. QED BY <1>2, <3>3
  <2>2. QED BY <2>1
<1>4. g = Def(g)
  <2> HIDE DEF step
  <2>1. ASSUME NEW n \in 0..k PROVE g[n] = Def(g)[n]
    BY <1>0, <1>2, <1>3
  <2>2. QED BY <2>1, <1>2
<1> DEFINE upto == CHOOSE h : h = Def(h)
<1>5. upto = Def(upto)
  <2> HIDE DEF Def
  <2>1. QED BY <1>4
<1>6. Kept(seq, wanted) = upto[k]
  BY DEF Kept
<1> HIDE DEF upto, step
<1>7. upto[0] = <<>> /\ \A n \in 1..k : upto[n] = Keep(upto[n - 1], seq[n], wanted)
  BY <1>0, <1>5
<1>8. \A n \in 0..k : upto[n] = g[n]
  <2> DEFINE T == {n \in 0..k : upto[n] = g[n]}
  <2>1. 0 \in T
    BY <1>0, <1>2, <1>7
  <2>2. ASSUME NEW n \in 1..k, n - 1 \in T PROVE n \in T
    <3>1. upto[n - 1] = g[n - 1] /\ n \in 0..k
      BY <1>0, <2>2
    <3>2. upto[n] = g[n]
      BY <3>1, <1>3, <1>7
    <3>3. QED BY <3>1, <3>2
  <2> HIDE DEF T
  <2>3. \A n \in 0..k : n \in T
    BY <1>0, <2>1, <2>2, StepsUpTo
  <2>4. QED BY <2>3 DEF T
<1>9. Kept(seq, wanted) = g[k]
  BY <1>0, <1>6, <1>8
<1>10. KeepsUpto(g, seq, wanted)
  BY <1>2, <1>3 DEF KeepsUpto
<1>11. QED BY <1>9, <1>10

\* One more item: kept when it is wanted.
LEMMA KeptNext ==
  ASSUME NEW E, NEW seq \in Seq(E), NEW wanted, NEW n \in 1..Len(seq)
  PROVE  Kept(SubSeq(seq, 1, n), wanted)
         = Keep(Kept(SubSeq(seq, 1, n - 1), wanted), seq[n], wanted)
<1> DEFINE start == SubSeq(seq, 1, n)
           less == SubSeq(seq, 1, n - 1)
<1>1. n \in Nat /\ n - 1 \in Nat /\ Len(seq) \in Nat
  OBVIOUS
<1>2. start \in Seq(E) /\ Len(start) = n /\ \A i \in 1..n : start[i] = seq[i]
  BY <1>1
<1>3. less \in Seq(E) /\ Len(less) = n - 1 /\ \A i \in 1..(n - 1) : less[i] = seq[i]
  BY <1>1
<1>4. PICK g \in [0..n -> Seq(E)] : KeepsUpto(g, start, wanted) /\ Kept(start, wanted) = g[n]
  <2> HIDE DEF start
  <2>1. \E g \in [0..Len(start) -> Seq(E)] :
           KeepsUpto(g, start, wanted) /\ Kept(start, wanted) = g[Len(start)]
    BY <1>2, KeptIsRun
  <2>2. QED BY <2>1, <1>2
<1>5. PICK h \in [0..(n - 1) -> Seq(E)] : KeepsUpto(h, less, wanted) /\ Kept(less, wanted) = h[n - 1]
  <2> HIDE DEF less
  <2>1. \E h \in [0..Len(less) -> Seq(E)] :
           KeepsUpto(h, less, wanted) /\ Kept(less, wanted) = h[Len(less)]
    BY <1>3, KeptIsRun
  <2>2. QED BY <2>1, <1>3
<1> HIDE DEF start, less
<1>6a. g[0] = <<>> /\ \A i \in 1..n : g[i] = Keep(g[i - 1], start[i], wanted)
  BY <1>2, <1>4 DEF KeepsUpto
<1>6b. h[0] = <<>> /\ \A i \in 1..(n - 1) : h[i] = Keep(h[i - 1], less[i], wanted)
  BY <1>3, <1>5 DEF KeepsUpto
<1>6. \A m \in 0..(n - 1) : g[m] = h[m]
  <2> DEFINE T == {m \in 0..(n - 1) : g[m] = h[m]}
  <2>1. 0 \in T
    BY <1>1, <1>6a, <1>6b
  <2>2. ASSUME NEW m \in 1..(n - 1), m - 1 \in T PROVE m \in T
    <3>1. m \in 1..n /\ g[m - 1] = h[m - 1]
      BY <1>1, <2>2
    <3>2. start[m] = less[m]
      BY <3>1, <1>2, <1>3
    <3>3. g[m] = Keep(g[m - 1], start[m], wanted) /\ h[m] = Keep(h[m - 1], less[m], wanted)
      BY <3>1, <1>6a, <1>6b
    <3>4. m \in 0..(n - 1)
      BY <1>1
    <3>5. QED BY <3>1, <3>2, <3>3, <3>4
  <2> HIDE DEF T
  <2>3. \A m \in 0..(n - 1) : m \in T
    BY <1>1, <2>1, <2>2, StepsUpTo
  <2>4. QED BY <2>3 DEF T
<1>7. g[n - 1] = h[n - 1]
  BY <1>1, <1>6
<1>8. g[n] = Keep(g[n - 1], start[n], wanted)
  <2>1. n \in 1..n
    BY <1>1
  <2>2. QED BY <2>1, <1>6a
<1>10. start[n] = seq[n]
  BY <1>1, <1>2
<1>11. QED BY <1>4, <1>5, <1>7, <1>8, <1>10 DEF start, less

LEMMA KeptNone ==
  ASSUME NEW wanted PROVE Kept(<<>>, wanted) = <<>>
<1> DEFINE none == <<>>
<1>1. none \in Seq({}) /\ Len(none) = 0
  OBVIOUS
<1>2. \E g \in [0..Len(none) -> Seq({})] : KeepsUpto(g, none, wanted) /\ Kept(none, wanted) = g[Len(none)]
  <2> HIDE DEF none
  <2>1. QED BY <1>1, KeptIsRun
<1>3. QED BY <1>1, <1>2 DEF KeepsUpto

LEMMA KeptType ==
  ASSUME NEW E, NEW seq \in Seq(E), NEW wanted PROVE Kept(seq, wanted) \in Seq(E)
<1>1. Len(seq) \in Nat
  OBVIOUS
<1>2. QED BY <1>1, KeptIsRun

-----------------------------------------------------------------------------
(* The records of an answer.                                               *)

LEMMA LargerOf ==
  ASSUME NEW a \in Int, NEW b \in Int
  PROVE  Max({a, b}) = IF a < b THEN b ELSE a
<1> DEFINE m == IF a < b THEN b ELSE a
<1>1. m \in {a, b} /\ \A y \in {a, b} : m >= y
  OBVIOUS
<1>2. \E x \in {a, b} : \A y \in {a, b} : x >= y
  BY <1>1, Zenon
<1>3. Max({a, b}) \in {a, b} /\ \A y \in {a, b} : Max({a, b}) >= y
  BY <1>2 DEF Max
<1>4. QED BY <1>3

LEMMA Division ==
  ASSUME NEW m \in Nat, NEW a \in Nat \ {0}
  PROVE  m \div a \in Nat /\ m % a \in 0..(a - 1) /\ m = a * (m \div a) + (m % a)
OBVIOUS

LEMMA AlignedFacts ==
  ASSUME NEW n \in Nat
  PROVE  Aligned(n) \in Nat /\ Aligned(n) >= n
<1> DEFINE a == Alignment
           m == n + a - 1
           q == m \div a
           r == m % a
           p == q * a
<1>1. a \in Nat \ {0}
  BY ScanAssumption
<1> HIDE DEF a
<1>2. m \in Nat
  BY <1>1
<1> HIDE DEF m
<1>3. q \in Nat /\ r \in 0..(a - 1) /\ m = a * q + r
  BY <1>1, <1>2, Division
<1> HIDE DEF q, r
<1>4. p \in Nat /\ p = a * q
  BY <1>1, <1>3, Z3
<1> HIDE DEF p
<1>5. p >= n
  BY <1>1, <1>3, <1>4 DEF m
<1>6. Aligned(n) = p
  BY DEF Aligned, p, q, m, a
<1>7. QED BY <1>4, <1>5, <1>6

\* An answer: records at some of its bytes.
IsBuffer(buf) ==
  /\ buf = [at |-> buf.at, size |-> buf.size]
  /\ buf.size \in Nat /\ DOMAIN buf.at \subseteq Nat
  /\ \A off \in DOMAIN buf.at : buf.at[off] \in Records
Scans(size) == [off : Nat, far : 0..size, out : Seq(WellFormed), done : BOOLEAN]
Begun == [off |-> 0, far |-> 0, out |-> <<>>, done |-> FALSE]

LEMMA RecordFacts ==
  ASSUME NEW r \in Records
  PROVE  /\ r.len \in Nat /\ r.nameOff \in Nat /\ r.nameLen \in Nat
         /\ r \in WellFormed => r.nameOff + r.nameLen <= r.len /\ r.nameOff >= Header
<1>1. r.len \in Nat /\ r.nameOff \in Nat /\ r.nameLen \in Nat
  BY ScanAssumption
<1>2. ASSUME r \in WellFormed PROVE r.nameOff + r.nameLen <= r.len /\ r.nameOff >= Header
  <2>1. ~NameIsBad(r)
    BY <1>2 DEF WellFormed
  <2>2. ~(r.nameOff < Header) /\ ~(r.nameOff + r.nameLen > r.len)
    BY <2>1 DEF NameIsBad
  <2>3. QED BY <2>2, <1>1, ScanAssumption
<1>3. QED BY <1>1, <1>2

\* No record leads the reader out of the answer.
LEMMA ReadFacts ==
  ASSUME NEW buf, IsBuffer(buf), NEW s \in Scans(buf.size),
         ~s.done, s.off + Header <= buf.size, s.off \in DOMAIN buf.at
  PROVE  LET r == buf.at[s.off]
             t == ReadRecord(buf, s)
         IN  /\ t \in Scans(buf.size)
             /\ r.len < Header \/ r.len > buf.size - s.off => t.done /\ t.out = s.out
             /\ r.len >= Header /\ r.len <= buf.size - s.off =>
                  /\ t.off = Aligned(s.off + r.len) /\ ~t.done
                  /\ t.out = Keep(s.out, r, WellFormed)
<1> DEFINE r == buf.at[s.off]
           far == s.off + IF r \in WellFormed THEN r.nameOff + r.nameLen ELSE Header
<1>1. /\ buf.size \in Nat /\ r \in Records
      /\ s.off \in Nat /\ s.far \in 0..buf.size /\ s.out \in Seq(WellFormed) /\ s.done \in BOOLEAN
  BY DEF IsBuffer, Scans
<1>2. Header \in Nat /\ Header >= 4
  BY ScanAssumption
<1>3. /\ r.len \in Nat /\ r.nameOff \in Nat /\ r.nameLen \in Nat
      /\ r \in WellFormed => r.nameOff + r.nameLen <= r.len /\ r.nameOff >= Header
  BY <1>1, RecordFacts
<1> HIDE DEF r
<1>4. CASE r.len < Header \/ r.len > buf.size - s.off
  <2>1. ReadRecord(buf, s) = [s EXCEPT !.done = TRUE, !.far = Max({s.far, s.off + 4})]
    BY <1>4 DEF ReadRecord, r
  <2>2. Max({s.far, s.off + 4}) \in 0..buf.size
    <3>1. s.far \in Int /\ s.off + 4 \in Int
      BY <1>1
    <3>2. Max({s.far, s.off + 4}) = IF s.far < s.off + 4 THEN s.off + 4 ELSE s.far
      BY <3>1, LargerOf
    <3>3. QED BY <3>2, <1>1, <1>2
  <2>3. ReadRecord(buf, s) \in Scans(buf.size)
    BY <2>1, <2>2, <1>1 DEF Scans
  <2>4. ReadRecord(buf, s).done /\ ReadRecord(buf, s).out = s.out
    BY <2>1, <1>1 DEF Scans
  <2>5. QED BY <2>3, <2>4, <1>1, <1>2, <1>3, <1>4 DEF r
<1>5. CASE r.len >= Header /\ r.len <= buf.size - s.off
  <2>0. ~(r.len < Header \/ r.len > buf.size - s.off)
    BY <1>1, <1>2, <1>3, <1>5
  <2> DEFINE t == [s EXCEPT !.off = NextOffset(s.off, r), !.far = Max({s.far, far}),
                            !.out = IF r \in WellFormed THEN Append(s.out, r) ELSE s.out]
  <2>1. ReadRecord(buf, s) = t
    BY <2>0 DEF ReadRecord, r
  <2>2. Max({s.far, far}) \in 0..buf.size
    <3>1. far \in Nat /\ far <= buf.size
      BY <1>1, <1>2, <1>3, <1>5
    <3> HIDE DEF far
    <3>2. Max({s.far, far}) = IF s.far < far THEN far ELSE s.far
      BY <3>1, <1>1, LargerOf
    <3>3. QED BY <3>1, <3>2, <1>1
  <2>3. NextOffset(s.off, r) \in Nat /\ NextOffset(s.off, r) = Aligned(s.off + r.len)
    <3>1. s.off + r.len \in Nat
      BY <1>1, <1>3
    <3>2. QED BY <3>1, AlignedFacts DEF NextOffset
  <2>4. (IF r \in WellFormed THEN Append(s.out, r) ELSE s.out) = Keep(s.out, r, WellFormed)
    BY DEF Keep
  <2>5. (IF r \in WellFormed THEN Append(s.out, r) ELSE s.out) \in Seq(WellFormed)
    BY <1>1
  <2>6. t \in Scans(buf.size)
    <3> HIDE DEF far
    <3>1. QED BY <2>2, <2>3, <2>5, <1>1 DEF Scans
  <2>7. t.off = NextOffset(s.off, r) /\ t.done = s.done /\ t.out = Keep(s.out, r, WellFormed)
    <3> HIDE DEF far
    <3>1. QED BY <2>4, <1>1 DEF Scans
  <2> HIDE DEF t
  <2>8. QED BY <2>0, <2>1, <2>3, <2>6, <2>7 DEF r
<1>6. QED BY <1>1, <1>2, <1>3, <1>4, <1>5

LEMMA NextFacts ==
  ASSUME NEW buf, IsBuffer(buf), NEW s \in Scans(buf.size)
  PROVE  NextRecord(buf, s) \in Scans(buf.size)
<1>1. /\ buf.size \in Nat /\ s.off \in Nat /\ s.far \in 0..buf.size /\ s.out \in Seq(WellFormed)
      /\ s.done \in BOOLEAN
  BY DEF IsBuffer, Scans
<1>2. Header \in Nat /\ Header >= 4
  BY ScanAssumption
<1>3. CASE s.done \/ s.off + Header > buf.size
  BY <1>3 DEF NextRecord
<1>4. CASE ~(s.done \/ s.off + Header > buf.size) /\ s.off \in DOMAIN buf.at
  <2>1. ~s.done /\ s.off + Header <= buf.size
    BY <1>1, <1>2, <1>4
  <2>2. ReadRecord(buf, s) \in Scans(buf.size)
    BY <2>1, <1>4, ReadFacts
  <2>3. QED BY <2>2, <1>4 DEF NextRecord
<1>5. CASE ~(s.done \/ s.off + Header > buf.size) /\ s.off \notin DOMAIN buf.at
  <2>1. NextRecord(buf, s) = [s EXCEPT !.done = TRUE, !.far = Max({s.far, s.off + 4})]
    BY <1>5 DEF NextRecord
  <2>2. Max({s.far, s.off + 4}) \in 0..buf.size
    <3>1. s.far \in Int /\ s.off + 4 \in Int
      BY <1>1
    <3>2. Max({s.far, s.off + 4}) = IF s.far < s.off + 4 THEN s.off + 4 ELSE s.far
      BY <3>1, LargerOf
    <3>3. s.off + Header <= buf.size
      BY <1>1, <1>2, <1>5
    <3>4. QED BY <3>2, <3>3, <1>1, <1>2
  <2>3. QED BY <2>1, <2>2, <1>1 DEF Scans
<1>6. QED BY <1>3, <1>4, <1>5

\* The reader's states, one for each record it looks at.
ReadsUpto(g, buf) ==
  /\ g \in [0..(MaxRecords + 1) -> Scans(buf.size)] /\ g[0] = Begun
  /\ \A n \in 1..(MaxRecords + 1) : g[n] = NextRecord(buf, g[n - 1])

LEMMA ReaderIsRun ==
  ASSUME NEW buf, IsBuffer(buf)
  PROVE  \E g : ReadsUpto(g, buf) /\ ForEachRecord(buf) = g[MaxRecords + 1]
<1> DEFINE k == MaxRecords + 1
           S == Scans(buf.size)
           step == [p \in (1..k) \X S |-> NextRecord(buf, p[2])]
           Def(g) == [i \in 0..k |-> IF i = 0 THEN Begun ELSE NextRecord(buf, g[i - 1])]
<1>1. k \in Nat
  BY ScanAssumption
<1>2. Begun \in S
  <2>1. <<>> \in Seq(WellFormed) /\ 0 \in 0..buf.size
    BY DEF IsBuffer
  <2>2. QED BY <2>1 DEF Begun, Scans
<1>3. step \in [(1..k) \X S -> S]
  <2> HIDE DEF S, k
  <2>1. ASSUME NEW p \in (1..k) \X S PROVE NextRecord(buf, p[2]) \in S
    BY NextFacts DEF S
  <2>2. QED BY <2>1
<1>4. PICK g : RunOf(g, S, k, step, Begun)
  <2> HIDE DEF S, k, step
  <2>1. QED BY <1>1, <1>2, <1>3, Iterates
<1> HIDE DEF S, k
<1>5. g \in [0..k -> S] /\ g[0] = Begun /\ \A n \in 1..k : g[n] = NextRecord(buf, g[n - 1])
  <2>1. ASSUME NEW n \in 1..k PROVE g[n] = NextRecord(buf, g[n - 1])
    <3>1. n - 1 \in 0..k
      BY <1>1
    <3>2. g[n - 1] \in S
      BY <3>1, <1>4 DEF RunOf
    <3>3. <<n, g[n - 1]>> \in (1..k) \X S
      BY <3>2
    <3>4. QED BY <1>4, <3>3 DEF RunOf
  <2>2. QED BY <2>1, <1>4 DEF RunOf
<1>6. g = Def(g)
  <2>1. ASSUME NEW n \in 0..k PROVE g[n] = Def(g)[n]
    BY <1>1, <1>5
  <2>2. QED BY <2>1, <1>5
<1> DEFINE walk == CHOOSE h : h = Def(h)
<1>7. walk = Def(walk)
  <2> HIDE DEF Def
  <2>1. QED BY <1>6
<1>8. ForEachRecord(buf) = walk[k]
  BY DEF ForEachRecord, k, Begun
<1> HIDE DEF walk, step
<1>9. walk[0] = Begun /\ \A n \in 1..k : walk[n] = NextRecord(buf, walk[n - 1])
  BY <1>1, <1>7
<1>10. \A n \in 0..k : walk[n] = g[n]
  <2> DEFINE T == {n \in 0..k : walk[n] = g[n]}
  <2>1. 0 \in T
    BY <1>1, <1>5, <1>9
  <2>2. ASSUME NEW n \in 1..k, n - 1 \in T PROVE n \in T
    <3>1. walk[n - 1] = g[n - 1] /\ n \in 0..k
      BY <1>1, <2>2
    <3>2. walk[n] = g[n]
      BY <3>1, <1>5, <1>9
    <3>3. QED BY <3>1, <3>2
  <2> HIDE DEF T
  <2>3. \A n \in 0..k : n \in T
    BY <1>1, <2>1, <2>2, StepsUpTo
  <2>4. QED BY <2>3 DEF T
<1>11. ForEachRecord(buf) = g[k]
  BY <1>1, <1>8, <1>10
<1>12. QED BY <1>5, <1>11 DEF ReadsUpto, k, S

\* Whatever the bytes of an answer are, for_each_record reads none outside it, and
\* what it delivers are records of version 2 whose name lies inside them: the fields
\* of parse_v2_record and the slice of the name cannot run off the buffer.
THEOREM ReadsStayInside ==
  ASSUME NEW buf, IsBuffer(buf)
  PROVE  /\ ForEachRecord(buf).far <= buf.size
         /\ ForEachRecord(buf).out \in Seq(WellFormed)
<1>1. PICK g : ReadsUpto(g, buf) /\ ForEachRecord(buf) = g[MaxRecords + 1]
  BY ReaderIsRun
<1>2. MaxRecords + 1 \in 0..(MaxRecords + 1)
  BY ScanAssumption
<1>3. ForEachRecord(buf) \in Scans(buf.size)
  BY <1>1, <1>2 DEF ReadsUpto
<1>4. QED BY <1>3 DEF Scans, IsBuffer

\* Where the kernel puts the records.
LEMMA OffsetFacts ==
  ASSUME NEW rs \in Seq(Records)
  PROVE  /\ Offsets(rs) \in [1..(Len(rs) + 1) -> Nat] /\ Offsets(rs)[1] = 0
         /\ \A i \in 1..Len(rs) : Offsets(rs)[i + 1] = Aligned(Offsets(rs)[i] + rs[i].len)
<1> DEFINE k == Len(rs)
           step == [p \in (1..k) \X Nat |-> Aligned(p[2] + rs[p[1]].len)]
           Def(g) == [i \in 0..k |-> IF i = 0 THEN 0 ELSE Aligned(g[i - 1] + rs[i].len)]
<1>1. k \in Nat
  OBVIOUS
<1>2. \A i \in 1..k : rs[i].len \in Nat
  BY RecordFacts
<1>3. step \in [(1..k) \X Nat -> Nat]
  <2> HIDE DEF k
  <2>1. ASSUME NEW p \in (1..k) \X Nat PROVE Aligned(p[2] + rs[p[1]].len) \in Nat
    <3>1. p[1] \in 1..k /\ p[2] \in Nat
      OBVIOUS
    <3>2. p[2] + rs[p[1]].len \in Nat
      BY <3>1, <1>2
    <3>3. QED BY <3>2, AlignedFacts
  <2>2. QED BY <2>1
<1>4. PICK g : RunOf(g, Nat, k, step, 0)
  <2>1. 0 \in Nat
    OBVIOUS
  <2> HIDE DEF k, step
  <2>2. QED BY <1>1, <1>3, <2>1, Iterates
<1> HIDE DEF k
<1>5. g \in [0..k -> Nat] /\ g[0] = 0 /\ \A n \in 1..k : g[n] = Aligned(g[n - 1] + rs[n].len)
  <2>1. ASSUME NEW n \in 1..k PROVE g[n] = Aligned(g[n - 1] + rs[n].len)
    <3>1. n - 1 \in 0..k
      BY <1>1
    <3>2. g[n - 1] \in Nat
      BY <3>1, <1>4 DEF RunOf
    <3>3. <<n, g[n - 1]>> \in (1..k) \X Nat
      BY <3>2
    <3>4. QED BY <1>4, <3>3 DEF RunOf
  <2>2. QED BY <2>1, <1>4 DEF RunOf
<1>6. g = Def(g)
  <2>1. ASSUME NEW n \in 0..k PROVE g[n] = Def(g)[n]
    BY <1>1, <1>5
  <2>2. QED BY <2>1, <1>5
<1> DEFINE at == CHOOSE h : h = Def(h)
<1>7. at = Def(at)
  <2> HIDE DEF Def
  <2>1. QED BY <1>6
<1>8. Offsets(rs) = [i \in 1..(k + 1) |-> at[i - 1]]
  BY DEF Offsets, k
<1> HIDE DEF at, step
<1>9. at[0] = 0 /\ \A n \in 1..k : at[n] = Aligned(at[n - 1] + rs[n].len)
  BY <1>1, <1>7
<1>10. \A n \in 0..k : at[n] = g[n]
  <2> DEFINE T == {n \in 0..k : at[n] = g[n]}
  <2>1. 0 \in T
    BY <1>1, <1>5, <1>9
  <2>2. ASSUME NEW n \in 1..k, n - 1 \in T PROVE n \in T
    <3>1. at[n - 1] = g[n - 1] /\ n \in 0..k
      BY <1>1, <2>2
    <3>2. at[n] = g[n]
      BY <3>1, <1>5, <1>9
    <3>3. QED BY <3>1, <3>2
  <2> HIDE DEF T
  <2>3. \A n \in 0..k : n \in T
    BY <1>1, <2>1, <2>2, StepsUpTo
  <2>4. QED BY <2>3 DEF T
<1>11. \A i \in 1..(k + 1) : Offsets(rs)[i] = g[i - 1] /\ g[i - 1] \in Nat
  BY <1>1, <1>5, <1>8, <1>10
<1>12. Offsets(rs) \in [1..(k + 1) -> Nat] /\ Offsets(rs)[1] = 0
  BY <1>1, <1>5, <1>8, <1>11
<1>13. ASSUME NEW i \in 1..k PROVE Offsets(rs)[i + 1] = Aligned(Offsets(rs)[i] + rs[i].len)
  <2>1. i + 1 \in 1..(k + 1) /\ i \in 1..(k + 1) /\ i + 1 - 1 = i
    BY <1>1
  <2>2. Offsets(rs)[i + 1] = g[i] /\ Offsets(rs)[i] = g[i - 1]
    BY <2>1, <1>11
  <2>3. QED BY <2>2, <1>5
<1>14. QED BY <1>12, <1>13 DEF k

\* Every record ends before any later one begins.
LEMMA OffsetsGrow ==
  ASSUME NEW rs \in Seq(Records)
  PROVE  \A i \in 1..Len(rs) : \A j \in 1..(Len(rs) + 1) :
           i < j => Offsets(rs)[i] + rs[i].len <= Offsets(rs)[j]
<1> DEFINE o == Offsets(rs)
           k == Len(rs)
<1>0. k \in Nat
  OBVIOUS
<1>1. o \in [1..(k + 1) -> Nat] /\ \A i \in 1..k : o[i + 1] = Aligned(o[i] + rs[i].len)
  BY OffsetFacts
<1>2. \A i \in 1..k : rs[i].len \in Nat
  BY RecordFacts
<1> HIDE DEF o, k
<1>3. ASSUME NEW i \in 1..k PROVE o[i] + rs[i].len <= o[i + 1] /\ o[i + 1] \in Nat /\ o[i] \in Nat
  <2>1. i \in 1..(k + 1) /\ i + 1 \in 1..(k + 1)
    BY <1>0
  <2>2. o[i] + rs[i].len \in Nat
    BY <2>1, <1>1, <1>2
  <2>3. QED BY <2>1, <2>2, <1>1, AlignedFacts
<1>4. ASSUME NEW i \in 1..k
      PROVE  \A j \in 1..(k + 1) : i < j => o[i] + rs[i].len <= o[j]
  <2> DEFINE T == {n \in 0..(k - i) : o[i] + rs[i].len <= o[i + 1 + n]}
  <2>0. k - i \in Nat /\ i + 1 + 0 = i + 1
    BY <1>0
  <2>1. 0 \in T
    BY <2>0, <1>3
  <2>2. ASSUME NEW n \in 1..(k - i), n - 1 \in T PROVE n \in T
    <3>1. i + n \in 1..k /\ i + 1 + (n - 1) = i + n /\ i + 1 + n = (i + n) + 1
      BY <1>0
    <3>2. o[i] + rs[i].len <= o[i + n]
      BY <2>2, <3>1
    <3>3. /\ o[i + n] + rs[i + n].len <= o[(i + n) + 1] /\ o[(i + n) + 1] \in Nat /\ o[i + n] \in Nat
          /\ rs[i + n].len \in Nat
      BY <3>1, <1>2, <1>3
    <3>4. o[i] + rs[i].len \in Nat
      BY <1>2, <1>3
    <3>5. o[i] + rs[i].len <= o[i + 1 + n]
      BY <3>1, <3>2, <3>3, <3>4
    <3>6. n \in 0..(k - i)
      BY <2>0
    <3>7. QED BY <3>5, <3>6
  <2> HIDE DEF T
  <2>3. \A n \in 0..(k - i) : n \in T
    BY <2>0, <2>1, <2>2, StepsUpTo
  <2>4. ASSUME NEW j \in 1..(k + 1), i < j PROVE o[i] + rs[i].len <= o[j]
    <3>1. j - i - 1 \in 0..(k - i) /\ i + 1 + (j - i - 1) = j
      BY <1>0, <2>4
    <3>2. QED BY <3>1, <2>3 DEF T
  <2>5. QED BY <2>4
<1>5. QED BY <1>4 DEF o, k

\* Let m records be good and the reader stop there: it delivers what is kept of them.
LEMMA ReaderDelivers ==
  ASSUME NEW buf, IsBuffer(buf), NEW rs \in Seq(Records), NEW m \in 0..Len(rs), m <= MaxRecords,
         \A i \in 1..m : /\ Offsets(rs)[i] \in DOMAIN buf.at /\ buf.at[Offsets(rs)[i]] = rs[i]
                         /\ rs[i].len >= Header /\ Offsets(rs)[i] + rs[i].len <= buf.size,
         \/ Offsets(rs)[m + 1] + Header > buf.size
         \/ /\ Offsets(rs)[m + 1] \in DOMAIN buf.at
            /\ \/ buf.at[Offsets(rs)[m + 1]].len < Header
               \/ buf.at[Offsets(rs)[m + 1]].len > buf.size - Offsets(rs)[m + 1]
  PROVE  ForEachRecord(buf).out = Kept(SubSeq(rs, 1, m), WellFormed)
<1> DEFINE k == MaxRecords + 1
           o == Offsets(rs)
           L == Len(rs)
           D(n) == Kept(SubSeq(rs, 1, n), WellFormed)
           S == Scans(buf.size)
<1>1. L \in Nat /\ k \in Nat /\ m \in Nat /\ m + 1 \in 1..k /\ buf.size \in Nat
  BY ScanAssumption DEF IsBuffer
<1>2. /\ o \in [1..(L + 1) -> Nat] /\ o[1] = 0
      /\ \A i \in 1..L : o[i + 1] = Aligned(o[i] + rs[i].len)
  BY OffsetFacts
<1>3. \A i \in 1..L : rs[i] \in Records /\ rs[i].len \in Nat
  BY RecordFacts
<1>4. Header \in Nat /\ Header >= 4
  BY ScanAssumption
<1>5. PICK g : ReadsUpto(g, buf) /\ ForEachRecord(buf) = g[k]
  BY ReaderIsRun
<1>6. g \in [0..k -> S] /\ g[0] = Begun /\ \A n \in 1..k : g[n] = NextRecord(buf, g[n - 1])
  BY <1>5 DEF ReadsUpto
<1>7. D(0) = <<>>
  <2>1. SubSeq(rs, 1, 0) = <<>>
    OBVIOUS
  <2>2. QED BY <2>1, KeptNone
<1>8. \A n \in 1..L : D(n) = Keep(D(n - 1), rs[n], WellFormed)
  BY KeptNext
<1>9. /\ \A i \in 1..m : /\ o[i] \in DOMAIN buf.at /\ buf.at[o[i]] = rs[i]
                         /\ rs[i].len >= Header /\ o[i] + rs[i].len <= buf.size
      /\ \/ o[m + 1] + Header > buf.size
         \/ /\ o[m + 1] \in DOMAIN buf.at
            /\ \/ buf.at[o[m + 1]].len < Header
               \/ buf.at[o[m + 1]].len > buf.size - o[m + 1]
  OBVIOUS
<1>10. m \in 0..L /\ m < k
  BY <1>1
<1> HIDE DEF k, o, L, D, S
<1>11. \A n \in 0..k : /\ g[n].off \in Nat /\ g[n].done \in BOOLEAN /\ g[n] \in S
  BY <1>6 DEF S, Scans
<1>12. \A n \in 0..m : ~g[n].done /\ g[n].off = o[n + 1] /\ g[n].out = D(n)
  <2> DEFINE T == {n \in 0..m : ~g[n].done /\ g[n].off = o[n + 1] /\ g[n].out = D(n)}
  <2>1. 0 \in T
    <3>1. g[0].off = 0 /\ ~g[0].done /\ g[0].out = <<>>
      BY <1>6 DEF Begun
    <3>2. 0 + 1 = 1 /\ 0 \in 0..m
      BY <1>1
    <3>3. QED BY <3>1, <3>2, <1>2, <1>7
  <2>2. ASSUME NEW n \in 1..m, n - 1 \in T PROVE n \in T
    <3> DEFINE s == g[n - 1]
               t == g[n]
    <3>1. n - 1 \in 0..k /\ n \in 1..k /\ n \in 1..L /\ n - 1 + 1 = n /\ n \in 1..(L + 1)
      BY <1>1, <1>10
    <3>2. ~s.done /\ s.off = o[n] /\ s.out = D(n - 1) /\ s \in S
      BY <2>2, <3>1, <1>11
    <3>3. t = NextRecord(buf, s)
      BY <3>1, <1>6
    <3>4. /\ o[n] \in DOMAIN buf.at /\ buf.at[o[n]] = rs[n] /\ o[n] \in Nat /\ rs[n].len \in Nat
          /\ rs[n].len >= Header /\ o[n] + rs[n].len <= buf.size
      BY <3>1, <1>2, <1>3, <1>9
    <3>5. o[n] + Header <= buf.size /\ rs[n].len <= buf.size - o[n] /\ ~(o[n] + Header > buf.size)
      BY <3>4, <1>1, <1>4
    <3> HIDE DEF s, t
    <3>6. t = ReadRecord(buf, s)
      BY <3>2, <3>3, <3>4, <3>5 DEF NextRecord
    <3>7. /\ ReadRecord(buf, s).off = Aligned(o[n] + rs[n].len) /\ ~ReadRecord(buf, s).done
          /\ ReadRecord(buf, s).out = Keep(s.out, rs[n], WellFormed)
      BY <3>2, <3>4, <3>5, ReadFacts DEF S
    <3>8. ~t.done /\ t.off = o[n + 1] /\ t.out = D(n)
      BY <3>1, <3>2, <3>6, <3>7, <1>2, <1>8
    <3>9. n \in 0..m
      BY <1>1
    <3>10. QED BY <3>8, <3>9 DEF t
  <2> HIDE DEF T
  <2>3. \A n \in 0..m : n \in T
    BY <1>1, <2>1, <2>2, StepsUpTo
  <2>4. QED BY <2>3 DEF T
<1>13. \A n \in 0..k : m < n => /\ g[n].done \/ g[n].off + Header > buf.size
                                /\ g[n].out = D(m)
  <2> DEFINE T == {n \in 0..k : m < n => /\ g[n].done \/ g[n].off + Header > buf.size
                                         /\ g[n].out = D(m)}
  <2>1. 0 \in T
    BY <1>1
  <2>2. ASSUME NEW n \in 1..k, n - 1 \in T PROVE n \in T
    <3> DEFINE s == g[n - 1]
               t == g[n]
    <3>1. n - 1 \in 0..k /\ n \in 0..k /\ s \in S
      BY <1>1, <1>11
    <3>2. t = NextRecord(buf, s)
      BY <1>6
    <3>3. CASE n <= m
      BY <3>1, <3>3, <1>1
    <3>4. CASE n > m + 1
      <4>1. m < n - 1
        BY <3>4, <1>1
      <4>2. (s.done \/ s.off + Header > buf.size) /\ s.out = D(m)
        BY <2>2, <4>1
      <4> HIDE DEF s, t
      <4>3. t = s
        BY <3>2, <4>2 DEF NextRecord
      <4>4. QED BY <3>1, <4>2, <4>3 DEF t
    <3>5. CASE n = m + 1
      <4>1. n - 1 = m /\ m \in 0..m
        BY <3>5, <1>1
      <4>2. ~s.done /\ s.off = o[m + 1] /\ s.out = D(m)
        BY <4>1, <1>12
      <4>3. o[m + 1] \in Nat
        BY <1>2, <1>1, <1>10
      <4> HIDE DEF s, t
      <4>4. CASE o[m + 1] + Header > buf.size
        <5>1. t = s
          BY <3>2, <4>2, <4>4 DEF NextRecord
        <5>2. QED BY <3>1, <4>2, <4>4, <5>1 DEF t
      <4>5. CASE ~(o[m + 1] + Header > buf.size)
        <5>1. /\ o[m + 1] \in DOMAIN buf.at
              /\ \/ buf.at[o[m + 1]].len < Header
                 \/ buf.at[o[m + 1]].len > buf.size - o[m + 1]
          BY <4>5, <1>9
        <5>2. t = ReadRecord(buf, s)
          BY <3>2, <4>2, <4>5, <5>1 DEF NextRecord
        <5>3. s.off + Header <= buf.size
          BY <4>2, <4>3, <4>5, <1>1, <1>4
        <5>4. ReadRecord(buf, s).done /\ ReadRecord(buf, s).out = s.out
          BY <3>1, <4>2, <5>1, <5>3, ReadFacts DEF S
        <5>5. t.done /\ t.out = D(m)
          BY <4>2, <5>2, <5>4
        <5>6. QED BY <3>1, <5>5 DEF t
      <4>6. QED BY <4>4, <4>5
    <3>6. QED BY <3>3, <3>4, <3>5, <1>1
  <2> HIDE DEF T
  <2>3. \A n \in 0..k : n \in T
    BY <1>1, <2>1, <2>2, StepsUpTo
  <2>4. QED BY <2>3 DEF T
<1>14. g[k].out = D(m)
  BY <1>1, <1>10, <1>13
<1>15. QED BY <1>5, <1>14 DEF D

LEMMA MinOf ==
  ASSUME NEW T \in SUBSET Nat, T # {}
  PROVE  Min(T) \in T /\ \A y \in T : Min(T) <= y
<1>1. \E x \in T : \A y \in T : x <= y
  BY LeastElement
<1>2. QED BY <1>1 DEF Min

\* What the kernel packs is an answer; a record that only good ones precede is found
\* where it was put, and all of it is inside.
LEMMA PackedFacts ==
  ASSUME NEW rs \in Seq(Records)
  PROVE  /\ IsBuffer(Packed(rs))
         /\ \A i \in 1..Len(rs) : Offsets(rs)[i] + rs[i].len <= Packed(rs).size
         /\ \A i \in 1..Len(rs) :
              (\A j \in 1..(i - 1) : rs[j].len >= Header) =>
                Offsets(rs)[i] \in DOMAIN Packed(rs).at /\ Packed(rs).at[Offsets(rs)[i]] = rs[i]
         /\ rs # <<>> => Packed(rs).size = Offsets(rs)[Len(rs)] + rs[Len(rs)].len
         /\ Offsets(rs)[Len(rs) + 1] >= Packed(rs).size
<1> DEFINE o == Offsets(rs)
           L == Len(rs)
           Here(off, i) == o[i] = off /\ \A j \in 1..(i - 1) : o[j] # off
           at == [off \in {o[i] : i \in 1..L} |-> rs[CHOOSE i \in 1..L : Here(off, i)]]
           size == IF rs = <<>> THEN 0 ELSE o[L] + rs[L].len
           buf == Packed(rs)
<1>0. L \in Nat /\ DOMAIN rs = 1..L /\ (rs = <<>> <=> L = 0)
  OBVIOUS
<1>1. /\ o \in [1..(L + 1) -> Nat] /\ o[1] = 0
      /\ \A i \in 1..L : o[i + 1] = Aligned(o[i] + rs[i].len)
  BY OffsetFacts
<1>2. \A i \in 1..L : \A j \in 1..(L + 1) : i < j => o[i] + rs[i].len <= o[j]
  BY OffsetsGrow
<1>3. \A i \in 1..L : rs[i] \in Records /\ rs[i].len \in Nat /\ o[i] \in Nat
  <2>1. \A i \in 1..L : rs[i] \in Records
    OBVIOUS
  <2>2. \A i \in 1..L : i \in 1..(L + 1)
    BY <1>0
  <2> HIDE DEF o, L
  <2>3. QED BY <2>1, <2>2, <1>1, RecordFacts
<1>4. buf.at = at /\ buf.size = size /\ buf = [at |-> at, size |-> size]
  BY <1>0 DEF Packed
<1> HIDE DEF o, L, buf
<1>5. ASSUME NEW off \in {o[i] : i \in 1..L} PROVE \E i \in 1..L : Here(off, i)
  <2> DEFINE T == {i \in 1..L : o[i] = off}
  <2>1. T \in SUBSET Nat /\ T # {}
    BY <1>0, <1>5
  <2> HIDE DEF T
  <2>2. PICK i \in T : \A j \in T : i <= j
    BY <2>1, LeastElement
  <2>3. i \in 1..L /\ o[i] = off
    BY <2>2 DEF T
  <2>4. ASSUME NEW j \in 1..(i - 1), o[j] = off PROVE FALSE
    <3>1. j \in 1..L /\ j < i
      BY <1>0, <2>3
    <3>2. j \in T
      BY <3>1, <2>4 DEF T
    <3>3. QED BY <3>1, <3>2, <2>2, <2>3, <1>0
  <2>5. QED BY <2>3, <2>4
<1>6. ASSUME NEW off \in {o[i] : i \in 1..L} PROVE off \in Nat /\ at[off] \in Records
  <2> DEFINE c == CHOOSE i \in 1..L : Here(off, i)
  <2>1. c \in 1..L
    <3> HIDE DEF Here
    <3>1. QED BY <1>5
  <2>2. at[off] = rs[c]
    OBVIOUS
  <2> HIDE DEF c, at
  <2>3. QED BY <2>1, <2>2, <1>3
<1>7. size \in Nat
  <2>1. CASE L = 0
    BY <2>1, <1>0
  <2>2. CASE L # 0
    <3>1. L \in 1..L
      BY <2>2, <1>0
    <3>2. o[L] \in Nat /\ rs[L].len \in Nat
      BY <3>1, <1>3
    <3>3. QED BY <3>2, <2>2, <1>0
  <2>3. QED BY <2>1, <2>2
<1>8. DOMAIN at = {o[i] : i \in 1..L}
  OBVIOUS
<1> HIDE DEF at, size
<1>9. IsBuffer(buf)
  BY <1>4, <1>6, <1>7, <1>8 DEF IsBuffer
<1>10. rs # <<>> => size = o[L] + rs[L].len
  BY DEF size
<1>11. ASSUME NEW i \in 1..L PROVE o[i] + rs[i].len <= size
  <2>1. L \in 1..L /\ L \in 1..(L + 1) /\ rs # <<>>
    BY <1>0
  <2>2. CASE i = L
    <3>1. o[L] + rs[L].len \in Nat
      BY <2>1, <1>3
    <3>2. QED BY <3>1, <2>1, <2>2, <1>10
  <2>3. CASE i < L
    <3>1. o[i] + rs[i].len <= o[L]
      BY <2>1, <2>3, <1>2
    <3>2. o[L] \in Nat /\ rs[L].len \in Nat /\ o[i] \in Nat /\ rs[i].len \in Nat
      BY <2>1, <1>3
    <3>3. QED BY <3>1, <3>2, <2>1, <1>10
  <2>4. QED BY <2>2, <2>3, <1>0
<1>12. ASSUME NEW i \in 1..L, \A j \in 1..(i - 1) : rs[j].len >= Header
       PROVE  o[i] \in DOMAIN at /\ at[o[i]] = rs[i]
  <2>1. o[i] \in {o[n] : n \in 1..L}
    OBVIOUS
  <2> DEFINE c == CHOOSE n \in 1..L : Here(o[i], n)
  <2>2. c \in 1..L /\ Here(o[i], c)
    <3>1. \E n \in 1..L : Here(o[i], n)
      BY <2>1, <1>5
    <3> HIDE DEF Here
    <3>2. QED BY <3>1
  <2>3. at[o[i]] = rs[c]
    BY <2>1 DEF at
  <2> HIDE DEF c
  <2>4. c = i
    <3>1. CASE c < i
      <4>1. c \in 1..(i - 1) /\ i \in 1..(L + 1)
        BY <3>1, <2>2, <1>0
      <4>2. rs[c].len >= Header /\ o[c] + rs[c].len <= o[i]
        BY <4>1, <3>1, <2>2, <1>2, <1>12
      <4>3. o[c] \in Nat /\ rs[c].len \in Nat /\ o[i] \in Nat /\ o[c] = o[i]
        BY <2>2, <1>3
      <4>4. Header \in Nat /\ Header >= 4
        BY ScanAssumption
      <4>5. FALSE
        BY <4>2, <4>3, <4>4
      <4>6. QED BY <4>5
    <3>2. CASE c > i
      <4>1. i \in 1..(c - 1)
        BY <3>2, <2>2, <1>0
      <4>2. o[i] # o[i]
        BY <4>1, <2>2
      <4>3. QED BY <4>2
    <3>3. QED BY <3>1, <3>2, <2>2, <1>0
  <2>5. QED BY <2>1, <2>3, <2>4, <1>8
<1>13. o[L + 1] >= size
  <2>1. CASE L = 0
    BY <2>1, <1>0, <1>1 DEF size
  <2>2. CASE L # 0
    <3>1. L \in 1..L /\ L + 1 \in 1..(L + 1) /\ L < L + 1 /\ rs # <<>>
      BY <2>2, <1>0
    <3>2. o[L] + rs[L].len <= o[L + 1]
      BY <3>1, <1>2
    <3>3. o[L + 1] \in Nat /\ o[L] \in Nat /\ rs[L].len \in Nat
      BY <3>1, <1>1, <1>3
    <3>4. QED BY <3>1, <3>2, <3>3, <1>10
  <2>3. QED BY <2>1, <2>2
<1>14. QED BY <1>4, <1>9, <1>10, <1>11, <1>12, <1>13 DEF o, L, buf

\* Whatever records the kernel packs into an answer, every well-formed one before the
\* first bad length is delivered, once and in order, and the loss of the last bytes of
\* an answer costs the record they are of alone.
THEOREM PackedRecordsAreRead == RecordsAreRead
<1> SUFFICES ASSUME NEW rs \in RecordSeqs
    PROVE  LET buf == Packed(rs)
               walk == ForEachRecord(buf)
               stops == {i \in DOMAIN rs : rs[i].len < Header}
               upto == IF stops = {} THEN rs ELSE SubSeq(rs, 1, Min(stops) - 1)
           IN  /\ walk.out = Kept(upto, WellFormed)
               /\ walk.far <= buf.size
               /\ rs # <<>> /\ stops = {} =>
                    LET cut == [buf EXCEPT !.size = @ - 1]
                    IN  /\ ForEachRecord(cut).out = Kept(SubSeq(rs, 1, Len(rs) - 1), WellFormed)
                        /\ ForEachRecord(cut).far <= cut.size
  BY DEF RecordsAreRead
<1> DEFINE buf == Packed(rs)
           L == Len(rs)
           o == Offsets(rs)
           stops == {i \in DOMAIN rs : rs[i].len < Header}
           upto == IF stops = {} THEN rs ELSE SubSeq(rs, 1, Min(stops) - 1)
           cut == [buf EXCEPT !.size = buf.size - 1]
<1>1. rs \in Seq(Records) /\ L \in Nat /\ L <= MaxRecords /\ DOMAIN rs = 1..L
  <2>1. PICK n \in 0..MaxRecords : rs \in [1..n -> Records]
    BY DEF RecordSeqs
  <2>2. n \in Nat /\ n <= MaxRecords
    BY ScanAssumption
  <2>3. rs \in Seq(Records) /\ Len(rs) = n
    BY <2>1, <2>2
  <2>4. QED BY <2>1, <2>2, <2>3
<1>2. Header \in Nat /\ Header >= 4 /\ MaxRecords \in Nat
  BY ScanAssumption
<1>3. /\ IsBuffer(buf)
      /\ \A i \in 1..L : o[i] + rs[i].len <= buf.size
      /\ \A i \in 1..L : (\A j \in 1..(i - 1) : rs[j].len >= Header) =>
                            o[i] \in DOMAIN buf.at /\ buf.at[o[i]] = rs[i]
      /\ rs # <<>> => buf.size = o[L] + rs[L].len
      /\ o[L + 1] >= buf.size
  BY <1>1, PackedFacts
<1>4. /\ o \in [1..(L + 1) -> Nat] /\ o[1] = 0
  BY <1>1, OffsetFacts
<1>5. \A i \in 1..L : rs[i] \in Records /\ rs[i].len \in Nat /\ o[i] \in Nat
  <2>1. \A i \in 1..L : rs[i] \in Records
    BY <1>1
  <2>2. \A i \in 1..L : i \in 1..(L + 1)
    BY <1>1
  <2> HIDE DEF o, L
  <2>3. QED BY <2>1, <2>2, <1>4, RecordFacts
<1>6. buf.size \in Nat /\ buf = [at |-> buf.at, size |-> buf.size]
  BY <1>3 DEF IsBuffer
<1>7. ForEachRecord(buf).far <= buf.size
  BY <1>3, ReadsStayInside
<1> HIDE DEF buf, o
<1>8. ForEachRecord(buf).out = Kept(upto, WellFormed)
  <2>1. CASE stops = {}
    <3>1. \A i \in 1..L : rs[i].len >= Header
      BY <2>1, <1>1, <1>2, <1>5
    <3>2. \A i \in 1..L : o[i] \in DOMAIN buf.at /\ buf.at[o[i]] = rs[i]
      BY <3>1, <1>1, <1>3
    <3>3. o[L + 1] + Header > buf.size
      <4>1. o[L + 1] \in Nat
        BY <1>1, <1>4
      <4>2. QED BY <4>1, <1>2, <1>3, <1>6
    <3>4. ForEachRecord(buf).out = Kept(SubSeq(rs, 1, L), WellFormed)
      BY <3>1, <3>2, <3>3, <1>1, <1>3, ReaderDelivers DEF o
    <3>5. SubSeq(rs, 1, L) = rs
      BY <1>1
    <3>6. QED BY <3>4, <3>5, <2>1
  <2>2. CASE stops # {}
    <3> DEFINE k == Min(stops)
    <3>1. stops \in SUBSET Nat
      BY <1>1
    <3>2. k \in stops /\ \A y \in stops : k <= y
      <4> HIDE DEF stops
      <4>1. QED BY <3>1, <2>2, MinOf
    <3> HIDE DEF k
    <3>3. k \in 1..L /\ rs[k].len < Header
      BY <3>2, <1>1
    <3>4. k \in Nat /\ k - 1 \in 0..L /\ k - 1 <= MaxRecords /\ k - 1 + 1 = k /\ \A i \in 1..(k - 1) : i \in 1..L
      BY <3>3, <1>1, <1>2
    <3>5. ASSUME NEW i \in 1..(k - 1) PROVE rs[i].len >= Header
      <4>1. i \in 1..L /\ i \notin stops
        BY <3>2, <3>4
      <4>2. QED BY <4>1, <1>1, <1>2, <1>5
    <3>6. \A i \in 1..(k - 1) : o[i] \in DOMAIN buf.at /\ buf.at[o[i]] = rs[i]
      <4>1. ASSUME NEW i \in 1..(k - 1), NEW j \in 1..(i - 1) PROVE j \in 1..(k - 1)
        BY <3>4
      <4>2. QED BY <4>1, <3>4, <3>5, <1>3
    <3>7. o[k] \in DOMAIN buf.at /\ buf.at[o[k]].len < Header
      BY <3>3, <3>5, <1>3
    <3>8. \A i \in 1..(k - 1) : o[i] + rs[i].len <= buf.size
      BY <3>4, <1>3
    <3> DEFINE m == k - 1
    <3>9. /\ m \in 0..L /\ m <= MaxRecords
          /\ \A i \in 1..m : /\ o[i] \in DOMAIN buf.at /\ buf.at[o[i]] = rs[i]
                             /\ rs[i].len >= Header /\ o[i] + rs[i].len <= buf.size
          /\ o[m + 1] \in DOMAIN buf.at /\ buf.at[o[m + 1]].len < Header
      BY <3>4, <3>5, <3>6, <3>7, <3>8
    <3> HIDE DEF m
    <3>10. ForEachRecord(buf).out = Kept(SubSeq(rs, 1, m), WellFormed)
      BY <3>9, <1>1, <1>3, ReaderDelivers DEF o
    <3>11. QED BY <3>10, <2>2 DEF m, k
  <2>3. QED BY <2>1, <2>2
<1>9. ASSUME rs # <<>>, stops = {}
      PROVE  /\ ForEachRecord(cut).out = Kept(SubSeq(rs, 1, L - 1), WellFormed)
             /\ ForEachRecord(cut).far <= cut.size
  <2>1. \A i \in 1..L : rs[i].len >= Header
    BY <1>1, <1>2, <1>5, <1>9
  <2>2. \A i \in 1..L : o[i] \in DOMAIN buf.at /\ buf.at[o[i]] = rs[i]
    BY <2>1, <1>1, <1>3
  <2>3. L \in 1..L /\ L - 1 \in 0..L /\ L - 1 <= MaxRecords /\ L - 1 + 1 = L
    BY <1>1, <1>2, <1>9
  <2>4. cut.at = buf.at /\ cut.size = buf.size - 1 /\ cut = [at |-> cut.at, size |-> cut.size]
    BY <1>6
  <2>5. buf.size = o[L] + rs[L].len /\ rs[L].len >= Header /\ o[L] \in Nat /\ rs[L].len \in Nat
    BY <2>1, <2>3, <1>3, <1>5, <1>9
  <2>6. cut.size \in Nat
    BY <2>4, <2>5, <1>2
  <2>7. IsBuffer(cut)
    BY <2>4, <2>6, <1>3 DEF IsBuffer
  <2>8. rs[L].len > cut.size - o[L]
    BY <2>4, <2>5
  <2>9. ASSUME NEW i \in 1..(L - 1) PROVE o[i] + rs[i].len <= cut.size /\ i \in 1..L
    <3>1. i \in 1..L /\ L \in 1..(L + 1) /\ i < L
      BY <1>1, <2>3
    <3>2. o[i] + rs[i].len <= o[L]
      BY <3>1, <1>1, OffsetsGrow DEF o
    <3>3. o[i] + rs[i].len \in Nat
      BY <3>1, <1>5
    <3>4. QED BY <3>1, <3>2, <3>3, <2>4, <2>5, <1>2
  <2> DEFINE m == L - 1
  <2>10. /\ m \in 0..L /\ m <= MaxRecords
         /\ \A i \in 1..m : /\ o[i] \in DOMAIN cut.at /\ cut.at[o[i]] = rs[i]
                            /\ rs[i].len >= Header /\ o[i] + rs[i].len <= cut.size
         /\ o[m + 1] \in DOMAIN cut.at /\ cut.at[o[m + 1]].len > cut.size - o[m + 1]
    BY <2>1, <2>2, <2>3, <2>4, <2>8, <2>9
  <2> HIDE DEF m, cut
  <2>11. ForEachRecord(cut).out = Kept(SubSeq(rs, 1, m), WellFormed)
    BY <2>7, <2>10, <1>1, ReaderDelivers DEF o
  <2>12. ForEachRecord(cut).far <= cut.size
    BY <2>7, ReadsStayInside
  <2>13. QED BY <2>11, <2>12 DEF m
<1>10. QED BY <1>7, <1>8, <1>9 DEF buf

-----------------------------------------------------------------------------
(* The walk of a tree.                                                     *)

\* A finite set is listed once.
LEMMA ListedOnce ==
  ASSUME NEW S, IsFiniteSet(S)
  PROVE  /\ SetToSeq(S) \in Seq(S)
         /\ \A i, j \in 1..Len(SetToSeq(S)) : SetToSeq(S)[i] = SetToSeq(S)[j] => i = j
         /\ \A x \in S : \E i \in 1..Len(SetToSeq(S)) : SetToSeq(S)[i] = x
<1> DEFINE c == Cardinality(S)
           f == SetToSeq(S)
<1>1. c \in Nat /\ ExistsBijection(1..c, S)
  BY FS_CardinalityType
<1>2. \E g \in [1..c -> S] : IsInjective(g)
  BY <1>1 DEF ExistsBijection, Bijection, Injection
<1>3. f \in [1..c -> S] /\ IsInjective(f)
  BY <1>2 DEF SetToSeq
<1>4. f \in Injection(1..c, S)
  BY <1>3 DEF Injection
<1>5. IsFiniteSet(1..c) /\ Cardinality(1..c) = c
  BY <1>1, FS_Interval
<1>6. f \in Surjection(1..c, S)
  <2> HIDE DEF f, c
  <2>1. Cardinality(1..c) = Cardinality(S)
    BY <1>5 DEF c
  <2>2. QED BY <2>1, <1>4, FS_Injection
<1> HIDE DEF f, c
<1>7. f \in Seq(S) /\ Len(f) = c
  BY <1>1, <1>3
<1>8. \A i, j \in 1..c : f[i] = f[j] => i = j
  BY <1>3 DEF IsInjective
<1>9. \A x \in S : \E i \in 1..c : f[i] = x
  BY <1>6 DEF Surjection
<1>10. QED BY <1>7, <1>8, <1>9 DEF f

Entry == [frn : Nat, parent : Nat, node : Nodes]
Item == [node : {0} \cup Nodes, frn : Nat]
Walks == [next : Nat, added : Seq(Entry), stack : Seq(Item)]

\* The directory an item of the stack stands for, under the number it was given.
Known(t, added, item) ==
  \/ item.node = 0 /\ item.frn = 0
  \/ /\ item.node \in Nodes /\ t.kind[item.node] = "dir"
     /\ \E j \in 1..Len(added) : added[j].node = item.node /\ added[j].frn = item.frn
Placed(t, added, i) ==
  \/ t.parent[added[i].node] = 0 /\ added[i].parent = 0
  \/ \E j \in 1..(i - 1) : /\ added[j].node = t.parent[added[i].node]
                           /\ added[j].frn = added[i].parent

EntriesInv(t, added, N) ==
  /\ \A i \in 1..Len(added) : added[i].frn = 99 + i
  /\ \A i \in 1..Len(added) : added[i].node \in N
  /\ \A n \in N : \E i \in 1..Len(added) : added[i].node = n
  /\ \A i, j \in 1..Len(added) : added[i].node = added[j].node => i = j
  /\ \A i \in 1..Len(added) : Placed(t, added, i)
StackInv(t, added, stack, R) ==
  /\ \A i, j \in 1..Len(stack) : stack[i].node = stack[j].node => i = j
  /\ \A i \in 1..Len(stack) : Known(t, added, stack[i]) /\ stack[i].node \notin R
\* The walk has entered N and read the directories R; the others it entered wait.
Dirs(t, N) == {0} \cup {n \in N : t.kind[n] = "dir"}
WalkInv(t, w, R, N) ==
  /\ w \in Walks /\ w.next = 100 + Len(w.added)
  /\ EntriesInv(t, w.added, N)
  /\ StackInv(t, w.added, w.stack, R)
  /\ N \subseteq Nodes /\ R \subseteq Dirs(t, N)
  /\ \A d \in Dirs(t, N) \ R : \E i \in 1..Len(w.stack) : w.stack[i].node = d

LEMMA TreeFacts ==
  ASSUME NEW t \in Trees
  PROVE  /\ \A n \in Nodes : /\ t.parent[n] \in {0} \cup Nodes /\ t.parent[n] < n
                             /\ t.kind[n] \in {"file", "dir", "link"}
                             /\ t.readable[n] \in {"yes", "denied", "no_metadata"}
         /\ 0 \notin Nodes /\ Nodes \subseteq Nat /\ IsFiniteSet(Nodes)
BY ScanAssumption DEF Trees

\* An entry is added under the directory that lists it, and waits if it is one.
LEMMA AddEntryFacts ==
  ASSUME NEW t \in Trees, NEW w, NEW R, NEW N, WalkInv(t, w, R, N),
         NEW dir \in Item, Known(t, w.added, dir),
         NEW n \in Nodes \ N, t.parent[n] = dir.node
  PROVE  LET v == AddEntry(t, w, dir, n)
         IN  /\ WalkInv(t, v, R, N \cup {n})
             /\ Known(t, v.added, dir)
<1> DEFINE v == AddEntry(t, w, dir, n)
           e == [frn |-> w.next, parent |-> dir.frn, node |-> n]
           it == [node |-> n, frn |-> w.next]
           A == w.added
           B == Append(A, e)
           L == Len(A)
           P == w.stack
           K == Len(P)
           Q == IF Enters(t, n) THEN Append(P, it) ELSE P
           M == N \cup {n}
<1>1. /\ w.next \in Nat /\ A \in Seq(Entry) /\ P \in Seq(Item) /\ L \in Nat /\ K \in Nat
      /\ w.next = 100 + L
  BY DEF WalkInv, Walks
<1>2. e \in Entry /\ it \in Item /\ e.frn = w.next /\ e.parent = dir.frn /\ e.node = n
      /\ it.node = n /\ it.frn = w.next /\ dir.node \in {0} \cup Nodes /\ dir.frn \in Nat
  BY <1>1 DEF Entry, Item
<1> HIDE DEF e, it
<1>3. B \in Seq(Entry) /\ Len(B) = L + 1 /\ B[L + 1] = e /\ \A i \in 1..L : B[i] = A[i]
  <2> HIDE DEF A
  <2>1. QED BY <1>1, <1>2
<1>4. Q \in Seq(Item)
  <2> HIDE DEF P
  <2>1. QED BY <1>1, <1>2
<1>5. v.added = B /\ v.stack = Q /\ v.next = w.next + 1 /\ v = [next |-> w.next + 1, added |-> B, stack |-> Q]
  BY DEF AddEntry, e, it
<1>6. EntriesInv(t, A, N) /\ StackInv(t, A, P, R) /\ N \subseteq Nodes /\ R \subseteq Dirs(t, N)
      /\ \A d \in Dirs(t, N) \ R : \E i \in 1..K : P[i].node = d
  BY DEF WalkInv
<1>7. 0 \notin Nodes /\ t.kind[n] \in {"file", "dir", "link"}
  BY TreeFacts
<1>7a. Known(t, A, dir)
  OBVIOUS
<1> HIDE DEF v, A, B, L, P, K, Q
<1>7b. L = Len(A) /\ K = Len(P)
  BY DEF L, K
<1>8. ASSUME NEW x, Known(t, A, x) PROVE Known(t, B, x)
  <2>1. CASE x.node = 0 /\ x.frn = 0
    BY <2>1 DEF Known
  <2>2. CASE ~(x.node = 0 /\ x.frn = 0)
    <3>1. PICK j \in 1..L : A[j].node = x.node /\ A[j].frn = x.frn
      BY <1>8, <2>2, <1>7b DEF Known
    <3>2. j \in 1..Len(B) /\ B[j] = A[j]
      BY <1>1, <1>3
    <3>3. x.node \in Nodes /\ t.kind[x.node] = "dir"
      BY <1>8, <2>2 DEF Known
    <3>4. QED BY <3>1, <3>2, <3>3 DEF Known
  <2>3. QED BY <2>1, <2>2
<1>9. EntriesInv(t, B, M)
  <2>1. \A i \in 1..L : A[i].frn = 99 + i /\ A[i].node \in N
    BY <1>6, <1>7b DEF EntriesInv
  <2>2. \A i \in 1..Len(B) : B[i].frn = 99 + i
    <3>1. ASSUME NEW i \in 1..(L + 1) PROVE B[i].frn = 99 + i
      <4>1. CASE i = L + 1
        BY <4>1, <1>1, <1>2, <1>3
      <4>2. CASE i \in 1..L
        BY <4>2, <2>1, <1>3
      <4>3. QED BY <4>1, <4>2, <1>1
    <3>2. QED BY <3>1, <1>3
  <2>3. \A i \in 1..Len(B) : B[i].node \in M
    <3>1. ASSUME NEW i \in 1..(L + 1) PROVE B[i].node \in M
      <4>1. CASE i = L + 1
        BY <4>1, <1>2, <1>3
      <4>2. CASE i \in 1..L
        BY <4>2, <2>1, <1>3
      <4>3. QED BY <4>1, <4>2, <1>1
    <3>2. QED BY <3>1, <1>3
  <2>4. ASSUME NEW m \in M PROVE \E i \in 1..Len(B) : B[i].node = m
    <3>1. CASE m = n
      <4>1. L + 1 \in 1..Len(B) /\ B[L + 1].node = m
        BY <3>1, <1>1, <1>2, <1>3
      <4>2. QED BY <4>1
    <3>2. CASE m \in N
      <4>1. PICK i \in 1..L : A[i].node = m
        BY <3>2, <1>6, <1>7b DEF EntriesInv
      <4>2. i \in 1..Len(B) /\ B[i] = A[i]
        BY <1>1, <1>3
      <4>3. QED BY <4>1, <4>2
    <3>3. QED BY <3>1, <3>2
  <2>5. ASSUME NEW i \in 1..Len(B), NEW j \in 1..Len(B), B[i].node = B[j].node PROVE i = j
    <3>1. i \in 1..L \/ i = L + 1
      BY <1>1, <1>3
    <3>2. j \in 1..L \/ j = L + 1
      BY <1>1, <1>3
    <3>3. CASE i \in 1..L /\ j \in 1..L
      <4>1. A[i].node = A[j].node
        BY <3>3, <2>5, <1>3
      <4>2. QED BY <4>1, <3>3, <1>6, <1>7b DEF EntriesInv
    <3>4. CASE i \in 1..L /\ j = L + 1
      BY <3>4, <2>1, <2>5, <1>2, <1>3
    <3>5. CASE i = L + 1 /\ j \in 1..L
      BY <3>5, <2>1, <2>5, <1>2, <1>3
    <3>6. QED BY <3>1, <3>2, <3>3, <3>4, <3>5
  <2>6. ASSUME NEW i \in 1..Len(B) PROVE Placed(t, B, i)
    <3>1. CASE i \in 1..L
      <4>1. Placed(t, A, i) /\ B[i] = A[i]
        BY <3>1, <1>3, <1>6, <1>7b DEF EntriesInv
      <4>2. \A j \in 1..(i - 1) : B[j] = A[j]
        BY <3>1, <1>1, <1>3
      <4>3. QED BY <4>1, <4>2 DEF Placed
    <3>2. CASE i = L + 1
      <4>1. B[i].node = n /\ B[i].parent = dir.frn /\ t.parent[n] = dir.node
        BY <3>2, <1>2, <1>3
      <4>2. CASE dir.node = 0 /\ dir.frn = 0
        BY <4>1, <4>2 DEF Placed
      <4>3. CASE ~(dir.node = 0 /\ dir.frn = 0)
        <5>1. PICK j \in 1..L : A[j].node = dir.node /\ A[j].frn = dir.frn
          BY <1>7a, <4>3, <1>7b DEF Known
        <5>2. j \in 1..(i - 1) /\ B[j] = A[j]
          BY <3>2, <1>1, <1>3
        <5>3. QED BY <5>1, <5>2, <4>1 DEF Placed
      <4>4. QED BY <4>2, <4>3
    <3>3. QED BY <3>1, <3>2, <1>1, <1>3
  <2> HIDE DEF M
  <2>7. QED BY <2>2, <2>3, <2>4, <2>5, <2>6 DEF EntriesInv
<1>10. \A i \in 1..K : P[i].node # n
  <2>1. ASSUME NEW i \in 1..K, P[i].node = n PROVE FALSE
    <3>1. Known(t, A, P[i])
      BY <1>6, <1>7b DEF StackInv
    <3>2. PICK j \in 1..L : A[j].node = n
      BY <3>1, <2>1, <1>7, <1>7b DEF Known
    <3>3. A[j].node \in N
      BY <1>6, <1>7b DEF EntriesInv
    <3>4. QED BY <3>2, <3>3
  <2>2. QED BY <2>1
<1>11. n \notin R
  BY <1>6, <1>7 DEF Dirs
<1>12. \A i \in 1..K : Known(t, B, P[i]) /\ P[i].node \notin R
  BY <1>6, <1>7b, <1>8 DEF StackInv
<1>13. CASE ~Enters(t, n)
  <2>1. Q = P
    BY <1>13 DEF Q
  <2>2. StackInv(t, B, Q, R)
    BY <2>1, <1>6, <1>7b, <1>12 DEF StackInv
  <2>3. Dirs(t, M) = Dirs(t, N)
    BY <1>13 DEF Dirs, Enters
  <2>4. w.next + 1 = 100 + Len(B) /\ w.next + 1 \in Nat
    BY <1>1, <1>3
  <2>5. v \in Walks
    BY <2>4, <1>3, <1>4, <1>5 DEF Walks
  <2>6. M \subseteq Nodes
    BY <1>6
  <2> HIDE DEF M
  <2>7. WalkInv(t, v, R, M)
    BY <2>1, <2>2, <2>3, <2>4, <2>5, <2>6, <1>5, <1>6, <1>7b, <1>9 DEF WalkInv
  <2>8. Known(t, v.added, dir)
    BY <1>5, <1>7a, <1>8
  <2>9. QED BY <2>7, <2>8 DEF M, v
<1>14. CASE Enters(t, n)
  <2>0. Q = Append(P, it)
    BY <1>14 DEF Q
  <2>1. Len(Q) = K + 1 /\ Q[K + 1] = it /\ \A i \in 1..K : Q[i] = P[i]
    BY <2>0, <1>1, <1>2, <1>7b
  <2>2. Known(t, B, it)
    <3>1. L + 1 \in 1..Len(B) /\ B[L + 1].node = it.node /\ B[L + 1].frn = it.frn
      BY <1>1, <1>2, <1>3
    <3>2. t.kind[it.node] = "dir" /\ it.node \in Nodes
      BY <1>14, <1>2 DEF Enters
    <3>3. QED BY <3>1, <3>2 DEF Known
  <2>3. StackInv(t, B, Q, R)
    <3>1. ASSUME NEW i \in 1..Len(Q), NEW j \in 1..Len(Q), Q[i].node = Q[j].node PROVE i = j
      <4>1. i \in 1..K \/ i = K + 1
        BY <1>1, <2>1
      <4>2. j \in 1..K \/ j = K + 1
        BY <1>1, <2>1
      <4>3. CASE i \in 1..K /\ j \in 1..K
        <5>1. P[i].node = P[j].node
          BY <4>3, <3>1, <2>1
        <5>2. QED BY <5>1, <4>3, <1>6, <1>7b DEF StackInv
      <4>4. CASE i \in 1..K /\ j = K + 1
        BY <4>4, <3>1, <2>1, <1>2, <1>10
      <4>5. CASE i = K + 1 /\ j \in 1..K
        BY <4>5, <3>1, <2>1, <1>2, <1>10
      <4>6. QED BY <4>1, <4>2, <4>3, <4>4, <4>5
    <3>2. ASSUME NEW i \in 1..Len(Q) PROVE Known(t, B, Q[i]) /\ Q[i].node \notin R
      <4>1. CASE i \in 1..K
        BY <4>1, <2>1, <1>12
      <4>2. CASE i = K + 1
        BY <4>2, <2>1, <2>2, <1>2, <1>11
      <4>3. QED BY <4>1, <4>2, <2>1, <1>1
    <3>3. QED BY <3>1, <3>2 DEF StackInv
  <2>4. w.next + 1 = 100 + Len(B) /\ w.next + 1 \in Nat
    BY <1>1, <1>3
  <2>5. v \in Walks
    BY <2>4, <1>3, <1>4, <1>5 DEF Walks
  <2>6. M \subseteq Nodes /\ R \subseteq Dirs(t, M)
    BY <1>6 DEF Dirs
  <2>7. ASSUME NEW d \in Dirs(t, M) \ R PROVE \E i \in 1..Len(Q) : Q[i].node = d
    <3>1. CASE d = n
      <4>1. K + 1 \in 1..Len(Q) /\ Q[K + 1].node = d
        BY <3>1, <2>1, <1>1, <1>2
      <4>2. QED BY <4>1
    <3>2. CASE d # n
      <4>1. d \in Dirs(t, N) \ R
        BY <3>2, <2>7 DEF Dirs
      <4>2. PICK i \in 1..K : P[i].node = d
        BY <4>1, <1>6
      <4>3. i \in 1..Len(Q) /\ Q[i] = P[i]
        BY <2>1, <1>1
      <4>4. QED BY <4>2, <4>3
    <3>3. QED BY <3>1, <3>2
  <2> HIDE DEF M
  <2>8. WalkInv(t, v, R, M)
    BY <2>3, <2>4, <2>5, <2>6, <2>7, <1>5, <1>9 DEF WalkInv
  <2>9. Known(t, v.added, dir)
    BY <1>5, <1>7a, <1>8
  <2>10. QED BY <2>8, <2>9 DEF M, v
<1>15. QED BY <1>13, <1>14

LEMMA AddEntryType ==
  ASSUME NEW t, NEW w \in Walks, NEW dir \in Item, NEW n \in Nodes
  PROVE  AddEntry(t, w, dir, n) \in Walks
<1> DEFINE e == [frn |-> w.next, parent |-> dir.frn, node |-> n]
           it == [node |-> n, frn |-> w.next]
           A == w.added
           P == w.stack
<1>1. w.next \in Nat /\ A \in Seq(Entry) /\ P \in Seq(Item) /\ dir.frn \in Nat
  BY DEF Walks, Item
<1>2. e \in Entry /\ it \in Item
  BY <1>1 DEF Entry, Item
<1>3. AddEntry(t, w, dir, n) = [next |-> w.next + 1, added |-> Append(A, e),
                               stack |-> IF Enters(t, n) THEN Append(P, it) ELSE P]
  BY DEF AddEntry
<1> HIDE DEF e, it, A, P
<1>4. Append(A, e) \in Seq(Entry) /\ Append(P, it) \in Seq(Item) /\ w.next + 1 \in Nat
  BY <1>1, <1>2
<1>5. (IF Enters(t, n) THEN Append(P, it) ELSE P) \in Seq(Item)
  BY <1>1, <1>4
<1>6. QED BY <1>3, <1>4, <1>5 DEF Walks

ListedIn(t, d) == {n \in Nodes : t.parent[n] = d /\ t.readable[n] # "no_metadata"}

LEMMA ChildrenFacts ==
  ASSUME NEW t \in Trees, NEW d
  PROVE  /\ Children(t, d) \in Seq(ListedIn(t, d))
         /\ \A i, j \in 1..Len(Children(t, d)) : Children(t, d)[i] = Children(t, d)[j] => i = j
         /\ \A n \in ListedIn(t, d) : \E i \in 1..Len(Children(t, d)) : Children(t, d)[i] = n
<1>1. IsFiniteSet(ListedIn(t, d))
  BY ScanAssumption, FS_Subset DEF ListedIn
<1>2. Children(t, d) = SetToSeq(ListedIn(t, d))
  BY DEF Children, ListedIn
<1>3. QED BY <1>1, <1>2, ListedOnce

LEMMA ScanIsRun ==
  ASSUME NEW t \in Trees, NEW w \in Walks, NEW dir \in Item
  PROVE  \E g : /\ g \in [0..Len(Children(t, dir.node)) -> Walks] /\ g[0] = w
                /\ \A n \in 1..Len(Children(t, dir.node)) :
                     g[n] = AddEntry(t, g[n - 1], dir, Children(t, dir.node)[n])
                /\ ScanDir(t, w, dir) = g[Len(Children(t, dir.node))]
<1> DEFINE listed == Children(t, dir.node)
           k == Len(listed)
           step == [p \in (1..k) \X Walks |-> AddEntry(t, p[2], dir, listed[p[1]])]
           Def(g) == [i \in 0..k |-> IF i = 0 THEN w ELSE AddEntry(t, g[i - 1], dir, listed[i])]
<1>1. k \in Nat /\ \A i \in 1..k : listed[i] \in Nodes
  <2>1. listed \in Seq(ListedIn(t, dir.node))
    BY ChildrenFacts
  <2> HIDE DEF listed
  <2>2. QED BY <2>1 DEF ListedIn
<1> HIDE DEF listed, k
<1>2. step \in [(1..k) \X Walks -> Walks]
  <2>1. ASSUME NEW p \in (1..k) \X Walks PROVE AddEntry(t, p[2], dir, listed[p[1]]) \in Walks
    <3>1. p[1] \in 1..k /\ p[2] \in Walks
      OBVIOUS
    <3>2. QED BY <3>1, <1>1, AddEntryType
  <2>2. QED BY <2>1
<1>3. PICK g : RunOf(g, Walks, k, step, w)
  <2> HIDE DEF step
  <2>1. QED BY <1>1, <1>2, Iterates
<1>4. g \in [0..k -> Walks] /\ g[0] = w /\ \A n \in 1..k : g[n] = AddEntry(t, g[n - 1], dir, listed[n])
  <2>1. ASSUME NEW n \in 1..k PROVE g[n] = AddEntry(t, g[n - 1], dir, listed[n])
    <3>1. n - 1 \in 0..k
      BY <1>1
    <3>2. g[n - 1] \in Walks
      BY <3>1, <1>3 DEF RunOf
    <3>3. <<n, g[n - 1]>> \in (1..k) \X Walks
      BY <3>2
    <3>4. QED BY <1>3, <3>3 DEF RunOf
  <2>2. QED BY <2>1, <1>3 DEF RunOf
<1>5. g = Def(g)
  <2>1. ASSUME NEW n \in 0..k PROVE g[n] = Def(g)[n]
    BY <1>1, <1>4
  <2>2. QED BY <2>1, <1>4
<1> DEFINE scan == CHOOSE h : h = Def(h)
<1>6. scan = Def(scan)
  <2> HIDE DEF Def
  <2>1. QED BY <1>5
<1>7. ScanDir(t, w, dir) = scan[k]
  BY DEF ScanDir, k, listed
<1> HIDE DEF scan, step
<1>8. scan[0] = w /\ \A n \in 1..k : scan[n] = AddEntry(t, scan[n - 1], dir, listed[n])
  BY <1>1, <1>6
<1>9. \A n \in 0..k : scan[n] = g[n]
  <2> DEFINE T == {n \in 0..k : scan[n] = g[n]}
  <2>1. 0 \in T
    BY <1>1, <1>4, <1>8
  <2>2. ASSUME NEW n \in 1..k, n - 1 \in T PROVE n \in T
    <3>1. scan[n - 1] = g[n - 1] /\ n \in 0..k
      BY <1>1, <2>2
    <3>2. scan[n] = g[n]
      BY <3>1, <1>4, <1>8
    <3>3. QED BY <3>1, <3>2
  <2> HIDE DEF T
  <2>3. \A n \in 0..k : n \in T
    BY <1>1, <2>1, <2>2, StepsUpTo
  <2>4. QED BY <2>3 DEF T
<1>10. ScanDir(t, w, dir) = g[k]
  BY <1>1, <1>7, <1>9
<1>11. QED BY <1>4, <1>10 DEF k, listed

\* Reading a directory enters what it lists and nothing else.
LEMMA ScanDirFacts ==
  ASSUME NEW t \in Trees, NEW w, NEW R, NEW N, WalkInv(t, w, R, N),
         NEW dir \in Item, Known(t, w.added, dir), ListedIn(t, dir.node) \cap N = {}
  PROVE  WalkInv(t, ScanDir(t, w, dir), R, N \cup ListedIn(t, dir.node))
<1> DEFINE C == ListedIn(t, dir.node)
           listed == Children(t, dir.node)
           k == Len(listed)
           FirstOf(n) == N \cup {listed[j] : j \in 1..n}
<1>1. /\ listed \in Seq(C) /\ k \in Nat /\ \A i \in 1..k : listed[i] \in C
      /\ \A i, j \in 1..k : listed[i] = listed[j] => i = j
      /\ \A n \in C : \E i \in 1..k : listed[i] = n
  <2>1. /\ listed \in Seq(C)
        /\ \A i, j \in 1..k : listed[i] = listed[j] => i = j
        /\ \A n \in C : \E i \in 1..k : listed[i] = n
    BY ChildrenFacts
  <2> HIDE DEF listed, C
  <2>2. QED BY <2>1
<1>2. w \in Walks
  BY DEF WalkInv
<1>3. PICK g : /\ g \in [0..k -> Walks] /\ g[0] = w
               /\ \A n \in 1..k : g[n] = AddEntry(t, g[n - 1], dir, listed[n])
               /\ ScanDir(t, w, dir) = g[k]
  BY <1>2, ScanIsRun
<1>4. C \cap N = {} /\ \A n \in C : n \in Nodes /\ t.parent[n] = dir.node
  BY DEF ListedIn
<1> HIDE DEF listed, k, C
<1> DEFINE T == {n \in 0..k : WalkInv(t, g[n], R, FirstOf(n)) /\ Known(t, g[n].added, dir)}
<1>5. 0 \in T
  <2>1. FirstOf(0) = N
    OBVIOUS
  <2> HIDE DEF FirstOf
  <2>2. WalkInv(t, g[0], R, FirstOf(0)) /\ Known(t, g[0].added, dir)
    BY <2>1, <1>3
  <2>3. QED BY <2>2, <1>1
<1>6. ASSUME NEW n \in 1..k, n - 1 \in T PROVE n \in T
  <2>1. n \in 0..k /\ n \in Nat /\ n - 1 \in Nat
    BY <1>1
  <2>2. WalkInv(t, g[n - 1], R, FirstOf(n - 1)) /\ Known(t, g[n - 1].added, dir)
    BY <1>6
  <2>3. listed[n] \in Nodes \ FirstOf(n - 1) /\ t.parent[listed[n]] = dir.node
    <3>1. listed[n] \in Nodes /\ t.parent[listed[n]] = dir.node /\ listed[n] \notin N
      BY <1>1, <1>4
    <3>2. ASSUME NEW j \in 1..(n - 1), listed[j] = listed[n] PROVE FALSE
      <4>1. j \in 1..k /\ j # n
        BY <1>1
      <4>2. QED BY <4>1, <3>2, <1>1
    <3>3. QED BY <3>1, <3>2
  <2>4. FirstOf(n) = FirstOf(n - 1) \cup {listed[n]}
    <3>1. \A j \in 1..n : j \in 1..(n - 1) \/ j = n
      BY <2>1
    <3>2. \A j \in 1..(n - 1) : j \in 1..n
      BY <2>1
    <3>3. n \in 1..n
      BY <1>1
    <3>4. QED BY <3>1, <3>2, <3>3
  <2> DEFINE F == FirstOf(n - 1)
             G == FirstOf(n)
  <2> HIDE DEF FirstOf, F, G
  <2>5. WalkInv(t, g[n - 1], R, F) /\ listed[n] \in Nodes \ F
    BY <2>2, <2>3 DEF F
  <2>6. WalkInv(t, AddEntry(t, g[n - 1], dir, listed[n]), R, F \cup {listed[n]})
        /\ Known(t, AddEntry(t, g[n - 1], dir, listed[n]).added, dir)
    BY <2>2, <2>3, <2>5, AddEntryFacts
  <2>7. WalkInv(t, g[n], R, G) /\ Known(t, g[n].added, dir)
    BY <2>4, <2>6, <1>3 DEF F, G
  <2>8. QED BY <2>1, <2>7 DEF G
<1>7. k \in T
  <2> HIDE DEF T
  <2>1. \A n \in 0..k : n \in T
    BY <1>1, <1>5, <1>6, StepsUpTo
  <2>2. QED BY <2>1, <1>1
<1>8. FirstOf(k) = N \cup C
  BY <1>1
<1>9. WalkInv(t, g[k], R, FirstOf(k))
  BY <1>7
<1>10. QED BY <1>3, <1>8, <1>9 DEF C

\* What has been entered once the directories R have been read.
EnteredBy(t, R) ==
  {n \in Nodes : /\ t.readable[n] # "no_metadata" /\ t.parent[n] \in R
                 /\ t.parent[n] = 0 \/ t.readable[t.parent[n]] = "yes"}

\* Each step reads one more directory, or finds that it cannot.
LEMMA WalkNextFacts ==
  ASSUME NEW t \in Trees, NEW w, NEW R, WalkInv(t, w, R, EnteredBy(t, R)), w.stack # <<>>
  PROVE  \E d \in ({0} \cup Nodes) \ R :
           WalkInv(t, WalkNext(t, w), R \cup {d}, EnteredBy(t, R \cup {d}))
<1> DEFINE N == EnteredBy(t, R)
           P == w.stack
           A == w.added
           K == Len(P)
           dir == P[K]
           d == dir.node
           Q == SubSeq(P, 1, K - 1)
           rest == [w EXCEPT !.stack = Q]
           S == R \cup {d}
<1>1. /\ w \in Walks /\ w.next \in Nat /\ A \in Seq(Entry) /\ P \in Seq(Item)
      /\ w.next = 100 + Len(A)
  BY DEF WalkInv, Walks
<1>2. /\ EntriesInv(t, A, N) /\ StackInv(t, A, P, R) /\ N \subseteq Nodes /\ R \subseteq Dirs(t, N)
      /\ \A x \in Dirs(t, N) \ R : \E i \in 1..K : P[i].node = x
  BY DEF WalkInv
<1>3. K \in Nat /\ K \in 1..K /\ dir \in Item /\ P # <<>>
  <2>1. P # <<>> /\ P \in Seq(Item)
    BY <1>1
  <2> HIDE DEF P
  <2>2. Len(P) \in Nat /\ Len(P) # 0
    BY <2>1
  <2>3. Len(P) \in 1..Len(P) /\ P[Len(P)] \in Item
    BY <2>1, <2>2
  <2>4. QED BY <2>1, <2>2, <2>3
<1>4. Q \in Seq(Item) /\ Len(Q) = K - 1 /\ \A i \in 1..(K - 1) : Q[i] = P[i]
  <2> DEFINE m == K - 1
  <2>1. m \in 0..Len(P) /\ P \in Seq(Item)
    BY <1>1, <1>3
  <2> HIDE DEF P, K, m
  <2>2. SubSeq(P, 1, m) \in Seq(Item) /\ Len(SubSeq(P, 1, m)) = m
        /\ \A i \in 1..m : SubSeq(P, 1, m)[i] = P[i]
    BY <2>1
  <2>3. QED BY <2>2 DEF m
<1>5. rest \in Walks /\ rest.next = w.next /\ rest.added = A /\ rest.stack = Q
  BY <1>1, <1>4 DEF Walks
<1>6. WalkNext(t, w) = IF d # 0 /\ t.readable[d] # "yes" THEN rest ELSE ScanDir(t, rest, dir)
  BY DEF WalkNext
<1>7. 0 \notin Nodes
  BY TreeFacts
<1> HIDE DEF N, P, A, K, dir, Q, rest
<1>8. Known(t, A, dir) /\ d \notin R
  BY <1>2, <1>3 DEF StackInv, K, dir
<1>9. d \in Dirs(t, N) /\ d \in {0} \cup Nodes
  <2>1. CASE d = 0
    BY <2>1 DEF Dirs
  <2>2. CASE d # 0
    <3>1. d \in Nodes /\ t.kind[d] = "dir" /\ \E j \in 1..Len(A) : A[j].node = d
      BY <1>8, <2>2 DEF Known
    <3>2. d \in N
      BY <3>1, <1>2 DEF EntriesInv
    <3>3. QED BY <3>1, <3>2 DEF Dirs
  <2>3. QED BY <2>1, <2>2
<1>10. \A i, j \in 1..K : P[i].node = P[j].node => i = j
  BY <1>2 DEF StackInv, K
<1>11. WalkInv(t, rest, S, N)
  <2>1. ASSUME NEW i \in 1..Len(Q) PROVE Known(t, A, Q[i]) /\ Q[i].node \notin S
    <3>1. i \in 1..K /\ i # K /\ Q[i] = P[i]
      BY <1>3, <1>4
    <3>2. Known(t, A, P[i]) /\ P[i].node \notin R
      BY <3>1, <1>2 DEF StackInv, K
    <3>3. P[i].node # d
      BY <3>1, <1>3, <1>10 DEF dir
    <3>4. QED BY <3>1, <3>2, <3>3
  <2>2. ASSUME NEW i \in 1..Len(Q), NEW j \in 1..Len(Q), Q[i].node = Q[j].node PROVE i = j
    <3>1. i \in 1..K /\ j \in 1..K /\ Q[i] = P[i] /\ Q[j] = P[j]
      BY <1>3, <1>4
    <3>2. QED BY <3>1, <2>2, <1>10
  <2>3. StackInv(t, A, Q, S)
    BY <2>1, <2>2 DEF StackInv
  <2>4. ASSUME NEW x \in Dirs(t, N) \ S PROVE \E i \in 1..Len(Q) : Q[i].node = x
    <3>1. x \in Dirs(t, N) \ R /\ x # d
      BY <2>4
    <3>2. PICK i \in 1..K : P[i].node = x
      BY <3>1, <1>2
    <3>3. i # K
      BY <3>1, <3>2 DEF dir
    <3>4. i \in 1..Len(Q) /\ Q[i] = P[i]
      BY <3>3, <1>3, <1>4
    <3>5. QED BY <3>2, <3>4
  <2>5. S \subseteq Dirs(t, N)
    BY <1>2, <1>9
  <2> HIDE DEF S
  <2>6. QED BY <2>3, <2>4, <2>5, <1>1, <1>2, <1>5 DEF WalkInv
<1>12. CASE d # 0 /\ t.readable[d] # "yes"
  <2>1. EnteredBy(t, S) = N
    BY <1>12 DEF EnteredBy, N
  <2>2. WalkNext(t, w) = rest
    BY <1>6, <1>12
  <2>3. WalkInv(t, WalkNext(t, w), S, EnteredBy(t, S))
    BY <2>1, <2>2, <1>11
  <2>4. QED BY <2>3, <1>8, <1>9
<1>13. CASE ~(d # 0 /\ t.readable[d] # "yes")
  <2>1. WalkNext(t, w) = ScanDir(t, rest, dir)
    BY <1>6, <1>13
  <2>2. EnteredBy(t, S) = N \cup ListedIn(t, d)
    BY <1>13 DEF EnteredBy, ListedIn, N
  <2>3. ListedIn(t, d) \cap N = {}
    BY <1>8 DEF EnteredBy, ListedIn, N
  <2>4. Known(t, rest.added, dir)
    BY <1>5, <1>8
  <2>5. WalkInv(t, ScanDir(t, rest, dir), S, N \cup ListedIn(t, dir.node))
    <3> HIDE DEF S
    <3>1. QED BY <2>3, <2>4, <1>3, <1>11, ScanDirFacts
  <2>6. WalkInv(t, WalkNext(t, w), S, EnteredBy(t, S))
    BY <2>1, <2>2, <2>5
  <2>7. QED BY <2>6, <1>8, <1>9
<1>14. QED BY <1>12, <1>13

LEMMA ScanDirType ==
  ASSUME NEW t \in Trees, NEW w \in Walks, NEW dir \in Item
  PROVE  ScanDir(t, w, dir) \in Walks
<1> DEFINE k == Len(Children(t, dir.node))
<1>1. PICK g : g \in [0..k -> Walks] /\ ScanDir(t, w, dir) = g[k]
  BY ScanIsRun
<1>2. k \in 0..k
  BY ChildrenFacts
<1>3. QED BY <1>1, <1>2

LEMMA WalkNextType ==
  ASSUME NEW t \in Trees, NEW w \in Walks
  PROVE  WalkNext(t, w) \in Walks
<1> DEFINE P == w.stack
           dir == P[Len(P)]
           Q == SubSeq(P, 1, Len(P) - 1)
           rest == [w EXCEPT !.stack = Q]
<1>1. P \in Seq(Item) /\ w.next \in Nat /\ w.added \in Seq(Entry)
  BY DEF Walks
<1>2. CASE P = <<>>
  BY <1>2 DEF WalkNext
<1>3. CASE P # <<>>
  <2>1. dir \in Item /\ Q \in Seq(Item)
    <3> HIDE DEF P
    <3>1. Len(P) \in Nat /\ Len(P) # 0
      BY <1>1, <1>3
    <3>2. Len(P) \in 1..Len(P) /\ Len(P) - 1 \in 0..Len(P)
      BY <3>1
    <3>3. P[Len(P)] \in Item
      BY <3>2, <1>1
    <3> DEFINE m == Len(P) - 1
    <3>4. m \in 0..Len(P)
      BY <3>2
    <3> HIDE DEF m
    <3>5. SubSeq(P, 1, m) \in Seq(Item)
      BY <3>4, <1>1
    <3>6. QED BY <3>3, <3>5 DEF m
  <2>2. rest \in Walks
    <3> HIDE DEF Q
    <3>1. QED BY <2>1, <1>1 DEF Walks
  <2>3. WalkNext(t, w) = IF dir.node # 0 /\ t.readable[dir.node] # "yes" THEN rest ELSE ScanDir(t, rest, dir)
    BY <1>3 DEF WalkNext
  <2> HIDE DEF dir, rest
  <2>4. ScanDir(t, rest, dir) \in Walks
    BY <2>1, <2>2, ScanDirType
  <2>5. QED BY <2>2, <2>3, <2>4
<1>4. QED BY <1>2, <1>3

Setout == [next |-> 100, added |-> <<>>, stack |-> <<[node |-> 0, frn |-> 0]>>]

LEMMA WalkIsRun ==
  ASSUME NEW t \in Trees
  PROVE  \E g : /\ g \in [0..(Cardinality(Nodes) + 1) -> Walks] /\ g[0] = Setout
                /\ \A n \in 1..(Cardinality(Nodes) + 1) : g[n] = WalkNext(t, g[n - 1])
                /\ WalkTree(t) = g[Cardinality(Nodes) + 1]
<1> DEFINE k == Cardinality(Nodes) + 1
           step == [p \in (1..k) \X Walks |-> WalkNext(t, p[2])]
           Def(g) == [i \in 0..k |-> IF i = 0 THEN Setout ELSE WalkNext(t, g[i - 1])]
<1>1. k \in Nat
  BY ScanAssumption, FS_CardinalityType
<1>2. Setout \in Walks
  <2>1. [node |-> 0, frn |-> 0] \in Item
    BY DEF Item
  <2>2. <<[node |-> 0, frn |-> 0]>> \in Seq(Item) /\ <<>> \in Seq(Entry)
    BY <2>1
  <2>3. QED BY <2>2 DEF Setout, Walks
<1> HIDE DEF k
<1>3. step \in [(1..k) \X Walks -> Walks]
  <2>1. ASSUME NEW p \in (1..k) \X Walks PROVE WalkNext(t, p[2]) \in Walks
    BY WalkNextType
  <2>2. QED BY <2>1
<1>4. PICK g : RunOf(g, Walks, k, step, Setout)
  <2> HIDE DEF step
  <2>1. QED BY <1>1, <1>2, <1>3, Iterates
<1>5. g \in [0..k -> Walks] /\ g[0] = Setout /\ \A n \in 1..k : g[n] = WalkNext(t, g[n - 1])
  <2>1. ASSUME NEW n \in 1..k PROVE g[n] = WalkNext(t, g[n - 1])
    <3>1. n - 1 \in 0..k
      BY <1>1
    <3>2. g[n - 1] \in Walks
      BY <3>1, <1>4 DEF RunOf
    <3>3. <<n, g[n - 1]>> \in (1..k) \X Walks
      BY <3>2
    <3>4. QED BY <1>4, <3>3 DEF RunOf
  <2>2. QED BY <2>1, <1>4 DEF RunOf
<1>6. g = Def(g)
  <2>1. ASSUME NEW n \in 0..k PROVE g[n] = Def(g)[n]
    BY <1>1, <1>5
  <2>2. QED BY <2>1, <1>5
<1> DEFINE walk == CHOOSE h : h = Def(h)
<1>7. walk = Def(walk)
  <2> HIDE DEF Def
  <2>1. QED BY <1>6
<1>8. WalkTree(t) = walk[k]
  BY DEF WalkTree, k, Setout
<1> HIDE DEF walk, step
<1>9. walk[0] = Setout /\ \A n \in 1..k : walk[n] = WalkNext(t, walk[n - 1])
  BY <1>1, <1>7
<1>10. \A n \in 0..k : walk[n] = g[n]
  <2> DEFINE T == {n \in 0..k : walk[n] = g[n]}
  <2>1. 0 \in T
    BY <1>1, <1>5, <1>9
  <2>2. ASSUME NEW n \in 1..k, n - 1 \in T PROVE n \in T
    <3>1. walk[n - 1] = g[n - 1] /\ n \in 0..k
      BY <1>1, <2>2
    <3>2. walk[n] = g[n]
      BY <3>1, <1>5, <1>9
    <3>3. QED BY <3>1, <3>2
  <2> HIDE DEF T
  <2>3. \A n \in 0..k : n \in T
    BY <1>1, <2>1, <2>2, StepsUpTo
  <2>4. QED BY <2>3 DEF T
<1>11. WalkTree(t) = g[k]
  BY <1>1, <1>8, <1>10
<1>12. QED BY <1>5, <1>11 DEF k

\* Parents come first: what lies under what it holds is determined.
LEMMA UnderOnce ==
  ASSUME NEW t \in Trees, NEW S \in SUBSET Nodes, NEW U \in SUBSET Nodes,
         S = Under(t, S), U = Under(t, U)
  PROVE  S = U
<1> DEFINE T == {n \in Nodes : ~(n \in S <=> n \in U)}
<1>1. SUFFICES ASSUME T # {} PROVE FALSE
  OBVIOUS
<1>2. T \in SUBSET Nat
  BY TreeFacts
<1>3. PICK n \in T : \A m \in T : n <= m
  <2> HIDE DEF T
  <2>1. QED BY <1>1, <1>2, LeastElement
<1>4. n \in Nodes /\ n \in Nat /\ t.parent[n] \in {0} \cup Nodes /\ t.parent[n] < n /\ 0 \notin Nodes
      /\ Nodes \subseteq Nat
  BY TreeFacts
<1>5. t.parent[n] \in S <=> t.parent[n] \in U
  <2>1. CASE t.parent[n] = 0
    BY <2>1, <1>4
  <2>2. CASE t.parent[n] \in Nodes
    <3>1. ASSUME t.parent[n] \in T PROVE FALSE
      <4>1. n <= t.parent[n] /\ t.parent[n] \in Nat
        BY <3>1, <1>3, <1>4, <2>2
      <4>2. QED BY <4>1, <1>4
    <3>2. QED BY <3>1, <2>2
  <2>3. QED BY <2>1, <2>2, <1>4
<1>6. n \in Under(t, S) <=> n \in Under(t, U)
  BY <1>4, <1>5 DEF Under
<1>7. n \in S <=> n \in U
  BY <1>6
<1>8. QED BY <1>3, <1>7

\* However large the tree and in whatever order its directories are listed, the walk
\* comes to an end, enters exactly what can be reached through directories it can read,
\* each file once and under a number of its own, and never before the directory above.
THEOREM TheWalkReachesAll == WalkReachesAll
<1> SUFFICES ASSUME NEW t \in Trees
    PROVE  LET w == WalkTree(t)
           IN  /\ w.stack = <<>>
               /\ {w.added[i].node : i \in DOMAIN w.added} = Reachable(t)
               /\ \A i, j \in DOMAIN w.added :
                    w.added[i].node = w.added[j].node \/ w.added[i].frn = w.added[j].frn => i = j
               /\ \A i \in DOMAIN w.added :
                    \/ t.parent[w.added[i].node] = 0 /\ w.added[i].parent = 0
                    \/ \E j \in 1..(i - 1) : /\ w.added[j].node = t.parent[w.added[i].node]
                                             /\ w.added[j].frn = w.added[i].parent
  BY DEF WalkReachesAll
<1> DEFINE k == Cardinality(Nodes) + 1
           w == WalkTree(t)
           All == {0} \cup Nodes
           Reads(v, n) == \E R : /\ WalkInv(t, v, R, EnteredBy(t, R)) /\ R \subseteq All
                                 /\ v.stack = <<>> \/ Cardinality(R) = n
<1>1. k \in Nat /\ IsFiniteSet(All) /\ Cardinality(All) = k /\ 0 \notin Nodes /\ Nodes \subseteq Nat
  <2>1. IsFiniteSet(Nodes) /\ 0 \notin Nodes /\ Nodes \subseteq Nat
    BY TreeFacts
  <2>2. IsFiniteSet(Nodes \cup {0}) /\ Cardinality(Nodes \cup {0}) = Cardinality(Nodes) + 1
    BY <2>1, FS_AddElement
  <2>3. Nodes \cup {0} = All
    OBVIOUS
  <2>4. Cardinality(Nodes) \in Nat
    BY <2>1, FS_CardinalityType
  <2> HIDE DEF All
  <2>5. QED BY <2>1, <2>2, <2>3, <2>4
<1>2. PICK g : /\ g \in [0..k -> Walks] /\ g[0] = Setout
               /\ \A n \in 1..k : g[n] = WalkNext(t, g[n - 1])
               /\ w = g[k]
  BY WalkIsRun
<1> HIDE DEF k, w
<1>3. \A n \in 0..k : Reads(g[n], n)
  <2> DEFINE T == {n \in 0..k : Reads(g[n], n)}
  <2>1. 0 \in T
    <3>1. EnteredBy(t, {}) = {}
      BY DEF EnteredBy
    <3>2. Setout.added = <<>> /\ Len(Setout.added) = 0 /\ Setout.next = 100
          /\ Len(Setout.stack) = 1 /\ Setout.stack[1].node = 0 /\ Setout.stack[1].frn = 0
      BY DEF Setout
    <3>3. Setout \in Walks
      BY <1>1, <1>2
    <3>4. EntriesInv(t, Setout.added, {})
      BY <3>2 DEF EntriesInv
    <3>5. StackInv(t, Setout.added, Setout.stack, {})
      BY <3>2 DEF StackInv, Known
    <3>6. Dirs(t, {}) = {0} /\ 1 \in 1..Len(Setout.stack)
      BY <3>2 DEF Dirs
    <3>7. \A d \in Dirs(t, {}) \ {} : \E i \in 1..Len(Setout.stack) : Setout.stack[i].node = d
      BY <3>2, <3>6
    <3>8. WalkInv(t, Setout, {}, {})
      BY <3>2, <3>3, <3>4, <3>5, <3>6, <3>7 DEF WalkInv
    <3>9. Cardinality({}) = 0 /\ {} \subseteq All
      BY FS_EmptySet
    <3>10. Reads(Setout, 0)
      <4> HIDE DEF All
      <4>1. QED BY <3>1, <3>8, <3>9
    <3> HIDE DEF Reads
    <3>11. QED BY <3>10, <1>1, <1>2
  <2>2. ASSUME NEW n \in 1..k, n - 1 \in T PROVE n \in T
    <3> DEFINE v == g[n - 1]
    <3>1. PICK R : /\ WalkInv(t, v, R, EnteredBy(t, R)) /\ R \subseteq All
                   /\ v.stack = <<>> \/ Cardinality(R) = n - 1
      BY <2>2
    <3>2. g[n] = WalkNext(t, v) /\ n \in 0..k /\ n \in Nat
      BY <1>1, <1>2
    <3> HIDE DEF v
    <3>3. CASE v.stack = <<>>
      <4>1. WalkNext(t, v) = v
        BY <3>3 DEF WalkNext
      <4>2. Reads(g[n], n)
        <5> HIDE DEF All
        <5>1. QED BY <3>1, <3>2, <3>3, <4>1
      <4> HIDE DEF Reads
      <4>3. QED BY <4>2, <3>2
    <3>4. CASE v.stack # <<>>
      <4>1. PICK d \in All \ R : WalkInv(t, WalkNext(t, v), R \cup {d}, EnteredBy(t, R \cup {d}))
        BY <3>1, <3>4, WalkNextFacts
      <4> DEFINE S == R \cup {d}
      <4>2. S \subseteq All
        BY <3>1, <4>1
      <4>3. Cardinality(S) = n
        <5>1. IsFiniteSet(R)
          BY <3>1, <1>1, FS_Subset
        <5>2. Cardinality(S) = Cardinality(R) + 1
          BY <5>1, <4>1, FS_AddElement
        <5>3. QED BY <5>2, <3>1, <3>2, <3>4
      <4>4. WalkInv(t, g[n], S, EnteredBy(t, S))
        BY <3>2, <4>1
      <4>5. Reads(g[n], n)
        <5> HIDE DEF All, S
        <5>1. QED BY <4>2, <4>3, <4>4
      <4> HIDE DEF Reads
      <4>6. QED BY <4>5, <3>2
    <3>5. QED BY <3>3, <3>4
  <2> HIDE DEF T
  <2>3. \A n \in 0..k : n \in T
    BY <1>1, <2>1, <2>2, StepsUpTo
  <2>4. QED BY <2>3 DEF T
<1>4. PICK R : /\ WalkInv(t, w, R, EnteredBy(t, R)) /\ R \subseteq All
               /\ w.stack = <<>> \/ Cardinality(R) = k
  <2>1. k \in 0..k
    BY <1>1
  <2>2. QED BY <2>1, <1>2, <1>3
<1> DEFINE N == EnteredBy(t, R)
           A == w.added
<1>5. w.stack = <<>>
  <2>1. SUFFICES ASSUME w.stack # <<>> PROVE FALSE
    OBVIOUS
  <2>2. Cardinality(R) = Cardinality(All)
    BY <2>1, <1>1, <1>4
  <2>3. R = All
    <3> HIDE DEF All
    <3>1. QED BY <2>2, <1>1, <1>4, FS_Subset
  <2>4. w.stack \in Seq(Item) /\ Len(w.stack) \in Nat /\ Len(w.stack) # 0
    <3>1. w.stack \in Seq(Item)
      BY <1>4 DEF WalkInv, Walks
    <3>2. QED BY <3>1, <2>1
  <2>5. 1 \in 1..Len(w.stack) /\ w.stack[1] \in Item
    BY <2>4
  <2>6. w.stack[1].node \notin R
    BY <2>5, <1>4 DEF WalkInv, StackInv
  <2>7. w.stack[1].node \in All
    BY <2>5 DEF Item
  <2>8. QED BY <2>3, <2>6, <2>7
<1>6. EntriesInv(t, A, N) /\ N \subseteq Nodes /\ R \subseteq Dirs(t, N) /\ A \in Seq(Entry)
  BY <1>4 DEF WalkInv, Walks
<1>7. R = Dirs(t, N)
  <2>1. \A i \in 1..Len(w.stack) : FALSE
    <3>1. Len(w.stack) = 0
      BY <1>5
    <3>2. QED BY <3>1
  <2>2. Dirs(t, N) \ R = {}
    BY <2>1, <1>4 DEF WalkInv
  <2>3. QED BY <2>2, <1>6
<1>8. N = Under(t, N)
  <2>1. ASSUME NEW n \in Nodes PROVE n \in EnteredBy(t, R) <=> n \in Under(t, N)
    <3>1. t.parent[n] \in R <=> t.parent[n] = 0 \/ (t.parent[n] \in N /\ t.kind[t.parent[n]] = "dir")
      BY <1>7 DEF Dirs
    <3>2. 0 \notin N
      BY <1>1, <1>6
    <3> HIDE DEF N
    <3>3. QED BY <3>1, <3>2 DEF EnteredBy, Under
  <2>2. N \subseteq Nodes /\ Under(t, N) \subseteq Nodes
    BY <1>6 DEF Under
  <2>3. QED BY <2>1, <2>2
<1> HIDE DEF N, A
<1>9. Reachable(t) = N
  <2>1. N \in SUBSET Nodes
    BY <1>6
  <2>2. Reachable(t) \in SUBSET Nodes /\ Reachable(t) = Under(t, Reachable(t))
    BY <2>1, <1>8 DEF Reachable
  <2>3. QED BY <2>1, <2>2, <1>8, UnderOnce
<1>10. DOMAIN A = 1..Len(A) /\ Len(A) \in Nat
  BY <1>6
<1>11. {A[i].node : i \in DOMAIN A} = N
  BY <1>6, <1>10 DEF EntriesInv
<1>12. \A i, j \in DOMAIN A : A[i].node = A[j].node \/ A[i].frn = A[j].frn => i = j
  <2>1. ASSUME NEW i \in 1..Len(A), NEW j \in 1..Len(A), A[i].node = A[j].node \/ A[i].frn = A[j].frn
        PROVE  i = j
    <3>1. A[i].frn = 99 + i /\ A[j].frn = 99 + j
      BY <1>6 DEF EntriesInv
    <3>2. CASE A[i].node = A[j].node
      BY <3>2, <1>6 DEF EntriesInv
    <3>3. CASE A[i].frn = A[j].frn
      BY <3>1, <3>3, <1>10
    <3>4. QED BY <2>1, <3>2, <3>3
  <2>2. QED BY <2>1, <1>10
<1>13. \A i \in DOMAIN A : \/ t.parent[A[i].node] = 0 /\ A[i].parent = 0
                           \/ \E j \in 1..(i - 1) : /\ A[j].node = t.parent[A[i].node]
                                                    /\ A[j].frn = A[i].parent
  BY <1>6, <1>10 DEF EntriesInv, Placed
<1>14. QED BY <1>5, <1>9, <1>11, <1>12, <1>13 DEF A, w

-----------------------------------------------------------------------------
(* The scan of the MFT.                                                    *)

Rising(s) == \A i, j \in 1..Len(s) : i < j => s[i] < s[j]
Items(s) == {s[i] : i \in 1..Len(s)}

\* A finite set of numbers can be put in order.
LEMMA OrderExists ==
  ASSUME NEW S \in SUBSET Nat, IsFiniteSet(S)
  PROVE  /\ Ascending(S) \in Seq(S) /\ Len(Ascending(S)) = Cardinality(S)
         /\ Rising(Ascending(S)) /\ Items(Ascending(S)) = S
<1> DEFINE c == Cardinality(S)
           Ordered(U, s) == s \in [1..Cardinality(U) -> U] /\ \A i, j \in DOMAIN s : i < j => s[i] < s[j]
           T == {n \in 0..c : \A U \in SUBSET Nat :
                                IsFiniteSet(U) /\ Cardinality(U) = n => \E s : Ordered(U, s)}
<1>1. c \in Nat
  BY FS_CardinalityType
<1>2. 0 \in T
  <2>1. ASSUME NEW U \in SUBSET Nat, IsFiniteSet(U), Cardinality(U) = 0 PROVE \E s : Ordered(U, s)
    <3>1. Ordered(U, [i \in 1..0 |-> 0])
      BY <2>1
    <3> HIDE DEF Ordered
    <3>2. QED BY <3>1
  <2> HIDE DEF Ordered
  <2>2. QED BY <2>1, <1>1
<1>3. ASSUME NEW n \in 1..c, n - 1 \in T PROVE n \in T
  <2>1. ASSUME NEW U \in SUBSET Nat, IsFiniteSet(U), Cardinality(U) = n PROVE \E s : Ordered(U, s)
    <3>1. U # {} /\ n \in Nat /\ n - 1 \in Nat /\ n >= 1
      BY <1>1, <2>1, FS_EmptySet
    <3>2. PICK m \in U : \A y \in U : m <= y
      BY <3>1, LeastElement
    <3> DEFINE V == U \ {m}
    <3>3. V \in SUBSET Nat /\ IsFiniteSet(V) /\ Cardinality(V) = n - 1
      BY <2>1, <3>1, FS_RemoveElement
    <3>4. PICK s : Ordered(V, s)
      <4> HIDE DEF V, Ordered
      <4>1. QED BY <1>3, <3>3
    <3>5. s \in [1..(n - 1) -> V] /\ \A i, j \in 1..(n - 1) : i < j => s[i] < s[j]
      <4> HIDE DEF V
      <4>1. QED BY <3>3, <3>4
    <3> DEFINE h == [i \in 1..n |-> IF i = 1 THEN m ELSE s[i - 1]]
    <3>6. ASSUME NEW i \in 1..n PROVE h[i] \in U /\ (i # 1 => h[i] = s[i - 1] /\ i - 1 \in 1..(n - 1))
      <4>1. CASE i = 1
        BY <4>1
      <4>2. CASE i # 1
        <5>1. i - 1 \in 1..(n - 1)
          BY <4>2, <3>1
        <5>2. s[i - 1] \in U
          BY <5>1, <3>5
        <5>3. QED BY <4>2, <5>1, <5>2
      <4>3. QED BY <4>1, <4>2
    <3>7. ASSUME NEW i \in 1..n, NEW j \in 1..n, i < j PROVE h[i] < h[j]
      <4>1. j # 1 /\ h[j] = s[j - 1] /\ j - 1 \in 1..(n - 1)
        BY <3>6, <3>7
      <4>2. CASE i = 1
        <5>1. s[j - 1] \in U /\ s[j - 1] # m
          BY <4>1, <3>5
        <5>2. h[i] = m
          BY <4>2
        <5>3. m \in Nat /\ s[j - 1] \in Nat /\ m <= s[j - 1]
          BY <5>1, <3>2
        <5>4. QED BY <4>1, <5>1, <5>2, <5>3
      <4>3. CASE i # 1
        <5>1. h[i] = s[i - 1] /\ i - 1 \in 1..(n - 1) /\ i - 1 < j - 1
          BY <3>6, <3>7, <4>3
        <5>2. QED BY <4>1, <5>1, <3>5
      <4>4. QED BY <4>2, <4>3
    <3> HIDE DEF h
    <3>8. h \in [1..n -> U]
      BY <3>6 DEF h
    <3>9. Ordered(U, h)
      BY <2>1, <3>7, <3>8
    <3> HIDE DEF Ordered
    <3>10. QED BY <3>9
  <2>2. n \in 0..c
    BY <1>1
  <2> HIDE DEF Ordered
  <2>3. QED BY <2>1, <2>2
<1>4. \E s : Ordered(S, s)
  <2>1. c \in T
    <3> HIDE DEF T
    <3>1. \A n \in 0..c : n \in T
      BY <1>1, <1>2, <1>3, StepsUpTo
    <3>2. QED BY <3>1, <1>1
  <2> HIDE DEF Ordered
  <2>2. QED BY <2>1
<1> DEFINE a == Ascending(S)
<1>5. a \in [1..c -> S] /\ \A i, j \in DOMAIN a : i < j => a[i] < a[j]
  BY <1>4 DEF Ascending
<1> HIDE DEF a, c
<1>6. a \in Seq(S) /\ Len(a) = c /\ Rising(a)
  BY <1>1, <1>5 DEF Rising
<1>7. \A i, j \in 1..c : a[i] = a[j] => i = j
  <2>1. ASSUME NEW i \in 1..c, NEW j \in 1..c, a[i] = a[j] PROVE i = j
    <3>1. a[i] \in Nat
      BY <1>5
    <3>2. ~(i < j) /\ ~(j < i)
      BY <2>1, <3>1, <1>5
    <3>3. QED BY <3>2, <1>1
  <2>2. QED BY <2>1
<1>8. a \in Injection(1..c, S)
  BY <1>5, <1>7 DEF Injection, IsInjective
<1>9. Cardinality(1..c) = Cardinality(S)
  BY <1>1, FS_Interval DEF c
<1>10. a \in Surjection(1..c, S)
  BY <1>8, <1>9, FS_Injection
<1>11. Items(a) = S
  BY <1>6, <1>10 DEF Surjection, Items
<1>12. QED BY <1>6, <1>11 DEF a, c

\* What is kept of numbers in order is in order.
LEMMA KeptRises ==
  ASSUME NEW seq \in Seq(Nat), NEW wanted, Rising(seq)
  PROVE  Rising(Kept(seq, wanted)) /\ Items(Kept(seq, wanted)) = Items(seq) \cap wanted
         /\ Kept(seq, wanted) \in Seq(Nat)
<1> DEFINE k == Len(seq)
           D(n) == Kept(SubSeq(seq, 1, n), wanted)
           FirstOf(n) == {seq[i] : i \in 1..n}
           T == {n \in 0..k : Rising(D(n)) /\ Items(D(n)) = FirstOf(n) \cap wanted}
<1>1. k \in Nat
  OBVIOUS
<1>2. \A n \in 0..k : D(n) \in Seq(Nat)
  <2>1. \A n \in 0..k : SubSeq(seq, 1, n) \in Seq(Nat)
    BY <1>1
  <2>2. QED BY <2>1, KeptType
<1>3. 0 \in T
  <2>1. SubSeq(seq, 1, 0) = <<>>
    OBVIOUS
  <2>2. D(0) = <<>>
    BY <2>1, KeptNone
  <2>3. Len(<<>>) = 0 /\ FirstOf(0) = {}
    OBVIOUS
  <2> HIDE DEF D, FirstOf
  <2>4. Rising(D(0)) /\ Items(D(0)) = {}
    BY <2>2, <2>3 DEF Rising, Items
  <2>5. QED BY <2>3, <2>4, <1>1
<1>4. \A i, j \in 1..k : i < j => seq[i] < seq[j]
  BY DEF Rising
<1>5. \A n \in 1..k : D(n) = Keep(D(n - 1), seq[n], wanted)
  BY KeptNext
<1>6. \A i \in 1..k : seq[i] \in Nat
  OBVIOUS
<1> HIDE DEF k, D
<1>7. ASSUME NEW n \in 1..k, n - 1 \in T PROVE n \in T
  <2> DEFINE d == D(n - 1)
             x == seq[n]
             L == Len(d)
  <2>1. n \in 0..k /\ n - 1 \in 0..k /\ d \in Seq(Nat) /\ x \in Nat
    BY <1>1, <1>2, <1>6
  <2>2. Rising(d) /\ Items(d) = FirstOf(n - 1) \cap wanted
    BY <1>7
  <2>3. FirstOf(n) = FirstOf(n - 1) \cup {x}
    <3>1. \A j \in 1..n : j \in 1..(n - 1) \/ j = n
      BY <1>1
    <3>2. \A j \in 1..(n - 1) : j \in 1..n
      BY <1>1
    <3>3. n \in 1..n
      BY <1>1
    <3>4. QED BY <3>1, <3>2, <3>3
  <2>4. \A y \in FirstOf(n - 1) : y < x
    <3>1. ASSUME NEW i \in 1..(n - 1) PROVE seq[i] < seq[n]
      BY <1>1, <1>4
    <3>2. QED BY <3>1
  <2>5. D(n) = Keep(d, x, wanted)
    BY <1>5
  <2> HIDE DEF d, x, FirstOf
  <2>6. CASE x \notin wanted
    <3>1. D(n) = d
      BY <2>5, <2>6 DEF Keep
    <3>2. QED BY <2>1, <2>2, <2>3, <2>6, <3>1
  <2>7. CASE x \in wanted
    <3>1. D(n) = Append(d, x)
      BY <2>5, <2>7 DEF Keep
    <3>2. L \in Nat /\ Len(D(n)) = L + 1 /\ D(n)[L + 1] = x /\ \A i \in 1..L : D(n)[i] = d[i]
      BY <2>1, <3>1
    <3>3. \A i \in 1..L : d[i] \in FirstOf(n - 1) /\ d[i] < x
      BY <2>2, <2>4 DEF Items
    <3>4. Rising(D(n))
      <4>1. ASSUME NEW i \in 1..(L + 1), NEW j \in 1..(L + 1), i < j PROVE D(n)[i] < D(n)[j]
        <5>1. i \in 1..L
          BY <3>2, <4>1
        <5>2. CASE j = L + 1
          BY <5>1, <5>2, <3>2, <3>3
        <5>3. CASE j \in 1..L
          BY <4>1, <5>1, <5>3, <2>2, <3>2 DEF Rising
        <5>4. QED BY <5>2, <5>3, <3>2
      <4>2. QED BY <4>1, <3>2 DEF Rising
    <3>5. Items(D(n)) = Items(d) \cup {x}
      <4>1. \A i \in 1..(L + 1) : i \in 1..L \/ i = L + 1
        BY <3>2
      <4>2. \A i \in 1..L : i \in 1..(L + 1)
        BY <3>2
      <4>3. L + 1 \in 1..(L + 1)
        BY <3>2
      <4>4. Items(D(n)) = {D(n)[i] : i \in 1..(L + 1)}
        BY <3>2 DEF Items
      <4>5. QED BY <4>1, <4>2, <4>3, <4>4, <3>2 DEF Items
    <3>6. QED BY <2>1, <2>2, <2>3, <2>7, <3>4, <3>5
  <2>8. QED BY <2>6, <2>7
<1>8. k \in T
  <2> HIDE DEF T
  <2>1. \A n \in 0..k : n \in T
    BY <1>1, <1>3, <1>7, StepsUpTo
  <2>2. QED BY <2>1, <1>1
<1>9. SubSeq(seq, 1, k) = seq
  BY DEF k
<1>10. FirstOf(k) = Items(seq)
  BY DEF Items, k
<1>11. QED BY <1>1, <1>2, <1>8, <1>9, <1>10 DEF D

\* Numbers in order followed by larger ones in order.
LEMMA JoinRises ==
  ASSUME NEW s \in Seq(Nat), NEW u \in Seq(Nat), Rising(s), Rising(u),
         \A x \in Items(s) : \A y \in Items(u) : x < y
  PROVE  s \o u \in Seq(Nat) /\ Rising(s \o u) /\ Items(s \o u) = Items(s) \cup Items(u)
<1> DEFINE p == s \o u
           m == Len(s)
           n == Len(u)
<1>1. /\ m \in Nat /\ n \in Nat /\ p \in Seq(Nat) /\ Len(p) = m + n
      /\ \A i \in 1..m : p[i] = s[i]
      /\ \A i \in 1..(m + n) : i > m => p[i] = u[i - m]
  OBVIOUS
<1> HIDE DEF p
<1>2. ASSUME NEW i \in 1..(m + n), NEW j \in 1..(m + n), i < j PROVE p[i] < p[j]
  <2>1. CASE j <= m
    <3>1. i \in 1..m /\ j \in 1..m
      BY <1>1, <1>2, <2>1
    <3>2. QED BY <3>1, <1>1, <1>2 DEF Rising
  <2>2. CASE i > m
    <3>0. m \in Nat /\ n \in Nat /\ i \in 1..(m + n) /\ j \in 1..(m + n) /\ i < j /\ i > m
      BY <1>1, <1>2, <2>2
    <3>1. i - m \in 1..n /\ j - m \in 1..n /\ i - m < j - m /\ j > m
      <4> HIDE DEF m, n
      <4>1. QED BY <3>0
    <3>2. p[i] = u[i - m] /\ p[j] = u[j - m]
      BY <3>1, <2>2, <1>1
    <3> HIDE DEF n, m
    <3>3. u[i - m] < u[j - m]
      BY <3>1 DEF Rising, n
    <3>4. QED BY <3>2, <3>3
  <2>3. CASE i <= m /\ j > m
    <3>1. i \in 1..m /\ j - m \in 1..n
      BY <1>1, <1>2, <2>3
    <3>2. p[i] = s[i] /\ p[j] = u[j - m]
      BY <3>1, <2>3, <1>1
    <3>3. s[i] \in Items(s) /\ u[j - m] \in Items(u)
      BY <3>1 DEF Items
    <3>4. s[i] < u[j - m]
      BY <3>3, Zenon
    <3>5. QED BY <3>2, <3>4, Zenon
  <2>4. QED BY <2>1, <2>2, <2>3, <1>1
<1>3. Items(p) = Items(s) \cup Items(u)
  <2>1. ASSUME NEW i \in 1..(m + n) PROVE p[i] \in Items(s) \cup Items(u)
    <3>1. CASE i <= m
      <4>1. i \in 1..m /\ p[i] = s[i]
        BY <3>1, <1>1
      <4>2. QED BY <4>1 DEF Items
    <3>2. CASE i > m
      <4>1. i - m \in 1..n /\ p[i] = u[i - m]
        BY <3>2, <1>1
      <4>2. QED BY <4>1 DEF Items
    <3>3. QED BY <3>1, <3>2, <1>1
  <2>2. ASSUME NEW i \in 1..m PROVE s[i] \in Items(p)
    <3>1. i \in 1..Len(p) /\ p[i] = s[i]
      BY <1>1
    <3>2. QED BY <3>1 DEF Items
  <2>3. ASSUME NEW i \in 1..n PROVE u[i] \in Items(p)
    <3>1. i + m \in 1..Len(p) /\ i + m > m /\ i + m - m = i /\ i + m \in 1..(m + n)
      BY <1>1
    <3>2. p[i + m] = u[i + m - m]
      BY <3>1, <1>1
    <3>3. p[i + m] = u[i]
      BY <3>1, <3>2
    <3>4. QED BY <3>1, <3>3 DEF Items
  <2>4. Items(p) \subseteq Items(s) \cup Items(u)
    BY <2>1, <1>1 DEF Items
  <2>5. Items(s) \cup Items(u) \subseteq Items(p)
    <3>1. Items(s) \subseteq Items(p)
      BY <2>2 DEF Items
    <3>2. Items(u) \subseteq Items(p)
      BY <2>3 DEF Items
    <3>3. QED BY <3>1, <3>2
  <2>6. QED BY <2>4, <2>5
<1>4. Rising(p)
  BY <1>1, <1>2 DEF Rising
<1>5. QED BY <1>1, <1>3, <1>4 DEF p

MftScans == [start : Nat, added : Seq(Nat), done : BOOLEAN]
AtLeast(mft, start) == {n \in mft : n >= start}
UserFiles == {n \in Numbers : n >= FirstUser}

LEMMA LargestExists ==
  ASSUME NEW S \in SUBSET Nat, IsFiniteSet(S), S # {}
  PROVE  Max(S) \in S /\ \A n \in S : n <= Max(S)
<1> DEFINE a == Ascending(S)
           k == Len(a)
<1>1. a \in Seq(S) /\ Rising(a) /\ Items(a) = S
  BY OrderExists
<1> HIDE DEF a
<1>2. k \in Nat /\ k # 0
  <2>1. k \in Nat
    BY <1>1
  <2>2. ASSUME k = 0 PROVE FALSE
    BY <1>1, <2>2 DEF Items
  <2>3. QED BY <2>1, <2>2
<1>3. k \in 1..k /\ a[k] \in S /\ a[k] \in Nat
  <2>1. \A i \in 1..Len(a) : a[i] \in S
    BY <1>1
  <2>2. k \in 1..k
    BY <1>2
  <2>3. QED BY <2>1, <2>2
<1>4. ASSUME NEW n \in S PROVE n <= a[k]
  <2>1. PICK i \in 1..k : a[i] = n
    BY <1>1 DEF Items
  <2>2. CASE i = k
    BY <2>1, <2>2, <1>3
  <2>3. CASE i < k
    BY <2>1, <2>3, <1>1, <1>3 DEF Rising
  <2>4. QED BY <2>2, <2>3, <1>2
<1>5. \E x \in S : \A y \in S : x >= y
  <2>1. \A y \in S : a[k] >= y
    BY <1>3, <1>4
  <2>2. QED BY <1>3, <2>1
<1>6. Max(S) \in S /\ \A y \in S : Max(S) >= y
  BY <1>5 DEF Max
<1>7. QED BY <1>6

\* The kernel's answer: the lowest of the numbers it has left, in order; it has none
\* only when none is left.
LEMMA AnswerFacts ==
  ASSUME NEW mft \in SUBSET Nat, IsFiniteSet(mft), NEW start \in Nat, NEW stall \in Int
  PROVE  LET ans == Answer(mft, start, stall)
         IN  /\ ans.eof <=> AtLeast(mft, start) = {}
             /\ ans.next \in Nat /\ ans.records \in Seq(Nat) /\ Rising(ans.records)
             /\ ~ans.eof =>
                  \E last \in AtLeast(mft, start) :
                    /\ Items(ans.records) = {n \in mft : n >= start /\ n < last + 1}
                    /\ ans.next = IF start = stall THEN start ELSE last + 1
<1> DEFINE rest == AtLeast(mft, start)
           Below(n) == {m \in rest : m < n}
           some == {n \in rest : Cardinality(Below(n)) < Batch}
           ans == Answer(mft, start, stall)
           last == Max(some)
<1>1. rest \subseteq mft /\ rest \in SUBSET Nat /\ IsFiniteSet(rest)
  BY FS_Subset DEF AtLeast
<1>2. some \subseteq rest /\ some \in SUBSET Nat /\ IsFiniteSet(some)
  BY <1>1, FS_Subset
<1>3. /\ ans.eof = (rest = {}) /\ ans.records = Ascending(some)
      /\ ans.next = IF rest = {} \/ start = stall THEN start ELSE last + 1
  BY DEF Answer, AtLeast
<1>4. Batch \in Nat \ {0}
  BY ScanAssumption
<1> HIDE DEF rest, ans
<1>5. \A n \in rest : IsFiniteSet(Below(n)) /\ Cardinality(Below(n)) \in Nat
  <2>1. \A n \in rest : Below(n) \subseteq rest
    OBVIOUS
  <2> HIDE DEF Below
  <2>2. QED BY <2>1, <1>1, FS_Subset, FS_CardinalityType
<1>6. ASSUME rest # {} PROVE some # {}
  <2>1. PICK n \in rest : \A m \in rest : n <= m
    BY <1>1, <1>6, LeastElement
  <2>2. Below(n) = {}
    <3>1. ASSUME NEW m \in rest, m < n PROVE FALSE
      <4>1. m \in Nat /\ n \in Nat /\ n <= m
        BY <1>1, <2>1
      <4>2. QED BY <4>1, <3>1
    <3>2. QED BY <3>1
  <2>3. Cardinality(Below(n)) = 0
    BY <2>2, FS_EmptySet
  <2>4. n \in some
    BY <2>3, <1>4
  <2>5. QED BY <2>4
<1>7. ASSUME NEW y \in some, NEW x \in rest, x <= y PROVE x \in some
  <2>1. x \in Nat /\ y \in Nat /\ y \in rest
    BY <1>1, <1>2
  <2>2. Below(x) \subseteq Below(y)
    <3>1. ASSUME NEW m \in rest, m < x PROVE m < y
      <4>1. m \in Nat
        BY <1>1
      <4>2. QED BY <4>1, <3>1, <2>1, <1>7
    <3>2. QED BY <3>1
  <2>3. Cardinality(Below(y)) < Batch
    OBVIOUS
  <2> HIDE DEF Below
  <2>4. Cardinality(Below(x)) <= Cardinality(Below(y))
    BY <2>1, <2>2, <1>5, FS_Subset
  <2>5. Cardinality(Below(x)) < Batch
    BY <2>1, <2>3, <2>4, <1>4, <1>5
  <2>6. QED BY <2>5
<1> HIDE DEF some, last
<1>8. ans.records \in Seq(Nat) /\ Rising(ans.records) /\ Items(ans.records) = some
  <2>1. /\ Ascending(some) \in Seq(some) /\ Rising(Ascending(some))
        /\ Items(Ascending(some)) = some
    BY <1>2, OrderExists
  <2>2. Ascending(some) \in Seq(Nat)
    <3> DEFINE q == Ascending(some)
    <3>1. q \in Seq(some)
      BY <2>1
    <3> HIDE DEF q
    <3>2. Len(q) \in Nat /\ q \in [1..Len(q) -> some]
      BY <3>1
    <3>3. q \in [1..Len(q) -> Nat]
      BY <3>2, <1>2
    <3>4. q \in Seq(Nat)
      BY <3>2, <3>3
    <3>5. QED BY <3>4 DEF q
  <2>3. QED BY <1>3, <2>1, <2>2
<1>9. ASSUME rest # {}
      PROVE  /\ last \in rest /\ last \in Nat
             /\ some = {n \in mft : n >= start /\ n < last + 1}
  <2>1. last \in some /\ \A n \in some : n <= last
    BY <1>2, <1>6, <1>9, LargestExists DEF last
  <2>2. last \in rest /\ last \in Nat
    <3>1. last \in rest
      BY <1>2, <2>1
    <3>2. QED BY <3>1, <1>1
  <2>3. ASSUME NEW n \in some PROVE n \in mft /\ n >= start /\ n < last + 1
    <3>1. n \in rest /\ n \in Nat /\ n <= last
      BY <1>2, <2>1
    <3>2. QED BY <3>1, <2>2 DEF rest, AtLeast
  <2>4. ASSUME NEW n \in mft, n >= start, n < last + 1 PROVE n \in some
    <3>1. n \in rest /\ n <= last
      BY <2>2, <2>4 DEF rest, AtLeast
    <3>2. QED BY <3>1, <2>1, <1>7
  <2>5. some = {n \in mft : n >= start /\ n < last + 1}
    BY <2>3, <2>4
  <2>6. QED BY <2>2, <2>5
<1>10. ans.next \in Nat
  <2>1. CASE rest = {} \/ start = stall
    BY <2>1, <1>3
  <2>2. CASE rest # {} /\ start # stall
    BY <2>2, <1>3, <1>9
  <2>3. QED BY <2>1, <2>2
<1>11. ASSUME ~ans.eof
       PROVE  \E u \in rest :
                /\ Items(ans.records) = {n \in mft : n >= start /\ n < u + 1}
                /\ ans.next = IF start = stall THEN start ELSE u + 1
  <2>1. rest # {}
    BY <1>3, <1>11
  <2>2. ans.next = IF start = stall THEN start ELSE last + 1
    BY <1>3, <2>1
  <2>3. Items(ans.records) = {n \in mft : n >= start /\ n < last + 1}
    BY <1>8, <1>9, <2>1
  <2>4. last \in rest
    BY <1>9, <2>1
  <2>5. QED BY <2>2, <2>3, <2>4
<1>12. ans.eof <=> rest = {}
  BY <1>3
<1>13. QED BY <1>8, <1>10, <1>11, <1>12 DEF rest, ans

LEMMA EnumerateType ==
  ASSUME NEW mft \in SUBSET Nat, IsFiniteSet(mft), NEW stall \in Int, NEW s \in MftScans
  PROVE  EnumerateFrom(mft, stall, s) \in MftScans
<1> DEFINE ans == Answer(mft, s.start, stall)
           kept == Kept(ans.records, UserFiles)
<1>1. s.start \in Nat /\ s.added \in Seq(Nat) /\ s.done \in BOOLEAN
  BY DEF MftScans
<1>2. ans.next \in Nat /\ ans.records \in Seq(Nat)
  BY <1>1, AnswerFacts
<1>3. EnumerateFrom(mft, stall, s)
      = IF s.done THEN s
        ELSE IF ans.eof THEN [s EXCEPT !.done = TRUE]
        ELSE [start |-> ans.next, added |-> s.added \o kept, done |-> ans.next = s.start]
  BY DEF EnumerateFrom, UserFiles
<1> HIDE DEF ans
<1>4. kept \in Seq(Nat)
  BY <1>2, KeptType
<1> HIDE DEF kept
<1>5. s.added \o kept \in Seq(Nat)
  BY <1>1, <1>4
<1>6. [s EXCEPT !.done = TRUE] \in MftScans
  BY DEF MftScans
<1>7. [start |-> ans.next, added |-> s.added \o kept, done |-> ans.next = s.start] \in MftScans
  BY <1>2, <1>5 DEF MftScans
<1>8. QED BY <1>3, <1>6, <1>7

LEMMA EnumerateIsRun ==
  ASSUME NEW mft \in SUBSET Nat, IsFiniteSet(mft), NEW stall \in Int
  PROVE  \E g : /\ g \in [0..(Cardinality(mft) + 1) -> MftScans]
                /\ g[0] = [start |-> 0, added |-> <<>>, done |-> FALSE]
                /\ \A n \in 1..(Cardinality(mft) + 1) : g[n] = EnumerateFrom(mft, stall, g[n - 1])
                /\ Enumerate(mft, stall) = g[Cardinality(mft) + 1]
<1> DEFINE k == Cardinality(mft) + 1
           first == [start |-> 0, added |-> <<>>, done |-> FALSE]
           step == [p \in (1..k) \X MftScans |-> EnumerateFrom(mft, stall, p[2])]
           Def(g) == [i \in 0..k |-> IF i = 0 THEN first ELSE EnumerateFrom(mft, stall, g[i - 1])]
           scan == CHOOSE h : h = Def(h)
<1>1. k \in Nat
  BY FS_CardinalityType
<1>2. Enumerate(mft, stall) = scan[k]
  BY DEF Enumerate
<1>3. first \in MftScans
  BY DEF MftScans
<1> HIDE DEF k, first, scan
<1>4. step \in [(1..k) \X MftScans -> MftScans]
  <2>1. ASSUME NEW p \in (1..k) \X MftScans PROVE EnumerateFrom(mft, stall, p[2]) \in MftScans
    <3>1. p[2] \in MftScans
      OBVIOUS
    <3>2. QED BY <3>1, EnumerateType
  <2>2. QED BY <2>1
<1>5. PICK g : RunOf(g, MftScans, k, step, first)
  <2> HIDE DEF step
  <2>1. QED BY <1>1, <1>3, <1>4, Iterates
<1>6. g \in [0..k -> MftScans] /\ g[0] = first /\ \A n \in 1..k : g[n] = EnumerateFrom(mft, stall, g[n - 1])
  <2>1. ASSUME NEW n \in 1..k PROVE g[n] = EnumerateFrom(mft, stall, g[n - 1])
    <3>1. n - 1 \in 0..k
      BY <1>1
    <3>2. g[n - 1] \in MftScans
      BY <3>1, <1>5 DEF RunOf
    <3>3. <<n, g[n - 1]>> \in (1..k) \X MftScans
      BY <3>2
    <3>4. QED BY <1>5, <3>3 DEF RunOf
  <2>2. QED BY <2>1, <1>5 DEF RunOf
<1>7. g = Def(g)
  <2>1. ASSUME NEW n \in 0..k PROVE g[n] = Def(g)[n]
    BY <1>1, <1>6
  <2>2. QED BY <2>1, <1>6
<1>8. scan = Def(scan)
  <2> HIDE DEF Def
  <2>1. QED BY <1>7 DEF scan
<1> HIDE DEF step
<1>9. scan[0] = first /\ \A n \in 1..k : scan[n] = EnumerateFrom(mft, stall, scan[n - 1])
  BY <1>1, <1>8
<1>10. \A n \in 0..k : scan[n] = g[n]
  <2> DEFINE T == {n \in 0..k : scan[n] = g[n]}
  <2>1. 0 \in T
    BY <1>1, <1>6, <1>9
  <2>2. ASSUME NEW n \in 1..k, n - 1 \in T PROVE n \in T
    <3>1. scan[n - 1] = g[n - 1] /\ n \in 0..k
      BY <1>1, <2>2
    <3>2. scan[n] = g[n]
      BY <3>1, <1>6, <1>9
    <3>3. QED BY <3>1, <3>2
  <2> HIDE DEF T
  <2>3. \A n \in 0..k : n \in T
    BY <1>1, <2>1, <2>2, StepsUpTo
  <2>4. QED BY <2>3 DEF T
<1>11. Enumerate(mft, stall) = g[k]
  BY <1>1, <1>2, <1>10
<1>12. QED BY <1>6, <1>11 DEF k, first

\* After some answers: what was added is what lies below the place the scan has
\* reached, and every answer left the kernel with less.
MftInv(mft, stall, s, n) ==
  /\ s \in MftScans /\ Rising(s.added)
  /\ \E below \in {0} \cup {m + 1 : m \in mft} :
       /\ Items(s.added) = {m \in mft : m >= FirstUser /\ m < below}
       /\ ~s.done => below = s.start
       /\ stall = -1 /\ s.done => \A m \in mft : m < below
  /\ s.done \/ Cardinality(AtLeast(mft, s.start)) + n <= Cardinality(mft)

LEMMA EnumerateNext ==
  ASSUME NEW mft \in SUBSET Numbers, IsFiniteSet(mft), NEW stall \in Int, NEW s,
         NEW n \in Nat \ {0}, MftInv(mft, stall, s, n - 1)
  PROVE  MftInv(mft, stall, EnumerateFrom(mft, stall, s), n)
<1> DEFINE ans == Answer(mft, s.start, stall)
           kept == Kept(ans.records, UserFiles)
           A == s.added
           B == s.start
           new == EnumerateFrom(mft, stall, s)
           Low(b) == {m \in mft : m >= FirstUser /\ m < b}
           all == A \o kept
<1>1. Numbers \subseteq Nat /\ mft \in SUBSET Nat /\ FirstUser \in Nat
  BY ScanAssumption
<1>2. s \in MftScans /\ B \in Nat /\ A \in Seq(Nat) /\ s.done \in BOOLEAN /\ Rising(A)
  BY DEF MftInv, MftScans
<1>3. PICK below \in {0} \cup {m + 1 : m \in mft} :
         /\ Items(A) = Low(below) /\ (~s.done => below = B)
         /\ stall = -1 /\ s.done => \A m \in mft : m < below
  BY DEF MftInv
<1>4. new = IF s.done THEN s
            ELSE IF ans.eof THEN [s EXCEPT !.done = TRUE]
            ELSE [start |-> ans.next, added |-> all, done |-> ans.next = B]
  BY DEF EnumerateFrom, UserFiles
<1>5. new \in MftScans
  BY <1>1, <1>2, EnumerateType
<1>6. /\ ans.eof <=> AtLeast(mft, B) = {}
      /\ ans.records \in Seq(Nat) /\ Rising(ans.records)
      /\ ~ans.eof => \E last \in AtLeast(mft, B) :
                       /\ Items(ans.records) = {m \in mft : m >= B /\ m < last + 1}
                       /\ ans.next = IF B = stall THEN B ELSE last + 1
  BY <1>1, <1>2, AnswerFacts
<1>7. s.done \/ Cardinality(AtLeast(mft, B)) + (n - 1) <= Cardinality(mft)
  BY DEF MftInv
<1> HIDE DEF ans, kept, A, B, new, all
<1>8. CASE s.done
  <2>1. new = s
    BY <1>4, <1>8
  <2>2. s.added = A
    BY DEF A
  <2>3. Items(s.added) = {m \in mft : m >= FirstUser /\ m < below}
    BY <1>3, <2>2
  <2>4. QED BY <1>2, <1>3, <1>8, <2>1, <2>2, <2>3 DEF MftInv, new
<1>9. CASE ~s.done /\ ans.eof
  <2>1. new.added = A /\ new.done
    BY <1>2, <1>4, <1>9 DEF A, MftScans
  <2>2. \A m \in mft : m < below
    <3>1. ASSUME NEW m \in mft PROVE m < B
      <4>1. m \in Nat /\ ~(m >= B)
        BY <1>1, <1>6, <1>9 DEF AtLeast
      <4>2. QED BY <4>1, <1>2
    <3>2. QED BY <3>1, <1>3, <1>9
  <2>3. Items(new.added) = {m \in mft : m >= FirstUser /\ m < below}
    BY <2>1, <1>3
  <2>4. QED BY <1>2, <1>5, <2>1, <2>2, <2>3 DEF MftInv, new
<1>10. CASE ~s.done /\ ~ans.eof
  <2>1. PICK last \in AtLeast(mft, B) :
           /\ Items(ans.records) = {m \in mft : m >= B /\ m < last + 1}
           /\ ans.next = IF B = stall THEN B ELSE last + 1
    BY <1>6, <1>10
  <2>2. last \in mft /\ last \in Nat /\ last >= B
    <3>1. last \in mft /\ last >= B
      BY DEF AtLeast
    <3>2. QED BY <3>1, <1>1
  <2>3. new.start = ans.next /\ new.added = all /\ new.done = (ans.next = B)
    BY <1>4, <1>10
  <2>4. Items(A) = Low(B)
    BY <1>3, <1>10
  <2>5. kept \in Seq(Nat) /\ Rising(kept) /\ Items(kept) = Items(ans.records) \cap UserFiles
    BY <1>6, KeptRises DEF kept
  <2>6. \A m \in Items(kept) : m \in mft /\ m >= B /\ m < last + 1 /\ m >= FirstUser
    BY <2>1, <2>5 DEF UserFiles
  <2>7. \A x \in Items(A) : \A y \in Items(kept) : x < y
    <3>1. ASSUME NEW x \in Items(A), NEW y \in Items(kept) PROVE x < y
      <4>1. x \in Nat /\ x < B /\ y \in Nat /\ y >= B
        BY <1>1, <2>4, <2>6
      <4>2. QED BY <4>1, <1>2
    <3>2. QED BY <3>1
  <2>8. Rising(all) /\ Items(all) = Items(A) \cup Items(kept)
    BY <1>2, <2>5, <2>7, JoinRises DEF all
  <2>9. Items(all) = Low(last + 1)
    <3>1. ASSUME NEW m \in Items(all) PROVE m \in Low(last + 1)
      <4>1. CASE m \in Items(A)
        <5>1. m \in mft /\ m \in Nat /\ m >= FirstUser /\ m < B
          BY <1>1, <2>4, <4>1
        <5>2. m < last + 1
          BY <5>1, <2>2, <1>2
        <5>3. QED BY <5>1, <5>2
      <4>2. CASE m \in Items(kept)
        BY <4>2, <2>6
      <4>3. QED BY <4>1, <4>2, <2>8
    <3>2. ASSUME NEW m \in Low(last + 1) PROVE m \in Items(all)
      <4>1. m \in mft /\ m \in Nat /\ m >= FirstUser /\ m < last + 1 /\ m \in Numbers
        BY <1>1
      <4>2. CASE m < B
        BY <4>1, <4>2, <2>4, <2>8
      <4>3. CASE m >= B
        BY <4>1, <4>3, <2>1, <2>5, <2>8 DEF UserFiles
      <4>4. QED BY <4>1, <4>2, <4>3, <1>2
    <3>3. QED BY <3>1, <3>2
  <2>10. CASE B = stall
    <3>1. new.done /\ stall # -1
      BY <2>1, <2>3, <2>10, <1>2, <1>5 DEF MftScans
    <3>2. Items(new.added) = {m \in mft : m >= FirstUser /\ m < last + 1}
      BY <2>3, <2>9
    <3>3. last + 1 \in {0} \cup {m + 1 : m \in mft}
      BY <2>2
    <3>4. QED BY <1>5, <2>3, <2>8, <3>1, <3>2, <3>3 DEF MftInv, new
  <2>11. CASE B # stall
    <3>1. new.start = last + 1 /\ ~new.done
      BY <1>2, <1>5, <2>1, <2>2, <2>3, <2>11 DEF MftScans
    <3>2. Items(new.added) = {m \in mft : m >= FirstUser /\ m < last + 1}
      BY <2>3, <2>9
    <3>3. last + 1 \in {0} \cup {m + 1 : m \in mft}
      BY <2>2
    <3>4. Cardinality(AtLeast(mft, last + 1)) + n <= Cardinality(mft)
      <4> DEFINE R == AtLeast(mft, B)
                 Q == AtLeast(mft, last + 1)
      <4>1. IsFiniteSet(R)
        BY FS_Subset DEF AtLeast
      <4>2. Q \subseteq R \ {last}
        <5>1. ASSUME NEW m \in Q PROVE m \in R /\ m # last
          <6>1. m \in mft /\ m \in Nat /\ m >= last + 1
            BY <1>1 DEF AtLeast
          <6>2. m >= B /\ m # last
            BY <6>1, <2>2, <1>2
          <6>3. QED BY <6>1, <6>2 DEF AtLeast
        <5>2. QED BY <5>1
      <4> HIDE DEF R, Q
      <4>3. IsFiniteSet(R \ {last}) /\ Cardinality(R \ {last}) = Cardinality(R) - 1
        BY <4>1, FS_RemoveElement DEF R
      <4>4. IsFiniteSet(Q) /\ Cardinality(Q) <= Cardinality(R \ {last})
        BY <4>2, <4>3, FS_Subset
      <4>5. Cardinality(R) \in Nat /\ Cardinality(Q) \in Nat /\ Cardinality(mft) \in Nat
        BY <4>1, <4>4, FS_CardinalityType
      <4>6. Cardinality(R) + (n - 1) <= Cardinality(mft)
        BY <1>7, <1>10 DEF R
      <4>7. Cardinality(Q) + n <= Cardinality(mft)
        BY <4>3, <4>4, <4>5, <4>6
      <4>8. QED BY <4>7 DEF Q
    <3>5. QED BY <1>5, <2>3, <2>8, <3>1, <3>2, <3>3, <3>4 DEF MftInv, new
  <2>12. QED BY <2>10, <2>11
<1>11. QED BY <1>8, <1>9, <1>10

\* The scan of the MFT (ScanIsWhole), for any numbers in use, any batch the kernel
\* answers with and any place it may fail to get on from: the scan ends, what it added
\* is every user file below where it ended, once and in order, and none is left unless
\* the kernel stopped making progress.
THEOREM TheScanIsWhole == ScanIsWhole
<1>1. SUFFICES ASSUME NEW mft \in SUBSET Numbers, IsFiniteSet(mft), NEW stall \in Numbers \cup {-1}
               PROVE  LET scan == Enumerate(mft, stall)
                      IN  /\ scan.done
                          /\ \E below \in {0} \cup {n + 1 : n \in mft} :
                                /\ AddedBelow(mft, scan.added, below)
                                /\ stall = -1 => \A n \in mft : n < below
  BY DEF ScanIsWhole
<1>2. mft \in SUBSET Nat /\ stall \in Int
  BY ScanAssumption
<1> DEFINE c == Cardinality(mft)
           k == c + 1
           first == [start |-> 0, added |-> <<>>, done |-> FALSE]
           scan == Enumerate(mft, stall)
<1>3. c \in Nat /\ k \in Nat /\ k = c + 1
  BY <1>1, FS_CardinalityType
<1>4. PICK g : /\ g \in [0..k -> MftScans] /\ g[0] = first
               /\ \A n \in 1..k : g[n] = EnumerateFrom(mft, stall, g[n - 1])
               /\ scan = g[k]
  BY <1>1, <1>2, EnumerateIsRun
<1> DEFINE T == {n \in 0..k : MftInv(mft, stall, g[n], n)}
<1>5. 0 \in T
  <2>1. first \in MftScans /\ first.added = <<>> /\ first.start = 0 /\ ~first.done
    BY DEF MftScans
  <2>2. Rising(<<>>) /\ Items(<<>>) = {}
    BY DEF Rising, Items
  <2>3. Items(<<>>) = {m \in mft : m >= FirstUser /\ m < 0}
    <3>1. \A m \in mft : m \in Nat
      BY <1>2
    <3>2. QED BY <3>1, <2>2
  <2>4. Cardinality(AtLeast(mft, 0)) + 0 <= Cardinality(mft)
    <3>1. AtLeast(mft, 0) = mft
      <4>1. \A m \in mft : m \in Nat
        BY <1>2
      <4>2. QED BY <4>1 DEF AtLeast
    <3>2. QED BY <3>1, <1>3
  <2> HIDE DEF first
  <2>5. MftInv(mft, stall, first, 0)
    BY <2>1, <2>2, <2>3, <2>4 DEF MftInv
  <2>6. 0 \in 0..k /\ g[0] = first
    BY <1>3, <1>4
  <2>7. QED BY <2>5, <2>6
<1> HIDE DEF k, scan, first
<1>6. ASSUME NEW n \in 1..k, n - 1 \in T PROVE n \in T
  <2>1. n \in Nat \ {0} /\ n \in 0..k
    BY <1>3
  <2>2. MftInv(mft, stall, g[n - 1], n - 1)
    BY <1>6
  <2>3. MftInv(mft, stall, EnumerateFrom(mft, stall, g[n - 1]), n)
    BY <1>1, <1>2, <2>1, <2>2, EnumerateNext
  <2>4. QED BY <1>4, <2>1, <2>3
<1>7. MftInv(mft, stall, g[k], k)
  <2> HIDE DEF T
  <2>1. \A n \in 0..k : n \in T
    BY <1>3, <1>5, <1>6, StepsUpTo
  <2>2. QED BY <2>1, <1>3 DEF T
<1>8. scan.done /\ scan \in MftScans /\ Rising(scan.added)
  <2>1. Cardinality(AtLeast(mft, scan.start)) \in Nat
    BY <1>1, FS_Subset, FS_CardinalityType DEF AtLeast
  <2>2. /\ scan \in MftScans /\ Rising(scan.added)
        /\ scan.done \/ Cardinality(AtLeast(mft, scan.start)) + k <= Cardinality(mft)
    BY <1>4, <1>7 DEF MftInv
  <2>3. QED BY <1>3, <2>1, <2>2
<1>9. PICK below \in {0} \cup {m + 1 : m \in mft} :
         /\ Items(scan.added) = {m \in mft : m >= FirstUser /\ m < below}
         /\ stall = -1 /\ scan.done => \A m \in mft : m < below
  BY <1>4, <1>7 DEF MftInv
<1>10. AddedBelow(mft, scan.added, below)
  <2>1. DOMAIN scan.added = 1..Len(scan.added)
    BY <1>8 DEF MftScans
  <2>2. ToSet(scan.added) = Items(scan.added)
    BY <2>1 DEF ToSet, Items
  <2>3. QED BY <1>8, <1>9, <2>1, <2>2 DEF AddedBelow, Rising
<1>11. QED BY <1>8, <1>9, <1>10 DEF scan

\* The items kept are those of the sequence that are wanted.
LEMMA KeptItems ==
  ASSUME NEW E, NEW seq \in Seq(E), NEW wanted
  PROVE  Items(Kept(seq, wanted)) = Items(seq) \cap wanted
<1> DEFINE k == Len(seq)
           D(n) == Kept(SubSeq(seq, 1, n), wanted)
           FirstOf(n) == {seq[i] : i \in 1..n}
           T == {n \in 0..k : Items(D(n)) = FirstOf(n) \cap wanted}
<1>1. k \in Nat
  OBVIOUS
<1>2. \A n \in 0..k : D(n) \in Seq(E)
  <2>1. \A n \in 0..k : SubSeq(seq, 1, n) \in Seq(E)
    BY <1>1
  <2>2. QED BY <2>1, KeptType
<1>3. 0 \in T
  <2>1. SubSeq(seq, 1, 0) = <<>>
    OBVIOUS
  <2>2. D(0) = <<>>
    BY <2>1, KeptNone
  <2>3. Len(<<>>) = 0 /\ FirstOf(0) = {}
    OBVIOUS
  <2> HIDE DEF D, FirstOf
  <2>4. Items(D(0)) = {}
    BY <2>2, <2>3 DEF Items
  <2>5. QED BY <2>3, <2>4, <1>1
<1>4. \A n \in 1..k : D(n) = Keep(D(n - 1), seq[n], wanted)
  BY KeptNext
<1>5. \A i \in 1..k : seq[i] \in E
  OBVIOUS
<1> HIDE DEF k, D
<1>6. ASSUME NEW n \in 1..k, n - 1 \in T PROVE n \in T
  <2> DEFINE d == D(n - 1)
             x == seq[n]
             L == Len(d)
  <2>1. n \in 0..k /\ d \in Seq(E) /\ x \in E
    <3>1. n \in 0..k /\ n - 1 \in 0..k
      BY <1>1
    <3>2. QED BY <3>1, <1>2, <1>5
  <2>2. Items(d) = FirstOf(n - 1) \cap wanted
    BY <1>6
  <2>3. FirstOf(n) = FirstOf(n - 1) \cup {x}
    <3>1. \A j \in 1..n : j \in 1..(n - 1) \/ j = n
      BY <1>1
    <3>2. \A j \in 1..(n - 1) : j \in 1..n
      BY <1>1
    <3>3. n \in 1..n
      BY <1>1
    <3>4. QED BY <3>1, <3>2, <3>3
  <2>4. D(n) = Keep(d, x, wanted)
    BY <1>4
  <2> HIDE DEF d, x, FirstOf
  <2>5. CASE x \notin wanted
    <3>1. D(n) = d
      BY <2>4, <2>5 DEF Keep
    <3>2. QED BY <2>1, <2>2, <2>3, <2>5, <3>1
  <2>6. CASE x \in wanted
    <3>1. D(n) = Append(d, x)
      BY <2>4, <2>6 DEF Keep
    <3>2. L \in Nat /\ Len(D(n)) = L + 1 /\ D(n)[L + 1] = x /\ \A i \in 1..L : D(n)[i] = d[i]
      BY <2>1, <3>1
    <3>3. \A i \in 1..(L + 1) : i \in 1..L \/ i = L + 1
      BY <3>2
    <3>4. \A i \in 1..L : i \in 1..(L + 1)
      BY <3>2
    <3>5. L + 1 \in 1..(L + 1)
      BY <3>2
    <3>6. Items(D(n)) = {D(n)[i] : i \in 1..(L + 1)}
      BY <3>2 DEF Items
    <3>7. Items(D(n)) = Items(d) \cup {x}
      BY <3>2, <3>3, <3>4, <3>5, <3>6 DEF Items
    <3>8. QED BY <2>1, <2>2, <2>3, <2>6, <3>7
  <2>7. QED BY <2>5, <2>6
<1>7. k \in T
  <2> HIDE DEF T
  <2>1. \A n \in 0..k : n \in T
    BY <1>1, <1>3, <1>6, StepsUpTo
  <2>2. QED BY <2>1, <1>1
<1>8. SubSeq(seq, 1, k) = seq
  BY DEF k
<1>9. FirstOf(k) = Items(seq)
  BY DEF Items, k
<1>10. QED BY <1>7, <1>8, <1>9 DEF D

\* Discovery (VolumesStandAlone): a volume is indexed exactly when its own answers
\* say it is a fixed NTFS volume with mounts, whatever the other volumes answer.
THEOREM DiscoveryIsLocal == VolumesStandAlone
<1>1. SUFFICES ASSUME NEW vs \in [1..2 -> Volume], NEW i \in 1..2
               PROVE  (\E k \in DOMAIN Discover(vs) : Discover(vs)[k] = vs[i] /\ FixedNtfs(vs[i]))
                        <=> /\ vs[i].fs = "NTFS" /\ vs[i].drive = "fixed"
                            /\ vs[i].mounts[1] = "ok"
                               \/ (vs[i].mounts[1] = "more_data" /\ vs[i].mounts[2] = "ok")
  BY DEF VolumesStandAlone
<1> DEFINE probed == {v \in Volume : ProbeVolume(v)}
           found == Discover(vs)
<1>2. vs \in Seq(Volume) /\ Len(vs) = 2
  <2> DEFINE c == 2
  <2>1. c \in Nat /\ vs \in [1..c -> Volume]
    OBVIOUS
  <2> HIDE DEF c
  <2>2. vs \in Seq(Volume) /\ Len(vs) = c
    BY <2>1
  <2>3. QED BY <2>2 DEF c
<1>3. found = Kept(vs, probed)
  BY DEF Discover
<1> HIDE DEF found, probed
<1>4. found \in Seq(Volume) /\ Items(found) = Items(vs) \cap probed
  BY <1>2, <1>3, KeptType, KeptItems
<1>5. vs[i] \in Items(vs) /\ vs[i] \in Volume
  BY <1>2 DEF Items
<1>6. (\E k \in DOMAIN found : found[k] = vs[i]) <=> ProbeVolume(vs[i])
  <2>1. DOMAIN found = 1..Len(found)
    BY <1>4
  <2>2. (\E k \in DOMAIN found : found[k] = vs[i]) <=> vs[i] \in Items(found)
    BY <2>1 DEF Items
  <2>3. QED BY <2>2, <1>4, <1>5 DEF probed
<1>7. FixedNtfs(vs[i]) <=> vs[i].fs = "NTFS" /\ vs[i].drive = "fixed"
  BY DEF FixedNtfs
<1>8. vs[i].fs = "NTFS" =>
        (ProbeVolume(vs[i]) <=> \/ vs[i].mounts[1] = "ok"
                                \/ vs[i].mounts[1] = "more_data" /\ vs[i].mounts[2] = "ok")
  BY DEF ProbeVolume, Mounts
<1>9. QED BY <1>6, <1>7, <1>8 DEF found

\* What a volume starts from (FoundWhole): for every alignment, answer, MFT, tree and
\* pair of volumes, what is found is what there is to find.
THEOREM AVolumeIsFoundWhole == TailSpec => []FoundWhole
<1>1. FoundWhole
  BY PackedRecordsAreRead, TheScanIsWhole, TheWalkReachesAll, DiscoveryIsLocal DEF FoundWhole
<1>2. QED BY <1>1, PTL
=============================================================================
