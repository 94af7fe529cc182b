-------------------------- MODULE PipeClientProofs --------------------------
(***************************************************************************)
(* Proofs about PipeClient, for any number of keystrokes, reconnects and   *)
(* any pipe capacity: no command is sent on a connection it was not queued *)
(* for, none overtakes a newer query's, and a view that has stopped        *)
(* waiting has had its own query's outcome or was misled by another's.     *)
(***************************************************************************)
EXTENDS PipeClient, SequenceTheorems, FiniteSetTheorems, TLAPS

Bound == MaxTyped + MaxEpochs
AnyOp == [op : {"search", "cancel"}, gen : Gen]
AnyCall == [gen : Gen \ {0}, kind : Kinds]
AnyFrame == [op : {"rows", "garbled"}, gen : Gen]
AnyEvent == [op : {"rows", "down"}, gen : Gen]
Busy == [pc : {"issuing", "pending", "failing"}, cmd : Cmd]

PageTyped ==
  /\ view \in [gen : Gen, kind : Kinds, pending : BOOLEAN, error : Gen]
  /\ typed \in 0..MaxTyped /\ answered \subseteq Gen
  /\ calls \in Seq(AnyCall)
  /\ rejects \subseteq Gen \ {0}
UiTyped ==
  /\ ui \in {Idle} \union [pc : {"store"}, call : AnyCall]
               \union [pc : {"send", "stamp"}, call : AnyCall, cmd : AnyOp]
  /\ current_gen \in Gen
  /\ fb \in [slot : Gen, latest : Gen, running : Gen]
WireTyped ==
  /\ epoch \in 0..MaxEpochs
  /\ queue \in Seq(Cmd)
  /\ writer \in {Idle} \union Busy
  /\ pipe \in [up : BOOLEAN, out : Seq(Cmd), in : Seq(AnyFrame)]
  /\ svc \in [latest : 0..(Bound + 1), job : Gen]
FlagsTyped ==
  /\ events \in Seq(AnyEvent)
  /\ connected \in BOOLEAN
  /\ conn \in {"down", "bumped", "installed", "reading", "dropping", "clearing", "leaving"}
ClientTyped == PageTyped /\ UiTyped /\ WireTyped /\ FlagsTyped

\* Who owns the slot: no write half outlives drop_writer, and the writer thread
\* holds the lock, and a command of this epoch, while it is in a write.
SlotOwned ==
  /\ slot \in {0, epoch}
  /\ conn \in {"leaving", "down", "bumped"} => slot = 0
  /\ writer # Idle => slot # 0 /\ writer.cmd.epoch = epoch

\* Why generations are bounded: beyond the keystrokes, one is taken for each
\* connection that was lost, and only when the page hears of it.
Downs(s) == {i \in 1..Len(s) : s[i].op = "down"}
Lost == IF conn = "down" THEN epoch ELSE epoch - 1
GensCounted == view.gen + Cardinality(Downs(events)) <= typed + Lost

\* The calls not run yet are for newer and newer generations.
Storing == ui.pc = "store"
CallsRise ==
  /\ current_gen <= view.gen
  /\ \A i \in 1..Len(calls) : current_gen < calls[i].gen /\ calls[i].gen <= view.gen
  /\ \A i, j \in 1..Len(calls) : i < j => calls[i].gen < calls[j].gen
  /\ Storing => /\ current_gen < ui.call.gen /\ ui.call.gen <= view.gen
                /\ \A i \in 1..Len(calls) : ui.call.gen < calls[i].gen

\* What a command read raises the watermark to, and the commands on their way
\* to the service, the nearest first.  The watermark stands for what was read.
Mark(c) == IF c.op = "cancel" THEN c.gen + 1 ELSE c.gen
Members(s) == {s[i] : i \in 1..Len(s)}
Seen == {Op("search", svc.latest)}
Sent == Members(pipe.out)
Held == IF writer = Idle THEN {} ELSE {writer.cmd}
Queued == Members(queue)
Meant == IF ui.pc \in {"send", "stamp"} THEN {ui.cmd} ELSE {}
OnTheWay == Seen \union Sent \union Held \union Queued \union Meant

\* No query in t has been superseded once all of s has been read.
Before(s, t) == \A c \in s, d \in t : d.op = "search" => Mark(c) <= d.gen
Rising(s) == \A i, j \in 1..Len(s) : i < j => Before({s[i]}, {s[j]})

Lined(a, b, c, d, e) ==
  /\ Before(a, b \union c \union d \union e)
  /\ Before(b, c \union d \union e)
  /\ Before(c, d \union e)
  /\ Before(d, e)
InLine == Rising(pipe.out) /\ Rising(queue) /\ Lined(Seen, Sent, Held, Queued, Meant)

\* Nothing on its way supersedes the generation after the current one.
MarksBelow == \A c \in OnTheWay : Mark(c) <= current_gen + 1

OrderInv == CallsRise /\ InLine /\ MarksBelow
CountInv == ClientTyped /\ GensCounted

\* NoReplay alone is not inductive: a frame written now is of this epoch only
\* because the writer compared it against a slot that no older half can occupy.
ClientInv == CountInv /\ SlotOwned /\ NoReplay /\ OrderInv /\ SettledMeansAnswered

-----------------------------------------------------------------------------
LEMMA BoundFacts ==
  /\ Bound \in Nat /\ MaxTyped \in Nat /\ MaxEpochs \in Nat
  /\ Gen = 0..Bound /\ Gen \subseteq Nat /\ 0 \in Gen
BY PipeClientAssumption DEF Gen, Bound

\* How the losses still to be told are counted.
LEMMA DownsFinite ==
  ASSUME NEW s \in Seq(AnyEvent)
  PROVE  IsFiniteSet(Downs(s)) /\ Cardinality(Downs(s)) \in Nat
<1>1. IsFiniteSet(1..Len(s))
  BY FS_Interval
<1> QED
  BY <1>1, FS_Subset, FS_CardinalityType DEF Downs

LEMMA DownsAppend ==
  ASSUME NEW s \in Seq(AnyEvent), NEW e \in AnyEvent
  PROVE  Cardinality(Downs(Append(s, e)))
           = Cardinality(Downs(s)) + (IF e.op = "down" THEN 1 ELSE 0)
<1>1. Len(s) \in Nat /\ Len(Append(s, e)) = Len(s) + 1
  OBVIOUS
<1>2. /\ \A i \in 1..Len(s) : Append(s, e)[i] = s[i]
      /\ Append(s, e)[Len(s) + 1] = e
  OBVIOUS
<1>3. Downs(Append(s, e)) = Downs(s) \union (IF e.op = "down" THEN {Len(s) + 1} ELSE {})
  BY <1>1, <1>2 DEF Downs
<1>4. Len(s) + 1 \notin Downs(s)
  BY <1>1 DEF Downs
<1>5. IsFiniteSet(Downs(s)) /\ Cardinality(Downs(s)) \in Nat
  BY DownsFinite
<1>6. Cardinality(Downs(s) \union {Len(s) + 1}) = Cardinality(Downs(s)) + 1
  BY <1>4, <1>5, FS_AddElement
<1> HIDE DEF Downs
<1>7. CASE e.op = "down"
  BY <1>3, <1>6, <1>7
<1>8. CASE e.op # "down"
  BY <1>3, <1>5, <1>8
<1> QED
  BY <1>7, <1>8

LEMMA DownsTail ==
  ASSUME NEW s \in Seq(AnyEvent), s # <<>>
  PROVE  Cardinality(Downs(Tail(s)))
           = Cardinality(Downs(s)) - (IF Head(s).op = "down" THEN 1 ELSE 0)
<1>1. /\ Tail(s) \in Seq(AnyEvent) /\ Len(Tail(s)) = Len(s) - 1
      /\ Len(s) \in Nat /\ Len(s) > 0 /\ Head(s) = s[1]
      /\ \A i \in 1..Len(Tail(s)) : Tail(s)[i] = s[i + 1]
  BY HeadTailProperties, EmptySeq
<1> DEFINE shifted == [i \in Downs(Tail(s)) |-> i + 1]
           later == Downs(s) \ {1}
<1>2. shifted \in Bijection(Downs(Tail(s)), later)
  <2>1. \A i \in Downs(Tail(s)) : i \in Nat /\ i + 1 \in later
    BY <1>1 DEF Downs
  <2>2. \A k \in later : k - 1 \in Downs(Tail(s))
    <3> SUFFICES ASSUME NEW k \in later PROVE k - 1 \in Downs(Tail(s))
      OBVIOUS
    <3>1. k \in 1..Len(s) /\ k # 1 /\ s[k].op = "down"
      BY DEF Downs
    <3>2. k - 1 \in 1..Len(Tail(s))
      BY <1>1, <3>1
    <3>3. Tail(s)[k - 1] = s[(k - 1) + 1]
      BY <1>1, <3>2
    <3>4. (k - 1) + 1 = k
      BY <3>1
    <3> QED
      BY <3>1, <3>2, <3>3, <3>4 DEF Downs
  <2>3. \A k \in later : k \in Nat
    BY DEF Downs
  <2> HIDE DEF later
  <2>4. shifted \in [Downs(Tail(s)) -> later]
    BY <2>1
  <2>5. \A i, j \in Downs(Tail(s)) : shifted[i] = shifted[j] => i = j
    BY <2>1
  <2>6. \A k \in later : \E i \in Downs(Tail(s)) : shifted[i] = k
    <3> SUFFICES ASSUME NEW k \in later PROVE shifted[k - 1] = k
      BY <2>2
    <3> QED
      BY <2>2, <2>3
  <2> HIDE DEF shifted
  <2>7. shifted \in Injection(Downs(Tail(s)), later)
    BY <2>4, <2>5 DEF Injection, IsInjective
  <2>8. shifted \in Surjection(Downs(Tail(s)), later)
    BY <2>4, <2>6 DEF Surjection
  <2> QED
    BY <2>7, <2>8 DEF Bijection
<1>3. IsFiniteSet(Downs(Tail(s))) /\ IsFiniteSet(Downs(s)) /\ Cardinality(Downs(s)) \in Nat
  BY <1>1, DownsFinite
<1>4. Cardinality(later) = Cardinality(Downs(Tail(s)))
  <2> HIDE DEF shifted, later
  <2>1. ExistsBijection(Downs(Tail(s)), later)
    BY <1>2 DEF ExistsBijection
  <2> QED
    BY <1>3, <2>1, FS_Bijection
<1>5. 1 \in Downs(s) <=> Head(s).op = "down"
  BY <1>1 DEF Downs
<1>6. CASE Head(s).op = "down"
  <2>1. Cardinality(later) = Cardinality(Downs(s)) - 1
    BY <1>3, <1>5, <1>6, FS_RemoveElement
  <2> QED
    BY <1>4, <1>6, <2>1
<1>7. CASE Head(s).op # "down"
  <2>1. later = Downs(s)
    BY <1>5, <1>7
  <2> HIDE DEF later
  <2> QED
    BY <1>3, <1>4, <1>7, <2>1
<1> QED
  BY <1>6, <1>7

\* A keystroke, or news of a loss, leaves room for one more generation.
LEMMA GenRises ==
  ASSUME CountInv,
         typed < MaxTyped \/ (events # <<>> /\ Head(events).op = "down")
  PROVE  view.gen + 1 \in Gen \ {0}
<1> DEFINE n == Cardinality(Downs(events))
<1>1. /\ view.gen \in Nat /\ typed \in Nat /\ typed <= MaxTyped
      /\ epoch \in Nat /\ epoch <= MaxEpochs /\ n \in Nat
  BY BoundFacts, DownsFinite DEF CountInv, ClientTyped, PageTyped, WireTyped, FlagsTyped
<1>2. view.gen + n <= typed + epoch
  BY <1>1 DEF CountInv, GensCounted, Lost
<1>3. ASSUME events # <<>>, Head(events).op = "down" PROVE n >= 1
  <2>1. Cardinality(Downs(Tail(events))) = n - 1
    BY <1>3, DownsTail DEF CountInv, ClientTyped, FlagsTyped
  <2>2. Cardinality(Downs(Tail(events))) \in Nat
    <3>1. Tail(events) \in Seq(AnyEvent)
      BY <1>3, HeadTailProperties DEF CountInv, ClientTyped, FlagsTyped
    <3> QED
      BY <3>1, DownsFinite
  <2> HIDE DEF n
  <2> QED
    BY <1>1, <2>1, <2>2
<1>4. view.gen + 1 <= Bound
  <2> HIDE DEF n
  <2> QED
    BY <1>1, <1>2, <1>3, BoundFacts DEF Bound
<1> QED
  BY <1>1, <1>4, BoundFacts

-----------------------------------------------------------------------------
LEMMA InitClientInv == Init => ClientInv
<1> SUFFICES ASSUME Init PROVE ClientInv
    OBVIOUS
<1> USE BoundFacts DEF Init, Idle, Kinds
<1>1. PageTyped
  BY DEF PageTyped
<1>2. UiTyped
  BY DEF UiTyped
<1>3. WireTyped
  <2>1. pipe \in [up : BOOLEAN, out : Seq(Cmd), in : Seq(AnyFrame)]
    OBVIOUS
  <2> QED
    BY <2>1 DEF WireTyped
<1>4. FlagsTyped
  <2>1. <<>> \in Seq(AnyEvent)
    OBVIOUS
  <2> QED
    BY <2>1 DEF FlagsTyped
<1>5. GensCounted
  <2>1. Downs(events) = {}
    BY DEF Downs
  <2>2. Cardinality(Downs(events)) = 0
    BY <2>1, FS_EmptySet
  <2>3. view.gen = 0 /\ typed = 0 /\ Lost = 0
    BY DEF Lost
  <2> QED
    BY <2>2, <2>3 DEF GensCounted
<1>6. SlotOwned
  BY DEF SlotOwned
<1>7. NoReplay
  BY DEF NoReplay
<1>8. CallsRise
  BY DEF CallsRise, Storing
<1>9. Sent = {} /\ Held = {} /\ Queued = {} /\ Meant = {}
  BY DEF Sent, Held, Queued, Meant, Members
<1>10. InLine
  BY <1>9 DEF InLine, Lined, Before, Rising
<1>11. MarksBelow
  BY <1>9 DEF MarksBelow, OnTheWay, Seen, Op, Mark
<1>12. SettledMeansAnswered
  BY DEF SettledMeansAnswered, Asked
<1> QED
  BY <1>1, <1>2, <1>3, <1>4, <1>5, <1>6, <1>7, <1>8, <1>10, <1>11, <1>12
     DEF ClientInv, CountInv, ClientTyped, OrderInv

\* Page and UI thread: what they keep typed, and what is not theirs.
LEMMA PageTypes == CountInv /\ [Next]_vars => PageTyped'
<1> SUFFICES ASSUME CountInv, [Next]_vars PROVE PageTyped'
    OBVIOUS
<1> USE BoundFacts DEF CountInv, ClientTyped, PageTyped, AnyCall
<1>1. CASE UNCHANGED <<view, typed, answered, calls, rejects>>
  BY <1>1
<1>2. ASSUME NEW kind \in Kinds, Ask(kind), view.gen + 1 \in Gen \ {0},
             rejects' = rejects, answered' = answered, typed' \in 0..MaxTyped
      PROVE  PageTyped'
  BY <1>2 DEF Ask
<1>3. CASE TakeRows
  <2>1. view' = view \/ view' = [view EXCEPT !.pending = FALSE]
    BY <1>3 DEF TakeRows
  <2>2. answered' \subseteq answered \union {Head(events).gen}
    BY <1>3 DEF TakeRows
  <2>3. Head(events) \in AnyEvent
    BY <1>3 DEF TakeRows, FlagsTyped
  <2>4. Head(events).gen \in Gen
    BY <2>3 DEF AnyEvent
  <2> QED
    BY <1>3, <2>1, <2>2, <2>4 DEF TakeRows
<1>4. CASE TakeDown
  <2>1. CASE AsksAgain
    <3>1. view.gen + 1 \in Gen \ {0}
      BY <1>4, GenRises DEF TakeDown
    <3> QED
      BY <1>2, <1>4, <2>1, <3>1 DEF TakeDown
  <2>2. CASE ~AsksAgain
    BY <1>1, <1>4, <2>2 DEF TakeDown
  <2> QED
    BY <2>1, <2>2
<1>5. ASSUME NEW g \in rejects, TakeReject(g) PROVE PageTyped'
  BY <1>5 DEF TakeReject
<1>6. CASE FilesSearch
  BY <1>6 DEF FilesSearch, page
<1>7. CASE SendRefused \/ Stamp
  <2>1. ui.call.gen \in Gen \ {0}
    BY <1>7 DEF SendRefused, Stamp, UiTyped, Idle
  <2> QED
    BY <1>7, <2>1 DEF SendRefused, Stamp, page
<1>8. CASE Store \/ SendChecked
  BY <1>1, <1>8 DEF Store, SendChecked, page, wires
<1>9. CASE ConnStep \/ Connect
  BY <1>1, <1>9 DEF ConnStep, Connect, Install, Announce, Relay, ReadEnds, CancelAll,
                    ClearSlot, EmitDown, page, wires
<1>10. CASE WriterStep
  BY <1>1, <1>10 DEF WriterStep, Take, Issue, Written, WriteBreaks, WriteFailed, page, wires
<1>11. CASE FallbackStep \/ SvcStep \/ SvcGarbles \/ SvcDies
  BY <1>1, <1>11 DEF FallbackStep, FallbackTake, FallbackDone, SvcStep, SvcRead, SvcAnswer,
                     SvcGarbles, SvcDies, page, wires
<1>12. ASSUME NEW kind \in Kinds, Type(kind) PROVE PageTyped'
  <2>1. view.gen + 1 \in Gen \ {0}
    BY <1>12, GenRises DEF Type
  <2>2. typed' \in 0..MaxTyped
    BY <1>12 DEF Type
  <2> QED
    BY <1>2, <1>12, <2>1, <2>2 DEF Type
<1>13. CASE UNCHANGED vars
  BY <1>1, <1>13 DEF vars, page, wires
<1> QED
  BY <1>3, <1>4, <1>5, <1>6, <1>7, <1>8, <1>9, <1>10, <1>11, <1>12, <1>13
     DEF Next, PageStep, UiStep

LEMMA UiTypes == ClientTyped /\ [Next]_vars => UiTyped'
<1> SUFFICES ASSUME ClientTyped, [Next]_vars PROVE UiTyped'
    OBVIOUS
<1> USE BoundFacts DEF ClientTyped, UiTyped, AnyOp
<1>1. CASE UNCHANGED <<ui, current_gen, fb>>
  BY <1>1
<1>2. CASE FilesSearch
  <2>0. Head(calls) \in AnyCall
    BY <1>2 DEF FilesSearch, PageTyped
  <2>1. Head(calls) \in AnyCall /\ Head(calls).gen \in Gen
    BY <2>0 DEF AnyCall
  <2>2. CancelCurrent \in AnyOp
    BY DEF CancelCurrent, Op
  <2>3. current_gen' = current_gen
    BY <1>2 DEF FilesSearch, client
  <2>4. \/ ui' = ui
        \/ ui' = [pc |-> "store", call |-> Head(calls)]
        \/ ui' = [pc |-> "send", call |-> Head(calls), cmd |-> CancelCurrent]
    BY <1>2 DEF FilesSearch
  <2>5. fb' \in [slot : Gen, latest : Gen, running : Gen]
    <3>1. fb' = fb \/ Submit(Head(calls).gen)
      BY <1>2 DEF FilesSearch
    <3>2. Larger(fb.latest, Head(calls).gen) \in Gen
      BY <2>1 DEF Larger
    <3> QED
      BY <2>1, <3>1, <3>2 DEF Submit
  <2> QED
    BY <2>1, <2>2, <2>3, <2>4, <2>5
<1>3. CASE Store
  <2>1. ui.call \in AnyCall /\ ui.call.gen \in Gen
    BY <1>3 DEF Store, Idle, AnyCall
  <2>2. Op("search", ui.call.gen) \in AnyOp
    BY <2>1 DEF Op
  <2> QED
    BY <1>3, <2>1, <2>2 DEF Store
<1>4. CASE SendRefused \/ Stamp
  BY <1>4 DEF SendRefused, Stamp, client
<1>5. CASE SendChecked
  <2>1. ui \in [pc : {"send", "stamp"}, call : AnyCall, cmd : AnyOp]
    BY <1>5 DEF SendChecked, Idle
  <2> QED
    BY <1>5, <2>1 DEF SendChecked, client
<1>6. CASE PageStep \/ \E kind \in Kinds : Type(kind)
  BY <1>1, <1>6 DEF PageStep, TakeRows, TakeDown, TakeReject, Type, client
<1>7. CASE ConnStep \/ Connect
  BY <1>1, <1>7 DEF ConnStep, Connect, Install, Announce, Relay, ReadEnds, CancelAll,
                    ClearSlot, EmitDown, client
<1>8. CASE WriterStep
  BY <1>1, <1>8 DEF WriterStep, Take, Issue, Written, WriteBreaks, WriteFailed, client
<1>9. CASE SvcStep \/ SvcGarbles \/ SvcDies
  BY <1>1, <1>9 DEF SvcStep, SvcRead, SvcAnswer, SvcGarbles, SvcDies, client
<1>10. CASE FallbackStep
  BY <1>10 DEF FallbackStep, FallbackTake, FallbackDone, client
<1>11. CASE UNCHANGED vars
  BY <1>1, <1>11 DEF vars, client
<1> QED
  BY <1>2, <1>3, <1>4, <1>5, <1>6, <1>7, <1>8, <1>9, <1>10, <1>11 DEF Next, UiStep

\* What happens to the events on their way to the page.
LEMMA EventsMove ==
  ASSUME ClientTyped, [Next]_vars
  PROVE  \/ UNCHANGED events
         \/ events # <<>> /\ events' = Tail(events) /\ (TakeRows \/ TakeDown)
         \/ EmitDown
         \/ /\ Relay \/ FallbackDone
            /\ \E e \in AnyEvent : e.op = "rows" /\ events' = Append(events, e)
<1> USE DEF ClientTyped
<1>1. CASE TakeRows \/ TakeDown
  BY <1>1 DEF TakeRows, TakeDown
<1>2. CASE Relay
  <2>1. Head(pipe.in) \in AnyFrame /\ Head(pipe.in).op = "rows"
    BY <1>2 DEF Relay, WireTyped
  <2>2. Head(pipe.in) \in AnyEvent
    BY <2>1 DEF AnyFrame, AnyEvent
  <2> QED
    BY <1>2, <2>1, <2>2 DEF Relay
<1>3. CASE FallbackDone
  <2>1. Op("rows", fb.running) \in AnyEvent /\ Op("rows", fb.running).op = "rows"
    BY DEF Op, AnyEvent, UiTyped
  <2> QED
    BY <1>3, <2>1 DEF FallbackDone
<1>4. CASE EmitDown
  BY <1>4
<1>5. CASE \/ FilesSearch \/ Store \/ SendRefused \/ SendChecked \/ Stamp \/ FallbackTake
           \/ UNCHANGED vars
  BY <1>5 DEF FilesSearch, Store, SendRefused, SendChecked, Stamp, FallbackTake, vars, wires
<1>6. CASE \/ \E kind \in Kinds : Type(kind)
           \/ \E g \in rejects : TakeReject(g)
           \/ Connect \/ Install \/ Announce \/ ReadEnds \/ CancelAll \/ ClearSlot
  BY <1>6 DEF Type, TakeReject, Connect, Install, Announce, ReadEnds, CancelAll, ClearSlot,
              wires
<1>7. CASE WriterStep \/ SvcStep \/ SvcGarbles \/ SvcDies
  BY <1>7 DEF WriterStep, Take, Issue, Written, WriteBreaks, WriteFailed, SvcStep, SvcRead,
              SvcAnswer, SvcGarbles, SvcDies, wires
<1> QED
  BY <1>1, <1>2, <1>3, <1>4, <1>5, <1>6, <1>7
     DEF Next, PageStep, UiStep, ConnStep, FallbackStep

LEMMA FlagTypes == ClientTyped /\ [Next]_vars => FlagsTyped'
<1> SUFFICES ASSUME ClientTyped, [Next]_vars PROVE FlagsTyped'
    OBVIOUS
<1> USE DEF ClientTyped
<1>1. events' \in Seq(AnyEvent)
  <2>1. Op("down", 0) \in AnyEvent
    BY BoundFacts DEF Op, AnyEvent
  <2>2. events \in Seq(AnyEvent)
    BY DEF FlagsTyped
  <2>3. ASSUME events # <<>> PROVE Tail(events) \in Seq(AnyEvent)
    BY <2>2, <2>3, HeadTailProperties
  <2>4. \A e \in AnyEvent : Append(events, e) \in Seq(AnyEvent)
    BY <2>2
  <2> QED
    BY <2>1, <2>2, <2>3, <2>4, EventsMove DEF EmitDown
<1>2. connected' \in BOOLEAN
  <2>1. connected' = connected \/ connected' = TRUE \/ connected' = FALSE
    BY DEF Next, PageStep, TakeRows, TakeDown, TakeReject, Type, UiStep, FilesSearch, Store,
           SendRefused, SendChecked, Stamp, FallbackStep, FallbackTake, FallbackDone,
           ConnStep, Connect, Install, Announce, Relay, ReadEnds, CancelAll, ClearSlot,
           EmitDown, WriterStep, Take, Issue, Written, WriteBreaks, WriteFailed, SvcStep,
           SvcRead, SvcAnswer, SvcGarbles, SvcDies, vars, client
  <2> QED
    BY <2>1 DEF FlagsTyped
<1>3. conn' \in {"down", "bumped", "installed", "reading", "dropping", "clearing", "leaving"}
  <2>1. conn' = conn \/ conn' \in {"down", "bumped", "installed", "reading", "dropping",
                                   "clearing", "leaving"}
    BY DEF Next, PageStep, TakeRows, TakeDown, TakeReject, Type, UiStep, FilesSearch, Store,
           SendRefused, SendChecked, Stamp, FallbackStep, FallbackTake, FallbackDone,
           ConnStep, Connect, Install, Announce, Relay, ReadEnds, CancelAll, ClearSlot,
           EmitDown, WriterStep, Take, Issue, Written, WriteBreaks, WriteFailed, SvcStep,
           SvcRead, SvcAnswer, SvcGarbles, SvcDies, vars
  <2> QED
    BY <2>1 DEF FlagsTyped
<1> QED
  BY <1>1, <1>2, <1>3 DEF FlagsTyped

\* How the view and the connection bear on the count.
LEMMA CountStep == CountInv /\ [Next]_vars => GensCounted'
<1> SUFFICES ASSUME CountInv, [Next]_vars PROVE GensCounted'
    OBVIOUS
<1> DEFINE n == Cardinality(Downs(events))
<1>1. /\ view.gen \in Nat /\ typed \in Nat /\ epoch \in Nat /\ n \in Nat
      /\ events \in Seq(AnyEvent)
      /\ view.gen + n <= typed + Lost
      /\ view \in [gen : Gen, kind : Kinds, pending : BOOLEAN, error : Gen]
  BY BoundFacts, DownsFinite
     DEF CountInv, GensCounted, ClientTyped, PageTyped, WireTyped, FlagsTyped
<1> USE DEF GensCounted
<1>2. ASSUME view'.gen <= view.gen, view'.gen \in Nat, typed' = typed,
             Cardinality(Downs(events))' = n, UNCHANGED <<conn, epoch>>
      PROVE  GensCounted'
  <2>1. Lost' = Lost /\ Lost \in Int
    BY <1>1, <1>2 DEF Lost
  <2> HIDE DEF n
  <2> QED
    BY <1>1, <1>2, <2>1
<1>3. CASE TakeRows
  <2>1. events # <<>> /\ events' = Tail(events) /\ Head(events).op # "down"
    BY <1>3 DEF TakeRows
  <2>2. Cardinality(Downs(events')) = n
    BY <1>1, <2>1, DownsTail
  <2>3. view'.gen = view.gen
    BY <1>1, <1>3 DEF TakeRows
  <2> HIDE DEF n
  <2> QED
    BY <1>1, <1>2, <1>3, <2>2, <2>3 DEF TakeRows, client
<1>4. CASE TakeDown
  <2>1. Cardinality(Downs(events')) = n - 1
    BY <1>1, <1>4, DownsTail DEF TakeDown
  <2>2. view'.gen = view.gen \/ view'.gen = view.gen + 1
    BY <1>4 DEF TakeDown, Ask
  <2>3. typed' = typed /\ Lost' = Lost /\ Lost \in Int
    BY <1>1, <1>4 DEF TakeDown, client, Lost
  <2> HIDE DEF n
  <2> QED
    BY <1>1, <2>1, <2>2, <2>3
<1>5. ASSUME NEW kind \in Kinds, Type(kind) PROVE GensCounted'
  <2>1. view'.gen = view.gen + 1 /\ typed' = typed + 1 /\ events' = events
    BY <1>5 DEF Type, Ask
  <2>2. Lost' = Lost /\ Lost \in Int
    BY <1>1, <1>5 DEF Type, client, Lost
  <2>3. Cardinality(Downs(events')) = n
    BY <2>1
  <2> HIDE DEF n
  <2> QED
    BY <1>1, <2>1, <2>2, <2>3
<1>6. ASSUME NEW g \in rejects, TakeReject(g) PROVE GensCounted'
  <2>1. view'.gen = view.gen
    BY <1>1, <1>6 DEF TakeReject
  <2>2. UNCHANGED <<typed, conn, epoch>> /\ Cardinality(Downs(events))' = n
    BY <1>6 DEF TakeReject, client
  <2> HIDE DEF n
  <2> QED
    BY <1>1, <1>2, <2>1, <2>2
<1>7. CASE Relay \/ FallbackDone
  <2>1. UNCHANGED <<view, typed, conn, epoch>>
    BY <1>7 DEF Relay, FallbackDone, page, client
  <2>2. Cardinality(Downs(events')) = n
    <3>1. events' = events \/ \E e \in AnyEvent : e.op = "rows" /\ events' = Append(events, e)
      BY <1>7, EventsMove DEF Relay, FallbackDone, TakeRows, TakeDown, EmitDown, CountInv,
                              page, wires, client
    <3>2. ASSUME NEW e \in AnyEvent, e.op = "rows"
          PROVE  Cardinality(Downs(Append(events, e))) = n
      BY <1>1, <3>2, DownsAppend
    <3> HIDE DEF n
    <3>3. CASE events' = events
      BY <3>3 DEF n
    <3> QED
      BY <3>1, <3>2, <3>3
  <2> HIDE DEF n
  <2> QED
    BY <1>1, <1>2, <2>1, <2>2
<1>8. CASE EmitDown
  <2>1. Op("down", 0) \in AnyEvent /\ Op("down", 0).op = "down"
    BY BoundFacts DEF Op, AnyEvent
  <2>2. Cardinality(Downs(events')) = n + 1
    BY <1>1, <1>8, <2>1, DownsAppend DEF EmitDown
  <2>3. view' = view /\ typed' = typed /\ Lost' = epoch /\ Lost = epoch - 1
    BY <1>8 DEF EmitDown, page, client, Lost
  <2> HIDE DEF n
  <2> QED
    BY <1>1, <2>2, <2>3
<1>9. CASE Connect
  <2>1. view' = view /\ typed' = typed /\ events' = events
    BY <1>9 DEF Connect, page, wires
  <2>2. Lost' = Lost /\ Lost \in Int
    BY <1>1, <1>9 DEF Connect, Lost
  <2> QED
    BY <1>1, <2>1, <2>2
<1>10. ASSUME UNCHANGED <<view, typed, events, epoch>>, conn # "down" /\ conn' # "down"
       PROVE  GensCounted'
  BY <1>1, <1>10 DEF Lost
<1>11. CASE Install \/ Announce \/ ReadEnds \/ CancelAll \/ ClearSlot
  BY <1>10, <1>11 DEF Install, Announce, ReadEnds, CancelAll, ClearSlot, page, wires, client
<1>12. ASSUME UNCHANGED <<view, typed, events, epoch, conn>> PROVE GensCounted'
  BY <1>1, <1>2, <1>12
<1>13. CASE WriterStep \/ SvcStep \/ SvcGarbles \/ SvcDies
  BY <1>12, <1>13 DEF WriterStep, Take, Issue, Written, WriteBreaks, WriteFailed, SvcStep,
                      SvcRead, SvcAnswer, SvcGarbles, SvcDies, page, wires, client
<1>14. CASE UiStep \/ FallbackTake \/ UNCHANGED vars
  BY <1>12, <1>14 DEF UiStep, FilesSearch, Store, SendRefused, SendChecked, Stamp,
                      FallbackTake, vars, page, wires, client
<1> QED
  BY <1>3, <1>4, <1>5, <1>6, <1>7, <1>8, <1>9, <1>11, <1>13, <1>14
     DEF Next, PageStep, ConnStep, FallbackStep

-----------------------------------------------------------------------------
\* What reading and writing a pipe does to its frames, whatever they are.
LEMMA PipeEnds ==
  ASSUME NEW A, NEW B, NEW p \in [up : BOOLEAN, out : Seq(A), in : Seq(B)]
  PROVE  /\ p.in # <<>> =>
              /\ [p EXCEPT !.in = Tail(@)] \in [up : BOOLEAN, out : Seq(A), in : Seq(B)]
              /\ [p EXCEPT !.in = Tail(@)].out = p.out
         /\ \A b \in B :
              /\ [p EXCEPT !.in = Append(@, b)] \in [up : BOOLEAN, out : Seq(A), in : Seq(B)]
              /\ [p EXCEPT !.in = Append(@, b)].out = p.out
         /\ p.out # <<>> =>
              /\ Head(p.out) \in A
              /\ [p EXCEPT !.out = Tail(@)] \in [up : BOOLEAN, out : Seq(A), in : Seq(B)]
              /\ [p EXCEPT !.out = Tail(@)].out = Tail(p.out)
         /\ \A a \in A :
              /\ [p EXCEPT !.out = Append(@, a)] \in [up : BOOLEAN, out : Seq(A), in : Seq(B)]
              /\ [p EXCEPT !.out = Append(@, a)].out = Append(p.out, a)
         /\ [p EXCEPT !.up = FALSE, !.out = <<>>]
               \in [up : BOOLEAN, out : Seq(A), in : Seq(B)]
         /\ [p EXCEPT !.up = FALSE, !.out = <<>>].out = <<>>
<1>1. ASSUME p.in # <<>> PROVE Tail(p.in) \in Seq(B)
  BY <1>1, HeadTailProperties
<1>2. ASSUME p.out # <<>> PROVE Head(p.out) \in A /\ Tail(p.out) \in Seq(A)
  BY <1>2, HeadTailProperties
<1>3. ASSUME NEW b \in B PROVE Append(p.in, b) \in Seq(B)
  OBVIOUS
<1>4. ASSUME NEW a \in A PROVE Append(p.out, a) \in Seq(A)
  OBVIOUS
<1>5. <<>> \in Seq(A)
  OBVIOUS
<1> QED
  BY <1>1, <1>2, <1>3, <1>4, <1>5

\* The variables the argument is about.
Owned == <<epoch, slot, conn, writer, pipe>>

\* What the page, the UI thread and the fallback worker do is not about them.
LEMMA OthersStep ==
  ASSUME ClientTyped, SlotOwned, NoReplay,
         \/ PageStep \/ \E kind \in Kinds : Type(kind)
         \/ UiStep \/ FallbackStep \/ UNCHANGED vars
  PROVE  WireTyped' /\ SlotOwned' /\ NoReplay'
<1> USE DEF ClientTyped
<1>1. UNCHANGED <<Owned, svc>>
  BY DEF PageStep, TakeRows, TakeDown, TakeReject, Type, UiStep, FilesSearch, Store,
         SendRefused, SendChecked, Stamp, FallbackStep, FallbackTake, FallbackDone,
         vars, client, Owned
<1>2. queue' \in Seq(Cmd)
  <2>1. CASE Stamp
    <3>1. [epoch |-> epoch, op |-> ui.cmd.op, gen |-> ui.cmd.gen] \in Cmd
      BY <2>1 DEF Stamp, UiTyped, WireTyped, Idle, AnyOp, Cmd
    <3> QED
      BY <2>1, <3>1 DEF Stamp, WireTyped
  <2>2. CASE ~Stamp
    <3>1. queue' = queue
      BY <2>2 DEF PageStep, TakeRows, TakeDown, TakeReject, Type, UiStep, FilesSearch,
                  Store, SendRefused, SendChecked, FallbackStep, FallbackTake,
                  FallbackDone, vars
    <3> QED
      BY <3>1 DEF WireTyped
  <2> QED
    BY <2>1, <2>2
<1>3. WireTyped'
  BY <1>1, <1>2 DEF WireTyped, Owned
<1>4. SlotOwned'
  BY <1>1 DEF SlotOwned, Owned
<1>5. NoReplay'
  BY <1>1 DEF NoReplay, Owned
<1> QED
  BY <1>3, <1>4, <1>5

\* A new connection finds the slot empty, hence the writer idle.
LEMMA ConnStepOwned ==
  ASSUME ClientTyped, SlotOwned, NoReplay, ConnStep \/ Connect
  PROVE  WireTyped' /\ SlotOwned' /\ NoReplay'
<1> USE DEF ClientTyped, WireTyped, SlotOwned, NoReplay
<1>1. CASE Connect
  <2>1. slot = 0 /\ writer = Idle
    BY <1>1 DEF Connect
  <2>2. /\ epoch' = epoch + 1 /\ slot' = 0 /\ writer' = Idle /\ queue' = queue
        /\ pipe' = [up |-> TRUE, out |-> <<>>, in |-> <<>>]
        /\ svc' = [latest |-> 0, job |-> 0]
    BY <1>1, <2>1 DEF Connect
  <2>3. pipe' \in [up : BOOLEAN, out : Seq(Cmd), in : Seq(AnyFrame)]
    BY <2>2
  <2>4. pipe'.out = <<>>
    BY <2>2
  <2>5. epoch' \in 0..MaxEpochs
    BY <1>1, <2>2, BoundFacts DEF Connect
  <2>6. svc' \in [latest : 0..(Bound + 1), job : Gen]
    BY <2>2, BoundFacts
  <2> QED
    BY <2>2, <2>3, <2>4, <2>5, <2>6
<1>2. CASE Install
  BY <1>2 DEF Install
<1>3. CASE Announce
  BY <1>3 DEF Announce
<1>4. CASE Relay
  <2>1. pipe'.out = pipe.out
    BY <1>4 DEF Relay
  <2>2. pipe' \in [up : BOOLEAN, out : Seq(Cmd), in : Seq(AnyFrame)]
    BY <1>4, PipeEnds DEF Relay
  <2> QED
    BY <1>4, <2>1, <2>2 DEF Relay, client
<1>5. CASE ReadEnds
  BY <1>5 DEF ReadEnds
<1>6. CASE CancelAll
  <2>1. CASE writer.pc = "pending"
    <3>1. writer \in Busy
      BY <2>1 DEF Idle
    <3>2. writer' = [writer EXCEPT !.pc = "failing"]
      BY <1>6, <2>1 DEF CancelAll
    <3>3. writer' \in Busy /\ writer'.cmd = writer.cmd
      BY <3>1, <3>2 DEF Busy
    <3>4. writer # Idle
      BY <2>1 DEF Idle
    <3> QED
      BY <1>6, <3>3, <3>4 DEF CancelAll, client
  <2>2. CASE writer.pc # "pending"
    BY <1>6, <2>2 DEF CancelAll, client
  <2> QED
    BY <2>1, <2>2
<1>7. CASE ClearSlot
  <2>1. pipe'.out = pipe.out
    BY <1>7 DEF ClearSlot
  <2>2. pipe' \in [up : BOOLEAN, out : Seq(Cmd), in : Seq(AnyFrame)]
    BY <1>7 DEF ClearSlot
  <2> QED
    BY <1>7, <2>1, <2>2 DEF ClearSlot
<1>8. CASE EmitDown
  BY <1>8 DEF EmitDown, client
<1> QED
  BY <1>1, <1>2, <1>3, <1>4, <1>5, <1>6, <1>7, <1>8 DEF ConnStep

\* What the writer sends was compared against the slot under its lock.
LEMMA WriterStepOwned ==
  ASSUME ClientTyped, SlotOwned, NoReplay, WriterStep
  PROVE  WireTyped' /\ SlotOwned' /\ NoReplay'
<1> USE DEF ClientTyped, WireTyped, SlotOwned, NoReplay
<1>1. CASE Take
  <2>1. Head(queue) \in Cmd /\ Tail(queue) \in Seq(Cmd)
    BY <1>1 DEF Take
  <2>2. CASE slot # 0 /\ slot = Head(queue).epoch
    <3>1. writer' = [pc |-> "issuing", cmd |-> Head(queue)]
      BY <1>1, <2>2 DEF Take
    <3>2. writer' \in Busy /\ writer'.cmd.epoch = epoch
      BY <2>1, <2>2, <3>1 DEF Busy
    <3> QED
      BY <1>1, <2>1, <2>2, <3>2 DEF Take, client
  <2>3. CASE ~(slot # 0 /\ slot = Head(queue).epoch)
    <3>1. writer' = Idle
      BY <1>1, <2>3 DEF Take
    <3> QED
      BY <1>1, <2>1, <3>1 DEF Take, client
  <2> HIDE DEF ClientTyped, WireTyped, SlotOwned, NoReplay
  <2> QED
    BY <2>2, <2>3
<1>2. CASE Issue \/ WriteBreaks
  <2>1. writer \in Busy /\ writer # Idle
    BY <1>2 DEF Issue, WriteBreaks, Idle
  <2>2. PICK p \in {"pending", "failing"} : writer' = [writer EXCEPT !.pc = p]
    BY <1>2 DEF Issue, WriteBreaks
  <2>3. writer' \in Busy /\ writer'.cmd = writer.cmd
    BY <2>1, <2>2 DEF Busy
  <2> QED
    BY <1>2, <2>1, <2>3 DEF Issue, WriteBreaks, client
<1>3. CASE Written
  <2>1. writer \in Busy /\ writer # Idle
    BY <1>3 DEF Written, Idle
  <2>2. writer.cmd \in Cmd /\ writer.cmd.epoch = epoch
    BY <2>1 DEF Busy
  <2>3. pipe' = [pipe EXCEPT !.out = Append(pipe.out, writer.cmd)] /\ pipe.out \in Seq(Cmd)
    BY <1>3 DEF Written
  <2>4. /\ pipe' \in [up : BOOLEAN, out : Seq(Cmd), in : Seq(AnyFrame)]
        /\ pipe'.out = Append(pipe.out, writer.cmd)
    BY <2>2, <2>3, PipeEnds
  <2>5. NoReplay'
    <3> SUFFICES ASSUME NEW i \in 1..Len(pipe'.out) PROVE pipe'.out[i].epoch = epoch
      BY <1>3 DEF Written, client
    <3>1. CASE i = Len(pipe.out) + 1
      BY <2>2, <2>3, <2>4, <3>1
    <3>2. CASE i # Len(pipe.out) + 1
      BY <2>2, <2>3, <2>4, <3>2
    <3> QED
      BY <3>1, <3>2
  <2> QED
    BY <1>3, <2>4, <2>5 DEF Written, client
<1>4. CASE WriteFailed
  BY <1>4 DEF WriteFailed
<1> QED
  BY <1>1, <1>2, <1>3, <1>4 DEF WriterStep

\* The peer only takes frames away.
LEMMA PeerStepOwned ==
  ASSUME ClientTyped, SlotOwned, NoReplay, SvcStep \/ SvcGarbles \/ SvcDies
  PROVE  WireTyped' /\ SlotOwned' /\ NoReplay'
<1> USE DEF ClientTyped, WireTyped
<1>1. UNCHANGED <<epoch, slot, conn, writer, queue>>
  BY DEF SvcStep, SvcRead, SvcAnswer, SvcGarbles, SvcDies, client
<1>2. SlotOwned'
  BY <1>1 DEF SlotOwned
<1>3. CASE SvcRead
  <2>1. /\ Head(pipe.out) \in Cmd
        /\ pipe' \in [up : BOOLEAN, out : Seq(Cmd), in : Seq(AnyFrame)]
        /\ pipe'.out = Tail(pipe.out)
    BY <1>3, PipeEnds DEF SvcRead
  <2>2. Head(pipe.out).gen \in Gen /\ svc.latest \in 0..(Bound + 1) /\ svc.job \in Gen
    BY <2>1 DEF Cmd
  <2>3. svc' \in [latest : 0..(Bound + 1), job : Gen]
    <3>1. svc' = [svc EXCEPT !.latest = Larger(svc.latest, Head(pipe.out).gen + 1)]
          \/ svc' = [latest |-> Larger(svc.latest, Head(pipe.out).gen),
                     job |-> Head(pipe.out).gen]
      BY <1>3 DEF SvcRead
    <3>2. /\ Larger(svc.latest, Head(pipe.out).gen + 1) \in 0..(Bound + 1)
          /\ Larger(svc.latest, Head(pipe.out).gen) \in 0..(Bound + 1)
      <4>1. /\ Bound \in Nat /\ Head(pipe.out).gen \in 0..Bound
            /\ Head(pipe.out).gen + 1 \in 0..(Bound + 1)
            /\ Head(pipe.out).gen \in 0..(Bound + 1)
        <5>1. Bound \in Nat /\ Gen = 0..Bound
          BY BoundFacts
        <5>2. \A x \in 0..Bound : x \in 0..(Bound + 1) /\ x + 1 \in 0..(Bound + 1)
          BY <5>1
        <5> QED
          BY <2>2, <5>1, <5>2
      <4>2. \A a, b \in 0..(Bound + 1) : Larger(a, b) \in 0..(Bound + 1)
        BY DEF Larger
      <4> QED
        BY <2>2, <4>1, <4>2
    <3> HIDE DEF Larger
    <3>3. CASE svc' = [svc EXCEPT !.latest = Larger(svc.latest, Head(pipe.out).gen + 1)]
      BY <3>2, <3>3
    <3>4. CASE svc' = [latest |-> Larger(svc.latest, Head(pipe.out).gen),
                       job |-> Head(pipe.out).gen]
      BY <2>2, <3>2, <3>4
    <3> QED
      BY <3>1, <3>3, <3>4
  <2>4. NoReplay'
    <3>1. /\ Len(Tail(pipe.out)) = Len(pipe.out) - 1
          /\ \A i \in 1..Len(Tail(pipe.out)) : Tail(pipe.out)[i] = pipe.out[i + 1]
          /\ Len(pipe.out) \in Nat
      BY <1>3, HeadTailProperties DEF SvcRead
    <3> SUFFICES ASSUME NEW i \in 1..Len(Tail(pipe.out))
                 PROVE  Tail(pipe.out)[i].epoch = epoch
      BY <1>1, <2>1 DEF NoReplay
    <3>2. i + 1 \in 1..Len(pipe.out)
      BY <3>1
    <3> QED
      BY <3>1, <3>2 DEF NoReplay
  <2> QED
    BY <1>1, <1>2, <2>1, <2>3, <2>4
<1>4. CASE SvcAnswer \/ SvcGarbles \/ SvcDies
  <2>1. svc' \in [latest : 0..(Bound + 1), job : Gen]
    BY <1>4, BoundFacts DEF SvcAnswer, SvcGarbles, SvcDies
  <2>2. Op("garbled", 0) \in AnyFrame /\ Op("rows", svc.job) \in AnyFrame
    BY BoundFacts DEF Op, AnyFrame
  <2>3. /\ pipe' \in [up : BOOLEAN, out : Seq(Cmd), in : Seq(AnyFrame)]
        /\ pipe'.out = pipe.out \/ pipe'.out = <<>>
    <3>1. CASE pipe' = pipe
      BY <3>1
    <3>2. ASSUME NEW b \in AnyFrame, pipe' = [pipe EXCEPT !.in = Append(@, b)]
          PROVE  /\ pipe' \in [up : BOOLEAN, out : Seq(Cmd), in : Seq(AnyFrame)]
                 /\ pipe'.out = pipe.out
      BY <3>2, PipeEnds
    <3>3. CASE pipe' = [pipe EXCEPT !.up = FALSE, !.out = <<>>]
      BY <3>3, PipeEnds
    <3> QED
      BY <1>4, <2>2, <3>1, <3>2, <3>3 DEF SvcAnswer, SvcGarbles, SvcDies
  <2>4. NoReplay'
    BY <1>1, <2>3 DEF NoReplay
  <2> QED
    BY <1>1, <1>2, <2>1, <2>3, <2>4
<1> QED
  BY <1>3, <1>4 DEF SvcStep

-----------------------------------------------------------------------------
-----------------------------------------------------------------------------
\* Generations of calls and of commands only go up, from the page to the service.
LEMMA CallsStep == ClientTyped /\ CallsRise /\ [Next]_vars => CallsRise'
<1> SUFFICES ASSUME ClientTyped, CallsRise, [Next]_vars PROVE CallsRise'
    OBVIOUS
<1>1. /\ view.gen \in Nat /\ current_gen \in Nat /\ calls \in Seq(AnyCall)
      /\ view \in [gen : Gen, kind : Kinds, pending : BOOLEAN, error : Gen]
      /\ \A i \in 1..Len(calls) : calls[i].gen \in Nat
  <2>1. calls \in Seq(AnyCall) /\ view.gen \in Nat /\ current_gen \in Nat
    BY BoundFacts DEF ClientTyped, PageTyped, UiTyped
  <2>2. \A c \in AnyCall : c.gen \in Nat
    BY BoundFacts DEF AnyCall
  <2>3. \A i \in 1..Len(calls) : calls[i] \in AnyCall
    BY <2>1
  <2> QED
    BY <2>1, <2>2, <2>3 DEF ClientTyped, PageTyped
<1>2. ASSUME UNCHANGED <<calls, current_gen>>, view'.gen = view.gen,
             ui' = ui \/ ~Storing'
      PROVE  CallsRise'
  BY <1>2 DEF CallsRise, Storing
<1>3. ASSUME NEW kind \in Kinds, Ask(kind), UNCHANGED <<ui, current_gen>> PROVE CallsRise'
  <2> DEFINE call == [gen |-> view.gen + 1, kind |-> kind]
  <2>1. view'.gen = view.gen + 1 /\ calls' = Append(calls, call) /\ call.gen = view.gen + 1
    BY <1>3 DEF Ask
  <2>2. /\ Len(calls') = Len(calls) + 1 /\ Len(calls) \in Nat
        /\ \A i \in 1..Len(calls) : calls'[i] = calls[i]
        /\ calls'[Len(calls) + 1] = call
    BY <1>1, <2>1
  <2> HIDE DEF call
  <2>3. ASSUME NEW i \in 1..Len(calls')
        PROVE  \/ i \in 1..Len(calls) /\ calls'[i] = calls[i]
               \/ i = Len(calls) + 1 /\ calls'[i] = call
    BY <2>2
  <2>4. \A i \in 1..Len(calls') : current_gen' < calls'[i].gen /\ calls'[i].gen <= view'.gen
    BY <1>1, <1>3, <2>1, <2>3 DEF CallsRise
  <2>5. ASSUME NEW i \in 1..Len(calls'), NEW j \in 1..Len(calls'), i < j
        PROVE  calls'[i].gen < calls'[j].gen
    <3>1. i \in 1..Len(calls) /\ calls'[i] = calls[i]
      BY <2>2, <2>5
    <3>2. calls[i].gen <= view.gen
      BY <3>1 DEF CallsRise
    <3>3. CASE j \in 1..Len(calls)
      BY <2>2, <2>5, <3>1, <3>3 DEF CallsRise
    <3>4. CASE j = Len(calls) + 1
      BY <1>1, <2>1, <2>2, <3>1, <3>2, <3>4
    <3> QED
      BY <2>3, <3>3, <3>4
  <2>6. Storing => ui.call.gen \in Nat
    BY BoundFacts DEF ClientTyped, UiTyped, Storing, Idle, AnyCall
  <2>7. Storing' => /\ current_gen' < ui'.call.gen /\ ui'.call.gen <= view'.gen
                    /\ \A i \in 1..Len(calls') : ui'.call.gen < calls'[i].gen
    <3> SUFFICES ASSUME Storing
                 PROVE  /\ current_gen < ui.call.gen /\ ui.call.gen <= view'.gen
                        /\ \A i \in 1..Len(calls') : ui.call.gen < calls'[i].gen
      BY <1>3 DEF Storing
    <3> QED
      BY <1>1, <2>1, <2>3, <2>6 DEF CallsRise
  <2> QED
    BY <1>1, <1>3, <2>1, <2>4, <2>5, <2>7 DEF CallsRise
<1>4. CASE FilesSearch
  <2> DEFINE h == Head(calls)
             t == Tail(calls)
  <2>1. /\ calls' = t /\ Len(t) = Len(calls) - 1 /\ Len(calls) \in Nat /\ Len(calls) > 0
        /\ h = calls[1] /\ \A i \in 1..Len(t) : t[i] = calls[i + 1]
    BY <1>1, <1>4, HeadTailProperties, EmptySeq DEF FilesSearch
  <2>2. view' = view /\ current_gen' = current_gen
    BY <1>4 DEF FilesSearch, page, client
  <2>3. Storing' => ui'.call = h
    BY <1>4 DEF FilesSearch, Storing, Idle
  <2> HIDE DEF h, t
  <2>4. \A i \in 1..Len(t) : i + 1 \in 1..Len(calls) /\ 1 < i + 1
    BY <2>1
  <2>5. \A i \in 1..Len(t) : /\ current_gen < t[i].gen /\ t[i].gen <= view.gen
                             /\ h.gen < t[i].gen
    <3>1. \A j \in 1..Len(calls) : current_gen < calls[j].gen /\ calls[j].gen <= view.gen
      BY DEF CallsRise
    <3>2. \A j \in 1..Len(calls) : 1 < j => calls[1].gen < calls[j].gen
      <4>1. 1 \in 1..Len(calls)
        BY <2>1
      <4> QED
        BY <4>1 DEF CallsRise
    <3> SUFFICES ASSUME NEW i \in 1..Len(t)
                 PROVE  /\ current_gen < t[i].gen /\ t[i].gen <= view.gen
                        /\ h.gen < t[i].gen
      OBVIOUS
    <3>3. t[i] = calls[i + 1] /\ i + 1 \in 1..Len(calls) /\ 1 < i + 1
      BY <2>1, <2>4
    <3> QED
      BY <2>1, <3>1, <3>2, <3>3
  <2>6. \A i, j \in 1..Len(t) : i < j => t[i].gen < t[j].gen
    <3> SUFFICES ASSUME NEW i \in 1..Len(t), NEW j \in 1..Len(t), i < j
                 PROVE  t[i].gen < t[j].gen
      OBVIOUS
    <3>1. i + 1 < j + 1
      OBVIOUS
    <3> QED
      BY <2>1, <2>4, <3>1 DEF CallsRise
  <2>7. current_gen < h.gen /\ h.gen <= view.gen
    BY <2>1 DEF CallsRise
  <2> QED
    BY <2>1, <2>2, <2>3, <2>5, <2>6, <2>7 DEF CallsRise
<1>5. CASE Store
  <2>1. Storing /\ current_gen' = ui.call.gen /\ ~Storing' /\ calls' = calls /\ view' = view
    BY <1>5 DEF Store, Storing, page, wires
  <2> QED
    BY <2>1 DEF CallsRise
<1>6. CASE SendRefused \/ SendChecked \/ Stamp
  <2>1. ~Storing'
    BY <1>6 DEF SendRefused, SendChecked, Stamp, Storing, Idle, ClientTyped, UiTyped
  <2> QED
    BY <1>2, <1>6, <2>1 DEF SendRefused, SendChecked, Stamp, page, wires, client
<1>7. ASSUME NEW kind \in Kinds, Type(kind) PROVE CallsRise'
  BY <1>3, <1>7 DEF Type, client
<1>8. CASE TakeDown
  <2>1. CASE AsksAgain
    BY <1>3, <1>8, <2>1 DEF TakeDown, client, ClientTyped, PageTyped
  <2>2. CASE ~AsksAgain
    BY <1>2, <1>8, <2>2 DEF TakeDown, client
  <2> QED
    BY <2>1, <2>2
<1>9. CASE TakeRows \/ \E g \in rejects : TakeReject(g)
  <2>1. view'.gen = view.gen
    BY <1>1, <1>9 DEF TakeRows, TakeReject
  <2> QED
    BY <1>2, <1>9, <2>1 DEF TakeRows, TakeReject, client
<1>10. CASE ConnStep \/ Connect
  BY <1>2, <1>10 DEF ConnStep, Connect, Install, Announce, Relay, ReadEnds, CancelAll,
                     ClearSlot, EmitDown, page, wires, client
<1>11. CASE WriterStep
  BY <1>2, <1>11 DEF WriterStep, Take, Issue, Written, WriteBreaks, WriteFailed, page,
                     wires, client
<1>12. CASE FallbackStep \/ SvcStep \/ SvcGarbles \/ SvcDies
  BY <1>2, <1>12 DEF FallbackStep, FallbackTake, FallbackDone, SvcStep, SvcRead, SvcAnswer,
                     SvcGarbles, SvcDies, page, wires, client
<1>13. CASE UNCHANGED vars
  BY <1>2, <1>13 DEF vars, page, wires, client
<1> QED
  BY <1>4, <1>5, <1>6, <1>7, <1>8, <1>9, <1>10, <1>11, <1>12, <1>13
     DEF Next, PageStep, UiStep

\* The members of a sequence, as it is read from one end and written at the other.
LEMMA MembersMove ==
  ASSUME NEW A, NEW s \in Seq(A)
  PROVE  /\ s # <<>> => /\ Members(s) = {Head(s)} \union Members(Tail(s))
                        /\ Rising(s) => /\ Rising(Tail(s))
                                        /\ Before({Head(s)}, Members(Tail(s)))
         /\ \A e \in A : /\ Members(Append(s, e)) = Members(s) \union {e}
                         /\ Rising(s) /\ Before(Members(s), {e}) => Rising(Append(s, e))
<1>1. ASSUME s # <<>>
      PROVE  /\ Members(s) = {Head(s)} \union Members(Tail(s))
             /\ Rising(s) => Rising(Tail(s)) /\ Before({Head(s)}, Members(Tail(s)))
  <2> DEFINE t == Tail(s)
  <2>1. /\ Len(t) = Len(s) - 1 /\ Len(s) \in Nat /\ Len(s) > 0 /\ Head(s) = s[1]
        /\ \A i \in 1..Len(t) : t[i] = s[i + 1]
    BY <1>1, HeadTailProperties, EmptySeq
  <2> HIDE DEF t
  <2>2. \A i \in 1..Len(t) : i + 1 \in 1..Len(s) /\ 1 < i + 1
    BY <2>1
  <2>3. Members(s) = {Head(s)} \union Members(t)
    <3>1. ASSUME NEW x \in Members(s) PROVE x \in {Head(s)} \union Members(t)
      <4>1. PICK i \in 1..Len(s) : x = s[i]
        BY DEF Members
      <4>2. CASE i = 1
        BY <2>1, <4>1, <4>2
      <4>3. CASE i # 1
        <5>1. i - 1 \in 1..Len(t) /\ (i - 1) + 1 = i
          BY <2>1, <4>3
        <5>2. t[i - 1] = s[i]
          BY <2>1, <5>1
        <5> QED
          BY <4>1, <5>1, <5>2 DEF Members
      <4> QED
        BY <4>2, <4>3
    <3>2. ASSUME NEW x \in {Head(s)} \union Members(t) PROVE x \in Members(s)
      BY <2>1, <2>2 DEF Members
    <3> QED
      BY <3>1, <3>2
  <2>4. ASSUME Rising(s) PROVE Rising(t) /\ Before({Head(s)}, Members(t))
    <3>1. ASSUME NEW i \in 1..Len(t), NEW j \in 1..Len(t), i < j PROVE Before({t[i]}, {t[j]})
      <4>1. i + 1 < j + 1
        BY <3>1
      <4>2. Before({s[i + 1]}, {s[j + 1]})
        BY <2>2, <2>4, <4>1 DEF Rising
      <4> QED
        BY <2>1, <4>2
    <3>2. ASSUME NEW i \in 1..Len(t) PROVE Before({Head(s)}, {t[i]})
      BY <2>1, <2>2, <2>4 DEF Rising
    <3> QED
      BY <3>1, <3>2 DEF Rising, Before, Members
  <2> QED
    BY <2>3, <2>4 DEF t
<1>2. ASSUME NEW e \in A
      PROVE  /\ Members(Append(s, e)) = Members(s) \union {e}
             /\ Rising(s) /\ Before(Members(s), {e}) => Rising(Append(s, e))
  <2> DEFINE t == Append(s, e)
  <2>1. /\ Len(t) = Len(s) + 1 /\ Len(s) \in Nat /\ t[Len(s) + 1] = e
        /\ \A i \in 1..Len(s) : t[i] = s[i]
    OBVIOUS
  <2> HIDE DEF t
  <2>2. \A i \in 1..Len(t) : i \in 1..Len(s) \/ i = Len(s) + 1
    BY <2>1
  <2>3. Members(t) = Members(s) \union {e}
    BY <2>1, <2>2 DEF Members
  <2>4. ASSUME Rising(s), Before(Members(s), {e}) PROVE Rising(t)
    <3> SUFFICES ASSUME NEW i \in 1..Len(t), NEW j \in 1..Len(t), i < j
                 PROVE  Before({t[i]}, {t[j]})
      BY DEF Rising
    <3>1. i \in 1..Len(s)
      BY <2>1
    <3>2. CASE j \in 1..Len(s)
      BY <2>1, <2>4, <3>1, <3>2 DEF Rising
    <3>3. CASE j = Len(s) + 1
      BY <2>1, <2>4, <3>1, <3>3 DEF Before, Members
    <3> QED
      BY <2>2, <3>2, <3>3
  <2> QED
    BY <2>3, <2>4 DEF t
<1> QED
  BY <1>1, <1>2

LEMMA Marks ==
  ASSUME ClientTyped
  PROVE  /\ svc.latest \in Nat /\ current_gen \in Nat
         /\ \A c \in OnTheWay : c.gen \in Nat /\ Mark(c) \in Nat
<1>1. \A c \in Cmd : c.gen \in Nat
  BY BoundFacts DEF Cmd
<1>2. svc.latest \in Nat /\ current_gen \in Nat
  BY BoundFacts DEF ClientTyped, WireTyped, UiTyped
<1>3. pipe.out \in Seq(Cmd) /\ queue \in Seq(Cmd)
  BY DEF ClientTyped, WireTyped
<1>4. \A c \in Sent \union Queued : c.gen \in Nat
  <2>1. \A i \in 1..Len(pipe.out) : pipe.out[i] \in Cmd
    BY <1>3
  <2>2. \A i \in 1..Len(queue) : queue[i] \in Cmd
    BY <1>3
  <2> QED
    BY <1>1, <2>1, <2>2 DEF Sent, Queued, Members
<1>5. \A c \in Held : c.gen \in Nat
  <2>1. writer # Idle => writer.cmd \in Cmd
    BY DEF ClientTyped, WireTyped, Busy
  <2> QED
    BY <1>1, <2>1 DEF Held
<1>6. \A c \in Meant : c.gen \in Nat
  <2>1. ui.pc \in {"send", "stamp"} => ui.cmd \in AnyOp
    BY DEF ClientTyped, UiTyped, Idle
  <2> QED
    BY <2>1, BoundFacts DEF Meant, AnyOp
<1>7. \A c \in Seen : c.gen \in Nat
  BY <1>2 DEF Seen, Op
<1>8. \A c \in OnTheWay : c.gen \in Nat
  BY <1>4, <1>5, <1>6, <1>7 DEF OnTheWay
<1> QED
  BY <1>2, <1>8 DEF Mark

\* The watermark falls, or some of what is on its way goes missing.
LEMMA FewerOnTheWay ==
  ASSUME ClientTyped, ClientTyped', InLine, MarksBelow,
         Rising(pipe'.out), Rising(queue'), svc'.latest <= svc.latest,
         Sent' \subseteq Sent, Held' \subseteq Held, Queued' \subseteq Queued,
         Meant' \subseteq Meant, current_gen <= current_gen'
  PROVE  InLine' /\ MarksBelow'
<1> DEFINE was == Op("search", svc.latest)
           is == Op("search", svc'.latest)
<1>1. Seen = {was} /\ Seen' = {is}
  BY DEF Seen
<1>2. /\ Mark(is) <= Mark(was) /\ Mark(is) = svc'.latest /\ Mark(was) = svc.latest
      /\ svc.latest \in Nat /\ svc'.latest \in Nat
      /\ current_gen \in Nat /\ current_gen' \in Nat
  BY Marks DEF Mark, Op, ClientTyped, WireTyped, UiTyped, Gen
<1> HIDE DEF was, is
<1>3. \A c \in OnTheWay : c.gen \in Nat /\ Mark(c) \in Nat
  BY Marks
<1>4. ASSUME NEW d \in Sent' \union Held' \union Queued' \union Meant', d.op = "search"
      PROVE  Mark(is) <= d.gen
  <2>1. d \in OnTheWay /\ Mark(was) <= d.gen
    BY <1>1, <1>4 DEF InLine, Lined, Before, OnTheWay
  <2> QED
    BY <1>2, <1>3, <2>1
<1>5. Lined(Seen, Sent, Held, Queued, Meant)'
  BY <1>1, <1>4 DEF InLine, Lined, Before
<1>6. MarksBelow'
  <2> SUFFICES ASSUME NEW c \in OnTheWay' PROVE Mark(c) <= current_gen' + 1
    BY DEF MarksBelow
  <2>1. CASE c = is
    <3>1. Mark(was) <= current_gen + 1
      BY <1>1 DEF MarksBelow, OnTheWay
    <3> QED
      BY <1>2, <2>1, <3>1
  <2>2. CASE c # is
    <3>1. c \in OnTheWay
      BY <1>1, <2>2 DEF OnTheWay
    <3> QED
      BY <1>2, <1>3, <3>1 DEF MarksBelow
  <2> QED
    BY <2>1, <2>2
<1> QED
  BY <1>5, <1>6 DEF InLine

\* The steps that move a command, or put one on its way.
LEMMA MoveOnTheWay ==
  ASSUME ClientTyped, ClientTyped', OrderInv,
         SvcRead \/ Written \/ Take \/ Stamp \/ Store \/ FilesSearch
  PROVE  InLine' /\ MarksBelow'
<1>1. /\ svc.latest \in Nat /\ current_gen \in Nat
      /\ \A c \in OnTheWay : c.gen \in Nat /\ Mark(c) \in Nat
  BY Marks
<1>2. /\ pipe.out \in Seq(Cmd) /\ queue \in Seq(Cmd)
      /\ pipe \in [up : BOOLEAN, out : Seq(Cmd), in : Seq(AnyFrame)]
  BY DEF ClientTyped, WireTyped
<1>3. Rising(pipe.out) /\ Rising(queue) /\ Lined(Seen, Sent, Held, Queued, Meant)
  BY DEF OrderInv, InLine
<1>4. MarksBelow /\ CallsRise
  BY DEF OrderInv
<1>5. CASE SvcRead
  <2> DEFINE h == Head(pipe.out)
             was == Op("search", svc.latest)
             is == Op("search", svc'.latest)
  <2>1. /\ UNCHANGED <<Held, Queued, Meant>> /\ queue' = queue /\ current_gen' = current_gen
        /\ pipe.out # <<>> /\ pipe'.out = Tail(pipe.out)
    BY <1>2, <1>5, PipeEnds DEF SvcRead, Held, Queued, Meant, client
  <2>2. Sent = {h} \union Sent' /\ Rising(pipe'.out) /\ Before({h}, Sent')
    BY <1>2, <1>3, <2>1, MembersMove DEF Sent
  <2>3. h.op \in {"search", "cancel"} /\ h.gen \in Nat /\ h \in OnTheWay
    <3>1. h \in Cmd /\ h \in OnTheWay
      BY <1>2, <2>1, <2>2, HeadTailProperties DEF OnTheWay
    <3> QED
      BY <1>1, <3>1 DEF Cmd
  <2>4. svc'.latest = svc.latest \/ svc'.latest = Mark(h)
    <3>1. CASE h.op = "cancel"
      BY <1>5, <3>1 DEF SvcRead, Mark, Larger, ClientTyped, WireTyped
    <3>2. CASE h.op # "cancel"
      BY <1>5, <3>2 DEF SvcRead, Mark, Larger
    <3> QED
      BY <3>1, <3>2
  <2>5. Seen = {was} /\ Seen' = {is} /\ Mark(is) = svc'.latest /\ Mark(was) = svc.latest
    BY DEF Seen, Op, Mark
  <2> HIDE DEF h, was, is
  <2>6. Mark(is) = Mark(was) \/ Mark(is) = Mark(h)
    BY <2>4, <2>5
  <2>7. Before({is}, Sent' \union Held \union Queued \union Meant)
    <3> SUFFICES ASSUME NEW d \in Sent' \union Held \union Queued \union Meant,
                        d.op = "search"
                 PROVE  Mark(is) <= d.gen
      BY DEF Before
    <3>1. Mark(was) <= d.gen
      BY <1>3, <2>2, <2>5 DEF Lined, Before
    <3>2. Mark(h) <= d.gen
      BY <1>3, <2>2 DEF Lined, Before
    <3> QED
      BY <2>6, <3>1, <3>2
  <2>8. Lined(Seen, Sent, Held, Queued, Meant)'
    BY <1>3, <2>1, <2>2, <2>5, <2>7 DEF Lined, Before
  <2>9. MarksBelow'
    <3>1. Mark(was) <= current_gen + 1 /\ Mark(h) <= current_gen + 1
      BY <1>4, <2>3, <2>5 DEF MarksBelow, OnTheWay
    <3>2. \A c \in OnTheWay' : c = is \/ c \in OnTheWay
      BY <2>1, <2>2, <2>5 DEF OnTheWay
    <3> QED
      BY <1>4, <2>1, <2>6, <3>1, <3>2 DEF MarksBelow
  <2> QED
    BY <1>3, <2>1, <2>2, <2>8, <2>9 DEF InLine
<1>6. CASE Written
  <2>1. writer # Idle /\ writer' = Idle /\ writer.cmd \in Cmd
    BY <1>6 DEF Written, Idle, ClientTyped, WireTyped, Busy
  <2>2. pipe'.out = Append(pipe.out, writer.cmd)
    BY <1>2, <1>6, <2>1, PipeEnds DEF Written
  <2>3. /\ UNCHANGED <<Seen, Queued, Meant>> /\ queue' = queue /\ current_gen' = current_gen
        /\ Held = {writer.cmd} /\ Held' = {}
    BY <1>6, <2>1 DEF Written, Seen, Queued, Meant, Held, client
  <2>4. Sent' = Sent \union Held /\ Before(Sent, Held)
    BY <1>2, <1>3, <2>1, <2>2, <2>3, MembersMove DEF Sent, Lined, Before
  <2>5. Rising(pipe'.out)
    <3>1. Before(Members(pipe.out), {writer.cmd})
      BY <2>3, <2>4 DEF Sent
    <3>2. \A e \in Cmd : Rising(pipe.out) /\ Before(Members(pipe.out), {e})
                           => Rising(Append(pipe.out, e))
      BY <1>2, MembersMove
    <3> QED
      BY <1>3, <2>1, <2>2, <3>1, <3>2
  <2>6. Lined(Seen, Sent, Held, Queued, Meant)'
    BY <1>3, <2>3, <2>4 DEF Lined, Before
  <2>7. OnTheWay' = OnTheWay
    BY <2>3, <2>4 DEF OnTheWay
  <2> QED
    BY <1>3, <1>4, <2>3, <2>5, <2>6, <2>7 DEF InLine, MarksBelow
<1>7. CASE Take
  <2> DEFINE h == Head(queue)
  <2>1. queue # <<>> /\ queue' = Tail(queue) /\ Held = {} /\ Held' \subseteq {h}
    <3>1. writer' = Idle \/ writer'.cmd = h
      BY <1>7 DEF Take
    <3> QED
      BY <1>7, <3>1 DEF Take, Held
  <2>2. /\ UNCHANGED <<Seen, Sent, Meant>> /\ pipe' = pipe /\ current_gen' = current_gen
    BY <1>7 DEF Take, Seen, Sent, Meant, client
  <2>3. Queued = {h} \union Queued' /\ Rising(queue') /\ Before({h}, Queued')
    BY <1>2, <1>3, <2>1, MembersMove DEF Queued
  <2> HIDE DEF h
  <2>4. Lined(Seen, Sent, Held, Queued, Meant)'
    BY <1>3, <2>1, <2>2, <2>3 DEF Lined, Before
  <2>5. OnTheWay' \subseteq OnTheWay
    BY <2>1, <2>2, <2>3 DEF OnTheWay
  <2> QED
    BY <1>3, <1>4, <2>2, <2>3, <2>4, <2>5 DEF InLine, MarksBelow
<1>8. CASE Stamp
  <2> DEFINE c == [epoch |-> epoch, op |-> ui.cmd.op, gen |-> ui.cmd.gen]
  <2>1. /\ Meant = {ui.cmd} /\ Meant' = {} /\ queue' = Append(queue, c)
    BY <1>8 DEF Stamp, Meant, Idle
  <2>2. UNCHANGED <<Seen, Sent, Held>> /\ pipe' = pipe /\ current_gen' = current_gen
    BY <1>8 DEF Stamp, Seen, Sent, Held, client
  <2>3. c \in Cmd
    <3>1. ui.cmd \in AnyOp
      BY <1>8 DEF Stamp, ClientTyped, UiTyped, Idle
    <3> QED
      BY <3>1 DEF AnyOp, Cmd, ClientTyped, WireTyped
  <2>4. c.op = ui.cmd.op /\ c.gen = ui.cmd.gen /\ Mark(c) = Mark(ui.cmd)
    BY DEF Mark
  <2> HIDE DEF c
  <2>5. Before(Queued, {c})
    BY <1>3, <2>1, <2>4 DEF Lined, Before
  <2>6. Queued' = Queued \union {c} /\ Rising(queue')
    <3>1. Before(Members(queue), {c})
      BY <2>5 DEF Queued
    <3>2. \A e \in Cmd : /\ Members(Append(queue, e)) = Members(queue) \union {e}
                         /\ Rising(queue) /\ Before(Members(queue), {e})
                              => Rising(Append(queue, e))
      BY <1>2, MembersMove
    <3>3. Rising(queue') /\ Members(queue') = Members(queue) \union {c}
      BY <1>3, <2>1, <2>3, <3>1, <3>2
    <3> QED
      BY <3>3 DEF Queued
  <2>7. Lined(Seen, Sent, Held, Queued, Meant)'
    BY <1>3, <2>1, <2>2, <2>4, <2>6 DEF Lined, Before
  <2>8. MarksBelow'
    <3>1. \A x \in OnTheWay' : x = c \/ x \in OnTheWay
      BY <2>1, <2>2, <2>6 DEF OnTheWay
    <3>2. Mark(c) <= current_gen + 1
      BY <1>4, <2>1, <2>4 DEF MarksBelow, OnTheWay
    <3> QED
      BY <1>4, <2>2, <3>1, <3>2 DEF MarksBelow
  <2> QED
    BY <1>3, <2>2, <2>6, <2>7, <2>8 DEF InLine
<1>9. CASE Store
  <2> DEFINE c == Op("search", ui.call.gen)
  <2>1. Meant = {} /\ Meant' = {c} /\ current_gen' = ui.call.gen /\ current_gen < ui.call.gen
    BY <1>4, <1>9 DEF Store, Meant, CallsRise, Storing
  <2>2. UNCHANGED <<Seen, Sent, Held, Queued>> /\ pipe' = pipe /\ queue' = queue
    BY <1>9 DEF Store, Seen, Sent, Held, Queued
  <2>3. c.gen = ui.call.gen /\ Mark(c) = ui.call.gen /\ ui.call.gen \in Nat
    BY <1>9, BoundFacts DEF Op, Mark, Store, ClientTyped, UiTyped, Idle, AnyCall
  <2> HIDE DEF c
  <2>4. \A x \in OnTheWay : Mark(x) <= c.gen
    BY <1>1, <1>4, <2>1, <2>3 DEF MarksBelow
  <2>5. Lined(Seen, Sent, Held, Queued, Meant)'
    BY <1>3, <2>1, <2>2, <2>4 DEF Lined, Before, OnTheWay
  <2>6. MarksBelow'
    <3>1. \A x \in OnTheWay' : x = c \/ x \in OnTheWay
      BY <2>1, <2>2 DEF OnTheWay
    <3> QED
      BY <1>1, <2>1, <2>3, <2>4, <3>1 DEF MarksBelow
  <2> QED
    BY <1>3, <2>2, <2>5, <2>6 DEF InLine
<1>10. CASE FilesSearch
  <2>1. /\ UNCHANGED <<Seen, Sent, Held, Queued>> /\ pipe' = pipe /\ queue' = queue
        /\ current_gen' = current_gen /\ Meant = {}
    BY <1>10 DEF FilesSearch, Seen, Sent, Held, Queued, Meant, Idle, client
  <2>2. Meant' \subseteq {CancelCurrent}
    BY <1>10 DEF FilesSearch, Meant, Idle
  <2>3. CancelCurrent.op # "search" /\ Mark(CancelCurrent) = current_gen + 1
    BY DEF CancelCurrent, Op, Mark
  <2>4. Lined(Seen, Sent, Held, Queued, Meant)'
    BY <1>3, <2>1, <2>2, <2>3 DEF Lined, Before
  <2>5. MarksBelow'
    <3>1. \A x \in OnTheWay' : x = CancelCurrent \/ x \in OnTheWay
      BY <2>1, <2>2 DEF OnTheWay
    <3> QED
      BY <1>1, <1>4, <2>1, <2>3, <3>1 DEF MarksBelow
  <2> QED
    BY <1>3, <2>1, <2>4, <2>5 DEF InLine
<1> QED
  BY <1>5, <1>6, <1>7, <1>8, <1>9, <1>10

LEMMA OrderStep ==
  ASSUME ClientTyped, ClientTyped', OrderInv, [Next]_vars
  PROVE  InLine' /\ MarksBelow'
<1>1. InLine /\ MarksBelow /\ Rising(pipe.out) /\ Rising(queue)
  BY DEF OrderInv, InLine
<1>2. svc.latest \in Nat /\ current_gen \in Nat
  BY Marks
<1>3. /\ pipe \in [up : BOOLEAN, out : Seq(Cmd), in : Seq(AnyFrame)]
      /\ pipe.out \in Seq(Cmd)
  BY DEF ClientTyped, WireTyped
<1>4. ASSUME UNCHANGED <<queue, current_gen>>, pipe'.out = pipe.out \/ pipe'.out = <<>>,
             svc'.latest <= svc.latest, Held' \subseteq Held, Meant' \subseteq Meant
      PROVE  InLine' /\ MarksBelow'
  <2>1. Rising(pipe'.out) /\ Sent' \subseteq Sent
    BY <1>1, <1>4 DEF Rising, Sent, Members
  <2>2. Queued' = Queued /\ current_gen <= current_gen'
    BY <1>2, <1>4 DEF Queued
  <2> QED
    BY <1>1, <1>4, <2>1, <2>2, FewerOnTheWay
<1>5. CASE SvcRead \/ Written \/ Take \/ Stamp \/ Store \/ FilesSearch
  BY <1>5, MoveOnTheWay
<1>6. ASSUME UNCHANGED <<ui, queue, current_gen, writer, svc>>,
             pipe'.out = pipe.out \/ pipe'.out = <<>>
      PROVE  InLine' /\ MarksBelow'
  <2>1. UNCHANGED <<Held, Meant>> /\ svc'.latest <= svc.latest
    BY <1>2, <1>6 DEF Held, Meant
  <2> QED
    BY <1>4, <1>6, <2>1
<1>7. CASE PageStep \/ (\E kind \in Kinds : Type(kind)) \/ FallbackStep \/ UNCHANGED vars
  BY <1>6, <1>7 DEF PageStep, TakeRows, TakeDown, TakeReject, Type, FallbackStep,
                    FallbackTake, FallbackDone, vars, client
<1>8. CASE SendRefused \/ SendChecked
  <2>1. Meant' \subseteq Meant /\ UNCHANGED <<queue, current_gen, writer, svc, pipe>>
    <3>1. CASE SendRefused
      BY <1>8, <3>1 DEF SendRefused, Meant, Idle, client
    <3>2. CASE SendChecked
      <4>1. ui \in [pc : {"send", "stamp"}, call : AnyCall, cmd : AnyOp]
        BY <3>2 DEF SendChecked, Idle, ClientTyped, UiTyped
      <4>2. ui' = [ui EXCEPT !.pc = "stamp"]
        BY <3>2 DEF SendChecked
      <4>3. ui'.cmd = ui.cmd
        BY <4>1, <4>2
      <4> QED
        BY <3>2, <4>1, <4>3 DEF SendChecked, Meant, client
    <3> QED
      BY <1>8, <3>1, <3>2
  <2> QED
    BY <1>2, <1>4, <2>1 DEF Held
<1>9. CASE Connect
  <2>1. /\ UNCHANGED <<ui, queue, current_gen, writer>> /\ svc'.latest = 0
        /\ pipe'.out = <<>>
    BY <1>9 DEF Connect
  <2> QED
    BY <1>2, <1>4, <2>1 DEF Held, Meant
<1>10. CASE Install \/ Announce \/ ReadEnds \/ EmitDown
  BY <1>6, <1>10 DEF Install, Announce, ReadEnds, EmitDown, client
<1>11. CASE Relay \/ ClearSlot
  <2>1. pipe'.out = pipe.out
    <3>1. CASE Relay
      <4> DEFINE rest == Tail(pipe.in)
      <4>1. pipe' = [pipe EXCEPT !.in = rest]
        BY <3>1 DEF Relay
      <4> HIDE DEF rest
      <4> QED
        BY <1>3, <4>1
    <3>2. CASE ClearSlot
      <4>1. pipe' = [pipe EXCEPT !.up = FALSE]
        BY <3>2 DEF ClearSlot
      <4> QED
        BY <1>3, <4>1
    <3> QED
      BY <1>11, <3>1, <3>2
  <2> QED
    BY <1>6, <1>11, <2>1 DEF Relay, ClearSlot, client
<1>12. CASE CancelAll \/ Issue \/ WriteBreaks \/ WriteFailed
  <2>1. UNCHANGED <<ui, queue, current_gen, svc, pipe>>
    BY <1>12 DEF CancelAll, Issue, WriteBreaks, WriteFailed, client
  <2>2. Held' \subseteq Held
    <3>1. CASE writer' = writer \/ writer' = Idle
      BY <3>1 DEF Held
    <3>2. ASSUME NEW p, writer' = [writer EXCEPT !.pc = p], writer # Idle
          PROVE  Held' \subseteq Held
      <4>1. writer'.cmd = writer.cmd
        BY <3>2 DEF ClientTyped, WireTyped, Busy
      <4> QED
        BY <3>2, <4>1 DEF Held
    <3> QED
      BY <1>12, <3>1, <3>2 DEF CancelAll, Issue, WriteBreaks, WriteFailed, Idle
  <2> QED
    BY <1>2, <1>4, <2>1, <2>2 DEF Meant
<1>13. CASE SvcAnswer \/ SvcGarbles \/ SvcDies
  <2>1. pipe'.out = pipe.out \/ pipe'.out = <<>>
    BY <1>3, <1>13 DEF SvcAnswer, SvcGarbles, SvcDies
  <2>2. svc'.latest = svc.latest
    BY <1>13 DEF SvcAnswer, SvcGarbles, SvcDies, ClientTyped, WireTyped
  <2>3. UNCHANGED <<ui, queue, current_gen, writer>>
    BY <1>13 DEF SvcAnswer, SvcGarbles, SvcDies, client
  <2> QED
    BY <1>2, <1>4, <2>1, <2>2, <2>3 DEF Held, Meant
<1> QED
  BY <1>5, <1>7, <1>8, <1>9, <1>10, <1>11, <1>12, <1>13
     DEF Next, UiStep, ConnStep, WriterStep, SvcStep

\* What can end the wait: rows of the newest generation, or a rejected call,
\* whose own generation, never 0, is what the error shows.
LEMMA SettledStep ==
  ASSUME ClientTyped, SettledMeansAnswered, [Next]_vars
  PROVE  SettledMeansAnswered'
<1>1. view \in [gen : Gen, kind : Kinds, pending : BOOLEAN, error : Gen]
  BY DEF ClientTyped, PageTyped
<1> USE DEF SettledMeansAnswered, Asked, Misled
<1>2. CASE UNCHANGED <<view, answered>>
  BY <1>2
<1>3. ASSUME NEW kind \in Kinds, Ask(kind) PROVE SettledMeansAnswered'
  <2>1. view'.kind = kind /\ (view'.pending <=> kind # "empty")
    BY <1>3 DEF Ask
  <2> QED
    BY <2>1
<1>4. CASE TakeRows
  <2>1. CASE IsCurrent(Head(events).gen)
    <3>1. view'.gen \in answered'
      BY <1>1, <1>4, <2>1 DEF TakeRows, IsCurrent
    <3> QED
      BY <3>1
  <2>2. CASE ~IsCurrent(Head(events).gen)
    BY <1>2, <1>4, <2>2 DEF TakeRows
  <2> QED
    BY <2>1, <2>2
<1>5. CASE TakeDown
  BY <1>2, <1>3, <1>5 DEF TakeDown, ClientTyped, PageTyped
<1>6. ASSUME NEW g \in rejects, TakeReject(g) PROVE SettledMeansAnswered'
  <2>1. g # 0
    BY <1>6 DEF ClientTyped, PageTyped
  <2>2. view'.gen = view.gen /\ view'.error = g /\ answered' = answered \union {g}
    BY <1>1, <1>6 DEF TakeReject
  <2> QED
    BY <2>1, <2>2
<1>7. ASSUME NEW kind \in Kinds, Type(kind) PROVE SettledMeansAnswered'
  BY <1>3, <1>7 DEF Type
<1>8. CASE UiStep \/ Connect \/ ConnStep \/ UNCHANGED vars
  BY <1>2, <1>8 DEF UiStep, FilesSearch, Store, SendRefused, SendChecked, Stamp, Connect,
                    ConnStep, Install, Announce, Relay, ReadEnds, CancelAll, ClearSlot,
                    EmitDown, vars, page
<1>9. CASE WriterStep \/ FallbackStep \/ SvcStep \/ SvcGarbles \/ SvcDies
  BY <1>2, <1>9 DEF WriterStep, Take, Issue, Written, WriteBreaks, WriteFailed, FallbackStep,
                    FallbackTake, FallbackDone, SvcStep, SvcRead, SvcAnswer, SvcGarbles,
                    SvcDies, page
<1> QED
  BY <1>4, <1>5, <1>6, <1>7, <1>8, <1>9 DEF Next, PageStep

-----------------------------------------------------------------------------
THEOREM ClientSafe == Spec => []ClientInv
<1>1. ClientInv /\ [Next]_vars => ClientInv'
  <2> SUFFICES ASSUME ClientInv, [Next]_vars PROVE ClientInv'
    OBVIOUS
  <2>1. CountInv /\ ClientTyped /\ SlotOwned /\ NoReplay /\ OrderInv /\ CallsRise
        /\ SettledMeansAnswered
    BY DEF ClientInv, CountInv, OrderInv
  <2>2. PageTyped' /\ UiTyped' /\ FlagsTyped'
    BY <2>1, PageTypes, UiTypes, FlagTypes
  <2>3. WireTyped' /\ SlotOwned' /\ NoReplay'
    BY <2>1, OthersStep, ConnStepOwned, WriterStepOwned, PeerStepOwned DEF Next
  <2>4. ClientTyped' /\ GensCounted'
    BY <2>1, <2>2, <2>3, CountStep DEF ClientTyped
  <2>5. OrderInv'
    BY <2>1, <2>4, CallsStep, OrderStep DEF OrderInv
  <2>6. SettledMeansAnswered'
    BY <2>1, SettledStep
  <2> QED
    BY <2>3, <2>4, <2>5, <2>6 DEF ClientInv, CountInv
<1> QED
  BY <1>1, InitClientInv, PTL DEF Spec

\* However callers, the connection thread and the writer interleave, and
\* however often the service comes and goes, what an instance of it is sent
\* was queued under the connection to it.
THEOREM NoCommandIsReplayed == Spec => []NoReplay
BY ClientSafe, PTL DEF ClientInv

\* Each query has its own outcome (search_with, cancel_current and the view's
\* re-ask): the service never reads a query it has been told to pass over, and
\* a view stops waiting only for its own query's outcome, or for an error that
\* says it is another's.  Its types hold too, one generation per keystroke and
\* per connection lost.
THEOREM OutcomesAreEachTheirOwn == Spec => []OutcomesAreOwn
<1>1. ClientInv => ClientTypeOK
  <2> SUFFICES ASSUME ClientInv PROVE ClientTypeOK
    OBVIOUS
  <2>1. PageTyped /\ UiTyped /\ WireTyped /\ FlagsTyped /\ SlotOwned
    BY DEF ClientInv, CountInv, ClientTyped
  <2>2. /\ view \in [gen : Gen, kind : Kinds, pending : BOOLEAN, error : Gen]
        /\ typed \in 0..MaxTyped /\ answered \subseteq Gen /\ rejects \subseteq Gen
    BY <2>1 DEF PageTyped
  <2>3. calls \in Seq([gen : Gen, kind : Kinds])
    <3>1. AnyCall \subseteq [gen : Gen, kind : Kinds]
      BY DEF AnyCall
    <3>2. \A i \in 1..Len(calls) : calls[i] \in [gen : Gen, kind : Kinds]
      BY <2>1, <3>1 DEF PageTyped
    <3>3. calls \in [1..Len(calls) -> [gen : Gen, kind : Kinds]] /\ Len(calls) \in Nat
      <4>1. calls \in [1..Len(calls) -> AnyCall] /\ Len(calls) \in Nat
        BY <2>1, LenProperties DEF PageTyped
      <4> QED
        BY <3>2, <4>1
    <3> DEFINE K == [gen : Gen, kind : Kinds]
    <3> HIDE DEF K
    <3>4. calls \in [1..Len(calls) -> K] /\ Len(calls) \in Nat
      BY <3>3 DEF K
    <3>5. calls \in Seq(K)
      BY <3>4, SeqDef
    <3> QED
      BY <3>5 DEF K
  <2>4. ui.pc \in {"idle", "store", "send", "stamp"}
    BY <2>1 DEF UiTyped, Idle
  <2>5. writer.pc \in {"idle", "issuing", "pending", "failing"}
    BY <2>1 DEF WireTyped, Idle, Busy
  <2>6. /\ pipe.up \in BOOLEAN /\ pipe.out \in Seq(Cmd)
        /\ pipe.in \in Seq([op : {"rows", "garbled"}, gen : Gen])
        /\ svc \in [latest : 0..(MaxTyped + MaxEpochs + 1), job : Gen]
        /\ queue \in Seq(Cmd) /\ epoch \in 0..MaxEpochs /\ slot \in {0, epoch}
    BY <2>1 DEF WireTyped, SlotOwned, AnyFrame, Bound
  <2>7. /\ fb \in [slot : Gen, latest : Gen, running : Gen]
        /\ current_gen \in Gen
    BY <2>1 DEF UiTyped
  <2>8. /\ events \in Seq([op : {"rows", "down"}, gen : Gen]) /\ connected \in BOOLEAN
        /\ conn \in {"down", "bumped", "installed", "reading", "dropping", "clearing",
                     "leaving"}
    BY <2>1 DEF FlagsTyped, AnyEvent
  <2> QED
    BY <2>2, <2>3, <2>4, <2>5, <2>6, <2>7, <2>8 DEF ClientTypeOK
<1>2. ClientInv => QueriesAreNew
  <2> SUFFICES ASSUME ClientInv, NEW i \in 1..Len(pipe.out), pipe.out[i].op = "search"
               PROVE  pipe.out[i].gen >= svc.latest
    BY DEF QueriesAreNew
  <2>1. Before(Seen, Sent) /\ ClientTyped
    BY DEF ClientInv, CountInv, OrderInv, InLine, Lined, Before
  <2>2. pipe.out[i] \in Sent
    BY DEF Sent, Members
  <2>3. Mark(Op("search", svc.latest)) = svc.latest
    BY DEF Mark, Op
  <2>4. svc.latest <= pipe.out[i].gen
    BY <2>1, <2>2, <2>3 DEF Before, Seen
  <2>5. svc.latest \in Nat /\ pipe.out[i].gen \in Nat
    BY <2>1, <2>2, Marks DEF OnTheWay
  <2> QED
    BY <2>4, <2>5
<1>3. ClientInv => SettledMeansAnswered
  BY DEF ClientInv
<1>4. ClientInv => OutcomesAreOwn
  BY <1>1, <1>2, <1>3 DEF OutcomesAreOwn
<1> QED
  BY <1>4, ClientSafe, PTL
=============================================================================
