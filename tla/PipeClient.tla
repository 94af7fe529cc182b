----------------------------- MODULE PipeClient -----------------------------
(***************************************************************************)
(* The shell's end of the pipe across reconnects (pipe_client.rs), with    *)
(* the File Search view that asks (Files.tsx), the command that relays     *)
(* (files_search), the fallback worker that answers when there is no       *)
(* service, and the service as a peer that may die at any moment.  Four    *)
(* threads of the shell take part: the page, the UI thread running         *)
(* commands, the connection thread and the writer thread.                  *)
(*                                                                         *)
(* A generation stands for its query's text.  The root list's queries and  *)
(* the traffic of one connection in detail are the module Session.         *)
(***************************************************************************)
EXTENDS Integers, Sequences

CONSTANTS MaxTyped,    \* bound on keystrokes
          MaxEpochs,   \* bound on connections
          OutRoom,     \* frames the pipe buffers towards the service
          InRoom       \* and towards the shell

ASSUME PipeClientAssumption == {MaxTyped, MaxEpochs, OutRoom, InRoom} \subseteq Nat \ {0}

VARIABLES view,        \* the view: newest generation, its kind, pending, error
          typed,       \* keystrokes so far
          answered,    \* history: generations whose own outcome reached the view
          calls,       \* files_search calls the UI thread has not run yet
          events,      \* events on their way to the page, in order
          rejects,     \* generations whose call was rejected, replies on their way
          ui,          \* the UI thread: where it is, its call, the command it sends
          current_gen, connected, epoch,  \* PipeClient's atomics
          queue,       \* commands, each stamped with an epoch
          slot,        \* epoch of the installed write half, 0 for none
          writer,      \* the writer thread, holding the slot's lock unless "idle"
          conn,        \* the connection thread
          aborted,     \* its read was aborted by cancel_all
          pipe,        \* the current pipe: peer alive, frames each way
          svc,         \* the peer's session: watermark and query in hand
          fb           \* FallbackQueue: slot, newest generation, running one

page == <<view, typed, answered>>
wires == <<calls, events, rejects>>
client == <<current_gen, connected, epoch, slot>>
vars == <<page, wires, ui, client, queue, writer, conn, aborted, pipe, svc, fb>>

Gen == 0..(MaxTyped + MaxEpochs)
Kinds == {"name", "refused", "empty"}  \* a query, one the parser refuses, none
Op(op, g) == [op |-> op, gen |-> g]
Cmd == [epoch : 0..MaxEpochs, op : {"search", "cancel"}, gen : Gen]
Idle == [pc |-> "idle"]
Larger(a, b) == IF a > b THEN a ELSE b

Init ==
  /\ view = [gen |-> 0, kind |-> "empty", pending |-> FALSE, error |-> 0]
  /\ typed = 0 /\ answered = {}
  /\ calls = <<>> /\ events = <<>> /\ rejects = {}
  /\ ui = Idle
  /\ current_gen = 0 /\ connected = FALSE /\ epoch = 0 /\ slot = 0
  /\ queue = <<>> /\ writer = Idle
  /\ conn = "down" /\ aborted = FALSE
  /\ pipe = [up |-> FALSE, out |-> <<>>, in |-> <<>>]
  /\ svc = [latest |-> 0, job |-> 0]
  /\ fb = [slot |-> 0, latest |-> 0, running |-> 0]

-----------------------------------------------------------------------------
\* The page

\* run: the next generation is asked for, whatever was in flight.
Ask(kind) ==
  LET g == view.gen + 1 IN
  /\ view' = [gen |-> g, kind |-> kind, pending |-> kind # "empty", error |-> 0]
  /\ calls' = Append(calls, [gen |-> g, kind |-> kind])

Type(kind) ==
  /\ typed < MaxTyped /\ typed' = typed + 1
  /\ Ask(kind)
  /\ UNCHANGED <<answered, events, rejects, ui, client, queue, writer, conn, aborted,
                 pipe, svc, fb>>

\* Mutant: rows of any generation are taken.
IsAny(g) == TRUE

\* Rows of the newest generation settle it; rows of any other are not its own.
IsCurrent(g) == g = view.gen

TakeRows ==
  /\ events # <<>> /\ Head(events).op = "rows"
  /\ events' = Tail(events)
  /\ IF IsCurrent(Head(events).gen)
     THEN /\ view' = [view EXCEPT !.pending = FALSE]
          /\ answered' = answered \union {Head(events).gen}
     ELSE UNCHANGED <<view, answered>>
  /\ UNCHANGED <<typed, calls, rejects, ui, client, queue, writer, conn, aborted,
                 pipe, svc, fb>>

\* The service went away: what is in flight, and only that, is asked again.
AsksAgain == view.pending /\ view.gen # 0 /\ view.kind # "empty"

TakeDown ==
  /\ events # <<>> /\ Head(events).op = "down"
  /\ events' = Tail(events)
  /\ IF AsksAgain THEN Ask(view.kind) ELSE UNCHANGED <<view, calls>>
  /\ UNCHANGED <<typed, answered, rejects, ui, client, queue, writer, conn, aborted,
                 pipe, svc, fb>>

\* A rejected call's error is shown and ends the wait, whichever call it was.
TakeReject(g) ==
  /\ g \in rejects /\ rejects' = rejects \ {g}
  /\ view' = [view EXCEPT !.pending = FALSE, !.error = g]
  /\ answered' = answered \union {g}
  /\ UNCHANGED <<typed, calls, events, ui, client, queue, writer, conn, aborted,
                 pipe, svc, fb>>

-----------------------------------------------------------------------------
\* The UI thread: files_search, search_with, cancel_current and send

CancelCurrent == Op("cancel", current_gen)

\* Mutant: a request that finds the place taken is left out.
SubmitIfFree(g) == fb' = [fb EXCEPT !.latest = Larger(@, g), !.slot = IF @ = 0 THEN g ELSE @]

\* FallbackQueue::submit: the newest request takes the one place.
Submit(g) == fb' = [fb EXCEPT !.latest = Larger(@, g), !.slot = g]

FilesSearch ==
  /\ ui = Idle /\ calls # <<>> /\ calls' = Tail(calls)
  /\ LET call == Head(calls) IN
     \/ /\ call.kind # "name"
        /\ ui' = [pc |-> "send", call |-> call, cmd |-> CancelCurrent]
        /\ UNCHANGED fb
     \/ /\ call.kind = "name" /\ connected
        /\ ui' = [pc |-> "store", call |-> call]
        /\ UNCHANGED fb
     \/ /\ call.kind = "name" /\ ~connected
        /\ Submit(call.gen)
        /\ UNCHANGED ui
  /\ UNCHANGED <<page, events, rejects, client, queue, writer, conn, aborted, pipe, svc>>

\* search_with stores the generation (and its text) before it sends.
Store ==
  /\ ui.pc = "store"
  /\ current_gen' = ui.call.gen
  /\ ui' = [pc |-> "send", call |-> ui.call, cmd |-> Op("search", ui.call.gen)]
  /\ UNCHANGED <<page, wires, connected, epoch, slot, queue, writer, conn, aborted,
                 pipe, svc, fb>>

\* send looks at connected first and at the epoch afterwards.
SendRefused ==
  /\ ui.pc = "send" /\ ~connected
  /\ ui' = Idle
  /\ rejects' = IF ui.call.kind = "empty" THEN rejects ELSE rejects \union {ui.call.gen}
  /\ UNCHANGED <<page, calls, events, client, queue, writer, conn, aborted, pipe, svc, fb>>

SendChecked ==
  /\ ui.pc = "send" /\ connected
  /\ ui' = [ui EXCEPT !.pc = "stamp"]
  /\ UNCHANGED <<page, wires, client, queue, writer, conn, aborted, pipe, svc, fb>>

Stamp ==
  /\ ui.pc = "stamp"
  /\ queue' = Append(queue, [epoch |-> epoch, op |-> ui.cmd.op, gen |-> ui.cmd.gen])
  /\ ui' = Idle
  /\ rejects' = IF ui.call.kind = "refused" THEN rejects \union {ui.call.gen} ELSE rejects
  /\ UNCHANGED <<page, calls, events, client, writer, conn, aborted, pipe, svc, fb>>

-----------------------------------------------------------------------------
\* The connection thread: run_loop, read_loop, handle_msg, drop_writer

\* Connected, handshake done, epoch bumped; the old pipe is gone.
Connect ==
  /\ conn = "down" /\ epoch < MaxEpochs
  /\ epoch' = epoch + 1
  /\ conn' = "bumped" /\ aborted' = FALSE
  /\ pipe' = [up |-> TRUE, out |-> <<>>, in |-> <<>>]
  /\ svc' = [latest |-> 0, job |-> 0]
  /\ UNCHANGED <<page, wires, ui, current_gen, connected, slot, queue, writer, fb>>

Install ==
  /\ conn = "bumped" /\ writer = Idle
  /\ slot' = epoch
  /\ conn' = "installed"
  /\ UNCHANGED <<page, wires, ui, current_gen, connected, epoch, queue, writer, aborted,
                 pipe, svc, fb>>

Announce ==
  /\ conn = "installed"
  /\ connected' = TRUE
  /\ conn' = "reading"
  /\ UNCHANGED <<page, wires, ui, current_gen, epoch, slot, queue, writer, aborted,
                 pipe, svc, fb>>

\* Frames of a generation older than the current one are not relayed.
Relay ==
  /\ conn = "reading" /\ ~aborted /\ pipe.in # <<>> /\ Head(pipe.in).op = "rows"
  /\ pipe' = [pipe EXCEPT !.in = Tail(@)]
  /\ events' = IF Head(pipe.in).gen < current_gen THEN events
               ELSE Append(events, Head(pipe.in))
  /\ UNCHANGED <<page, calls, rejects, ui, client, queue, writer, conn, aborted, svc, fb>>

\* End of stream, an aborted read or a frame that does not decode.
ReadEnds ==
  /\ conn = "reading"
  /\ \/ aborted
     \/ pipe.in = <<>> /\ ~pipe.up
     \/ pipe.in # <<>> /\ Head(pipe.in).op = "garbled"
  /\ connected' = FALSE
  /\ conn' = "dropping"
  /\ UNCHANGED <<page, wires, ui, current_gen, epoch, slot, queue, writer, aborted,
                 pipe, svc, fb>>

\* Only a write that is already pending is aborted.
CancelAll ==
  /\ conn = "dropping"
  /\ writer' = IF writer.pc = "pending" THEN [writer EXCEPT !.pc = "failing"] ELSE writer
  /\ conn' = "clearing"
  /\ UNCHANGED <<page, wires, ui, client, queue, aborted, pipe, svc, fb>>

\* Clearing the slot waits for the writer; the pipe goes with its two halves.
ClearSlot ==
  /\ conn = "clearing" /\ writer = Idle
  /\ slot' = 0
  /\ pipe' = [pipe EXCEPT !.up = FALSE]
  /\ conn' = "leaving"
  /\ UNCHANGED <<page, wires, ui, current_gen, connected, epoch, queue, writer, aborted,
                 svc, fb>>

EmitDown ==
  /\ conn = "leaving"
  /\ events' = Append(events, Op("down", 0))
  /\ conn' = "down"
  /\ UNCHANGED <<page, calls, rejects, ui, client, queue, writer, aborted, pipe, svc, fb>>

-----------------------------------------------------------------------------
\* The writer thread: write_loop

\* Mutant: the epoch is not compared.
TakeAny ==
  /\ writer = Idle /\ queue # <<>>
  /\ queue' = Tail(queue)
  /\ writer' = IF slot # 0 THEN [pc |-> "issuing", cmd |-> Head(queue)] ELSE Idle
  /\ UNCHANGED <<page, wires, ui, client, conn, aborted, pipe, svc, fb>>

\* A command goes out on the connection it was queued for, or not at all.
Take ==
  /\ writer = Idle /\ queue # <<>>
  /\ queue' = Tail(queue)
  /\ writer' = IF slot # 0 /\ slot = Head(queue).epoch
               THEN [pc |-> "issuing", cmd |-> Head(queue)] ELSE Idle
  /\ UNCHANGED <<page, wires, ui, client, conn, aborted, pipe, svc, fb>>

\* The write is issued, and is pending unless it can be settled at once.
Issue ==
  /\ writer.pc = "issuing"
  /\ writer' = [writer EXCEPT !.pc = IF pipe.up THEN "pending" ELSE "failing"]
  /\ UNCHANGED <<page, wires, ui, client, queue, conn, aborted, pipe, svc, fb>>

Written ==
  /\ writer.pc = "pending" /\ pipe.up /\ Len(pipe.out) < OutRoom
  /\ pipe' = [pipe EXCEPT !.out = Append(@, writer.cmd)]
  /\ writer' = Idle
  /\ UNCHANGED <<page, wires, ui, client, queue, conn, aborted, svc, fb>>

WriteBreaks ==
  /\ writer.pc = "pending" /\ ~pipe.up
  /\ writer' = [writer EXCEPT !.pc = "failing"]
  /\ UNCHANGED <<page, wires, ui, client, queue, conn, aborted, pipe, svc, fb>>

\* A failed write wakes the connection thread out of a pending read and clears
\* the slot; the read is aborted only if it is pending.
WriteFailed ==
  /\ writer.pc = "failing"
  /\ connected' = FALSE
  /\ aborted' = (aborted \/ (conn = "reading" /\ pipe.in = <<>>))
  /\ slot' = 0
  /\ writer' = Idle
  /\ UNCHANGED <<page, wires, ui, current_gen, epoch, queue, conn, pipe, svc, fb>>

-----------------------------------------------------------------------------
\* The fallback worker, and the peer

FallbackTake ==
  /\ fb.running = 0 /\ fb.slot # 0
  /\ fb' = [fb EXCEPT !.slot = 0, !.running = IF fb.latest <= fb.slot THEN fb.slot ELSE 0]
  /\ UNCHANGED <<page, wires, ui, client, queue, writer, conn, aborted, pipe, svc>>

FallbackDone ==
  /\ fb.running # 0
  /\ fb' = [fb EXCEPT !.running = 0]
  /\ events' = IF fb.latest <= fb.running THEN Append(events, Op("rows", fb.running))
               ELSE events
  /\ UNCHANGED <<page, calls, rejects, ui, client, queue, writer, conn, aborted, pipe, svc>>

SvcRead ==
  /\ pipe.up /\ pipe.out # <<>>
  /\ pipe' = [pipe EXCEPT !.out = Tail(@)]
  /\ LET m == Head(pipe.out) IN
     svc' = IF m.op = "cancel" THEN [svc EXCEPT !.latest = Larger(@, m.gen + 1)]
            ELSE [latest |-> Larger(svc.latest, m.gen), job |-> m.gen]
  /\ UNCHANGED <<page, wires, ui, client, queue, writer, conn, aborted, fb>>

\* A query is answered unless a later frame has overtaken it.
SvcAnswer ==
  /\ pipe.up /\ svc.job # 0
  /\ \/ svc.latest > svc.job /\ UNCHANGED pipe
     \/ /\ svc.latest <= svc.job /\ Len(pipe.in) < InRoom
        /\ pipe' = [pipe EXCEPT !.in = Append(@, Op("rows", svc.job))]
  /\ svc' = [svc EXCEPT !.job = 0]
  /\ UNCHANGED <<page, wires, ui, client, queue, writer, conn, aborted, fb>>

SvcGarbles ==
  /\ pipe.up /\ Len(pipe.in) < InRoom
  /\ pipe' = [pipe EXCEPT !.in = Append(@, Op("garbled", 0))]
  /\ UNCHANGED <<page, wires, ui, client, queue, writer, conn, aborted, svc, fb>>

\* What it wrote before it died can still be read.
SvcDies ==
  /\ pipe.up
  /\ pipe' = [pipe EXCEPT !.up = FALSE, !.out = <<>>]
  /\ svc' = [svc EXCEPT !.job = 0]
  /\ UNCHANGED <<page, wires, ui, client, queue, writer, conn, aborted, fb>>

-----------------------------------------------------------------------------
PageStep == TakeRows \/ TakeDown \/ \E g \in rejects : TakeReject(g)
UiStep == FilesSearch \/ Store \/ SendRefused \/ SendChecked \/ Stamp
ConnStep == Install \/ Announce \/ Relay \/ ReadEnds \/ CancelAll \/ ClearSlot \/ EmitDown
WriterStep == Take \/ Issue \/ Written \/ WriteBreaks \/ WriteFailed
FallbackStep == FallbackTake \/ FallbackDone
SvcStep == SvcRead \/ SvcAnswer

Next ==
  \/ \E kind \in Kinds : Type(kind)
  \/ PageStep
  \/ UiStep
  \/ Connect
  \/ ConnStep
  \/ WriterStep
  \/ FallbackStep
  \/ SvcStep
  \/ SvcGarbles
  \/ SvcDies

\* The shell's threads run, and a service that is alive reads and answers;
\* nothing says that one comes back, or that it dies.
Fairness ==
  /\ WF_vars(TakeRows \/ TakeDown) /\ WF_vars(\E g \in rejects : TakeReject(g))
  /\ WF_vars(UiStep) /\ WF_vars(ConnStep) /\ WF_vars(WriterStep)
  /\ WF_vars(FallbackStep) /\ WF_vars(SvcRead) /\ WF_vars(SvcAnswer)

Spec == Init /\ [][Next]_vars /\ Fairness

-----------------------------------------------------------------------------
\* Types; and the write half installed, if any, is the newest connection's.
ClientTypeOK ==
  /\ view \in [gen : Gen, kind : Kinds, pending : BOOLEAN, error : Gen]
  /\ typed \in 0..MaxTyped /\ answered \subseteq Gen
  /\ calls \in Seq([gen : Gen, kind : Kinds])
  /\ events \in Seq([op : {"rows", "down"}, gen : Gen]) /\ rejects \subseteq Gen
  /\ ui.pc \in {"idle", "store", "send", "stamp"}
  /\ current_gen \in Gen /\ connected \in BOOLEAN /\ epoch \in 0..MaxEpochs
  /\ slot \in {0, epoch}
  /\ queue \in Seq(Cmd) /\ writer.pc \in {"idle", "issuing", "pending", "failing"}
  /\ conn \in {"down", "bumped", "installed", "reading", "dropping", "clearing", "leaving"}
  /\ pipe.up \in BOOLEAN /\ pipe.out \in Seq(Cmd)
  /\ pipe.in \in Seq([op : {"rows", "garbled"}, gen : Gen])
  /\ svc \in [latest : 0..(MaxTyped + MaxEpochs + 1), job : Gen]
  /\ fb \in [slot : Gen, latest : Gen, running : Gen]

\* No command crosses a reconnect: what a service instance is sent was queued
\* under its own connection, however the connection thread, the writer and a
\* caller interleave.
NoReplay == \A i \in 1..Len(pipe.out) : pipe.out[i].epoch = epoch

\* No query is superseded before it is read: generations only go up on each
\* connection, through cancels, refused queries and re-asks.
QueriesAreNew ==
  \A i \in 1..Len(pipe.out) : pipe.out[i].op = "search" => pipe.out[i].gen >= svc.latest

\* The view has something to wait for.
Asked == view.gen # 0 /\ view.kind # "empty"

\* A view that has stopped waiting has had its newest query's own outcome, or
\* shows the error of an older one.
Misled == view.error \notin {0, view.gen}
SettledMeansAnswered == Asked /\ ~view.pending => view.gen \in answered \/ Misled

\* Each query has its own outcome: it is not overtaken before the service reads
\* it, and nothing else ends the wait for it.
OutcomesAreOwn == ClientTypeOK /\ QueriesAreNew /\ SettledMeansAnswered

\* pending is true from the query being sent until its final batch, the
\* fallback's rows or its own rejection (Files.tsx, pending).
PendingUntilAnswered == Asked /\ view.gen \notin answered => view.pending

\* Whatever the service does, the view is not left waiting: its query, or the
\* one it is replaced by, is answered or rejected in the end, unless the error
\* of an older one misled it.
Unanswered == Asked /\ view.gen \notin answered /\ ~Misled
AskedIsAnswered == Unanswered ~> ~Unanswered

\* Once a connection lasts, the shell ends up connected with a write half.
StaysUsable == <>[](pipe.up) => <>[](connected /\ slot = epoch)

\* The client gets on, whatever comes between: with its query and its connection.
ClientGetsOn == AskedIsAnswered /\ StaysUsable
=============================================================================
