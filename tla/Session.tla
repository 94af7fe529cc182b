------------------------------ MODULE Session ------------------------------
(***************************************************************************)
(* One connection of the index service (crates/yspot-indexd/src/session.rs)*)
(* and the shell's end of it (pipe_client.rs, and the generation counter   *)
(* of lib/ipc.ts).                                                         *)
(*                                                                         *)
(* The service runs two threads per connection.  The reader takes frames   *)
(* off the pipe, raises the generation watermark and answers everything    *)
(* but searches; the worker takes the one query its mailbox can hold and   *)
(* searches.  They share the watermark (an atomic), the mailbox (a mutex   *)
(* and a condition variable) and the write half of the pipe (a mutex held  *)
(* for the whole of a blocking write).  When the worker's thread could not *)
(* be spawned the reader searches inline.                                  *)
(*                                                                         *)
(* Frames out of the service are kept in the history "sent"; "got" of them *)
(* have been read by the shell and at most PipeRoom more fit in the pipe.  *)
(***************************************************************************)
EXTENDS Naturals, Sequences, FiniteSets

CONSTANTS
    MaxSends,    \* frames the shell sends
    MaxReloads,  \* page reloads of the shell's frontend
    PipeRoom,    \* unread frames the service's side of the pipe buffers
    GenTop       \* u64::MAX

ASSUME SessionAssumption ==
    /\ MaxSends \in Nat /\ MaxReloads \in Nat
    /\ PipeRoom \in Nat \ {0}
    /\ GenTop \in Nat /\ GenTop > MaxSends + 1

VARIABLES
    peer,        \* the shell's handle: "open" or "gone"
    inbox,       \* frames written by the shell the reader has not read
    sends,       \* frames the shell has sent
    reloads,     \* reloads of its page so far
    generation,  \* lib/ipc.ts: the last generation handed out
    currentGen,  \* PipeClient.current_gen
    page,        \* the query the page last issued, by its frame number, or None
    awaited,     \* the page still wants its rows
    shown,       \* the query whose rows the page shows, or None
    sent, got,   \* frames the service has written, and how many were read
    latest,      \* latest_gen, the watermark
    pending,     \* Slot.pending
    closed,      \* Slot.closed
    writer,      \* who holds the writer mutex
    pc,          \* thread -> where it is
    job,         \* thread -> the query or reply it carries
    inline,      \* the worker's thread could not be spawned
    active       \* ActivityVote.active

pipeVars == <<inbox, sent, got>>
shellVars == <<peer, sends, reloads, generation, currentGen, page, awaited, shown>>
mailVars == <<latest, pending, closed>>
threadVars == <<writer, pc, job, inline, active>>
vars == <<pipeVars, shellVars, mailVars, threadVars>>

Threads == {"reader", "worker"}
None == 0

\* What a thread carries or a frame holds: a query to run, the rows it found
\* ("full"), the reader's own empty answer, or the reply to a request.
Job(kind, q, g) == [kind |-> kind, q |-> q, gen |-> g]
Nothing == Job("none", None, 0)
Reply == Job("reply", None, 0)
Frame(kind, q, g) == Job(kind, q, g)

----------------------------------------------------------------------------
(* The shell *)

\* Commands reach the pipe in the order they are made: one queue, one writer;
\* none does before the handshake's reply has been read.
Send(f) ==
    /\ peer = "open" /\ got > 0 /\ sends < MaxSends
    /\ inbox' = Append(inbox, f)
    /\ sends' = sends + 1
    /\ UNCHANGED <<peer, reloads, sent, got, mailVars, threadVars>>

\* A keystroke.  kind is "search", or "empty" for the queries the reader
\* answers itself: empty, oversized, or with oversized filters.
Type(kind) ==
    /\ Send(Frame(kind, sends + 1, generation + 1))
    /\ generation' = generation + 1
    /\ currentGen' = generation + 1
    /\ page' = sends + 1
    /\ awaited' = TRUE
    /\ shown' = None

\* cancel_current: when the window hides, and when the File Search box is
\* emptied, which takes a generation it never puts on the pipe.
Cancel ==
    /\ Send(Frame("cancel", None, currentGen))
    /\ awaited' = FALSE
    /\ \/ UNCHANGED <<generation, page, shown>>
       \/ generation' = generation + 1 /\ page' = None /\ shown' = None
    /\ UNCHANGED currentGen

\* Requests that get one reply, the activity report that gets none, and bytes
\* that do not decode.
Ask(t) ==
    /\ Send(Frame(t, None, 0))
    /\ UNCHANGED <<generation, currentGen, page, awaited, shown>>

\* Mutant: the page takes whatever the relay lets through.
ReceiveAny ==
    /\ peer = "open" /\ got < Len(sent)
    /\ got' = got + 1
    /\ LET f == sent[got + 1]
           mine == f.q # None /\ f.gen >= currentGen
       IN  shown' = IF mine THEN f.q ELSE shown
    /\ UNCHANGED <<inbox, sent, peer, sends, reloads, generation, currentGen, page,
                   awaited, mailVars, threadVars>>

\* A frame arrives: handle_msg drops what is older than current_gen, and the
\* page drops what is not the generation it issued last.
Receive ==
    /\ peer = "open" /\ got < Len(sent)
    /\ got' = got + 1
    /\ LET f == sent[got + 1]
           mine == f.q # None /\ f.gen >= currentGen /\ f.gen = generation
       IN  shown' = IF mine THEN f.q ELSE shown
    /\ UNCHANGED <<inbox, sent, peer, sends, reloads, generation, currentGen, page,
                   awaited, mailVars, threadVars>>

\* The renderer is recycled: the page's counter starts over, the shell's
\* process, its connection and its watermark do not.
Reload ==
    /\ peer = "open" /\ reloads < MaxReloads
    /\ reloads' = reloads + 1
    /\ generation' = 0
    /\ page' = None
    /\ awaited' = FALSE
    /\ shown' = None
    /\ UNCHANGED <<pipeVars, peer, sends, currentGen, mailVars, threadVars>>

HangUp ==
    /\ peer = "open"
    /\ peer' = "gone"
    /\ UNCHANGED <<pipeVars, sends, reloads, generation, currentGen, page, awaited, shown,
                   mailVars, threadVars>>

ShellStep ==
    \/ \E kind \in {"search", "empty"} : Type(kind)
    \/ Cancel
    \/ \E t \in {"request", "active", "idle", "garbage"} : Ask(t)
    \/ Receive
    \/ Reload
    \/ HangUp

----------------------------------------------------------------------------
(* What the threads share *)

\* is_cancelled: a search is dead once the watermark exceeds its generation.
Superseded(g) == latest > g

\* fetch_max: queries and cancels only ever raise the watermark.
Raise(g) == latest' = IF g > latest THEN g ELSE latest

Saturating(g) == IF g < GenTop THEN g + 1 ELSE GenTop

Goto(th, place) == pc' = [pc EXCEPT ![th] = place]
Carry(th, x) == job' = [job EXCEPT ![th] = x]

\* send: take the writer mutex ...
Acquire(th) ==
    /\ pc[th] = "send" /\ writer = "free"
    /\ writer' = th
    /\ Goto(th, "writing")
    /\ UNCHANGED <<job, inline, active, pipeVars, shellVars, mailVars>>

\* ... write, blocking while the pipe is full, and fail once the peer is gone.
\* The reader ends the session on a failed reply; run_search does not care.
AfterSend(th, ok) ==
    IF th = "worker" THEN "take"
    ELSE IF ok \/ job[th].kind = "full" THEN "read" ELSE "stop"

\* History: a frame remembers the watermark it was written under.
Marked(j) == [kind |-> j.kind, q |-> j.q, gen |-> j.gen, mark |-> latest]

Write(th) ==
    /\ pc[th] = "writing"
    /\ writer' = "free"
    /\ \/ /\ peer = "open" /\ Len(sent) - got < PipeRoom
          /\ sent' = Append(sent, Marked(job[th]))
          /\ Goto(th, AfterSend(th, TRUE))
       \/ /\ peer = "gone"
          /\ UNCHANGED sent
          /\ Goto(th, AfterSend(th, FALSE))
    /\ Carry(th, Nothing)
    /\ UNCHANGED <<inbox, got, inline, active, shellVars, mailVars>>

----------------------------------------------------------------------------
(* The reader: handshake, then one frame at a time *)

\* The shell offers the version the service speaks; the worker is spawned.
Handshake ==
    /\ pc["reader"] = "hello" /\ inbox # <<>> /\ Head(inbox).kind = "hello"
    /\ inbox' = Tail(inbox)
    /\ Carry("reader", Reply)
    /\ pc' = [reader |-> "send", worker |-> IF inline THEN "done" ELSE "take"]
    /\ UNCHANGED <<sent, got, writer, inline, active, shellVars, mailVars>>

ReadSearch(f) ==
    /\ Raise(f.gen)
    /\ Carry("reader", Job("query", f.q, f.gen))
    /\ Goto("reader", "submit")
    /\ UNCHANGED active

ReadEmpty(f) ==
    /\ Raise(f.gen)
    /\ Carry("reader", Job("empty", f.q, f.gen))
    /\ Goto("reader", "send")
    /\ UNCHANGED active

ReadCancel(f) ==
    /\ Raise(Saturating(f.gen))
    /\ UNCHANGED <<pc, job, active>>

ReadRequest ==
    /\ Carry("reader", Reply)
    /\ Goto("reader", "send")
    /\ UNCHANGED <<latest, active>>

ReadActivity(f) ==
    /\ active' = (f.kind = "active")
    /\ UNCHANGED <<latest, pc, job>>

ReadGarbage ==
    /\ Goto("reader", "stop")
    /\ UNCHANGED <<latest, job, active>>

ReadFrame ==
    /\ pc["reader"] = "read" /\ inbox # <<>>
    /\ inbox' = Tail(inbox)
    /\ LET f == Head(inbox)
       IN  \/ f.kind = "search" /\ ReadSearch(f)
           \/ f.kind = "empty" /\ ReadEmpty(f)
           \/ f.kind = "cancel" /\ ReadCancel(f)
           \/ f.kind = "request" /\ ReadRequest
           \/ f.kind \in {"active", "idle"} /\ ReadActivity(f)
           \/ f.kind = "garbage" /\ ReadGarbage
    /\ UNCHANGED <<sent, got, pending, closed, writer, inline, shellVars>>

ReadEnd ==
    /\ pc["reader"] \in {"hello", "read"} /\ inbox = <<>> /\ peer = "gone"
    /\ Goto("reader", IF pc["reader"] = "hello" THEN "gone" ELSE "stop")
    /\ UNCHANGED <<writer, job, inline, active, pipeVars, shellVars, mailVars>>

\* Mutant: a query that finds the mailbox taken is dropped.
SubmitUnlessFull ==
    /\ pc["reader"] = "submit"
    /\ IF inline THEN Goto("reader", "match") /\ UNCHANGED <<pending, job>>
       ELSE /\ pending' = IF pending = Nothing THEN job["reader"] ELSE pending
            /\ Carry("reader", Nothing)
            /\ Goto("reader", "read")
    /\ UNCHANGED <<latest, closed, writer, inline, active, pipeVars, shellVars>>

\* SearchWorker::submit: replace whatever the worker has not started.
Submit ==
    /\ pc["reader"] = "submit"
    /\ IF inline THEN Goto("reader", "match") /\ UNCHANGED <<pending, job>>
       ELSE /\ pending' = job["reader"]
            /\ Carry("reader", Nothing)
            /\ Goto("reader", "read")
    /\ UNCHANGED <<latest, closed, writer, inline, active, pipeVars, shellVars>>

\* SearchWorker::drop: cancel what runs, close the mailbox, join.
StopSearch ==
    /\ pc["reader"] = "stop"
    /\ latest' = GenTop
    /\ Goto("reader", "close")
    /\ UNCHANGED <<pending, closed, writer, job, inline, active, pipeVars, shellVars>>

CloseMailbox ==
    /\ pc["reader"] = "close"
    /\ closed' = TRUE
    /\ pending' = Nothing
    /\ Goto("reader", "join")
    /\ UNCHANGED <<latest, writer, job, inline, active, pipeVars, shellVars>>

\* ... and only then ActivityVote::drop withdraws the vote.
Join ==
    /\ pc["reader"] = "join" /\ pc["worker"] = "done"
    /\ active' = FALSE
    /\ Goto("reader", "gone")
    /\ UNCHANGED <<writer, job, inline, pipeVars, shellVars, mailVars>>

----------------------------------------------------------------------------
(* The worker, and run_search on whichever thread runs it *)

\* Mutant: the query is copied out of the mailbox.
TakeCopy ==
    /\ pc["worker"] = "take"
    /\ \/ /\ closed
          /\ Goto("worker", "done")
          /\ UNCHANGED job
       \/ /\ ~closed /\ pending # Nothing
          /\ Carry("worker", pending)
          /\ Goto("worker", "check")
    /\ UNCHANGED <<mailVars, writer, inline, active, pipeVars, shellVars>>

Take ==
    /\ pc["worker"] = "take"
    /\ \/ /\ closed
          /\ Goto("worker", "done")
          /\ UNCHANGED <<pending, job>>
       \/ /\ ~closed /\ pending # Nothing
          /\ Carry("worker", pending)
          /\ pending' = Nothing
          /\ Goto("worker", "check")
    /\ UNCHANGED <<latest, closed, writer, inline, active, pipeVars, shellVars>>

SkipSuperseded ==
    /\ pc["worker"] = "check"
    /\ Goto("worker", IF Superseded(job["worker"].gen) THEN "take" ELSE "match")
    /\ UNCHANGED <<writer, job, inline, active, pipeVars, shellVars, mailVars>>

\* The scan itself, under the index's read lock.
Match(th) ==
    /\ pc[th] = "match"
    /\ Goto(th, "verify")
    /\ UNCHANGED <<writer, job, inline, active, pipeVars, shellVars, mailVars>>

\* The last staleness check.  The write that follows is not under it.
Verify(th) ==
    /\ pc[th] = "verify"
    /\ IF Superseded(job[th].gen)
       THEN /\ Goto(th, IF th = "worker" THEN "take" ELSE "read")
            /\ Carry(th, Nothing)
       ELSE /\ Goto(th, "send")
            /\ Carry(th, [job[th] EXCEPT !.kind = "full"])
    /\ UNCHANGED <<writer, inline, active, pipeVars, shellVars, mailVars>>

----------------------------------------------------------------------------
Init ==
    /\ peer = "open" /\ inbox = <<Frame("hello", None, 0)>>
    /\ sends = 0 /\ reloads = 0 /\ generation = 0 /\ currentGen = 0
    /\ page = None /\ awaited = FALSE /\ shown = None
    /\ sent = <<>> /\ got = 0
    /\ latest = 0 /\ pending = Nothing /\ closed = FALSE
    /\ writer = "free"
    /\ pc = [reader |-> "hello", worker |-> "done"]
    /\ job = [th \in Threads |-> Nothing]
    /\ inline \in BOOLEAN
    /\ active = FALSE

ReaderStep ==
    \/ Handshake \/ ReadFrame \/ ReadEnd \/ Submit
    \/ StopSearch \/ CloseMailbox \/ Join
    \/ Match("reader") \/ Verify("reader")
    \/ Acquire("reader") \/ Write("reader")

WorkerStep ==
    \/ Take \/ SkipSuperseded
    \/ Match("worker") \/ Verify("worker")
    \/ Acquire("worker") \/ Write("worker")

Next == ShellStep \/ ReaderStep \/ WorkerStep

Spec == Init /\ [][Next]_vars

\* The service's threads keep running; the shell's connection thread sits in
\* its read for as long as the pipe is open, so it drains what they write.
FairSpec == Spec /\ WF_vars(ReaderStep) /\ WF_vars(WorkerStep) /\ WF_vars(Receive)

----------------------------------------------------------------------------
(* Properties *)

Jobs == [kind : {"none", "query", "full", "empty", "reply"},
         q : 0..MaxSends, gen : 0..GenTop]

SessionTypeOK ==
    /\ peer \in {"open", "gone"} /\ writer \in Threads \cup {"free"}
    /\ sends \in 0..MaxSends /\ reloads \in 0..MaxReloads
    /\ generation \in 0..GenTop /\ currentGen \in 0..GenTop
    /\ page \in 0..MaxSends /\ shown \in 0..MaxSends /\ awaited \in BOOLEAN
    /\ \A i \in 1..Len(inbox) : inbox[i].gen \in 0..GenTop
    /\ got \in 0..Len(sent) /\ Len(sent) - got <= PipeRoom
    /\ latest \in 0..GenTop /\ pending \in Jobs /\ job \in [Threads -> Jobs]
    /\ {closed, inline, active} \subseteq BOOLEAN
    /\ pc["reader"] \in {"hello", "read", "submit", "match", "verify", "send", "writing",
                         "stop", "close", "join", "gone"}
    /\ pc["worker"] \in {"take", "check", "match", "verify", "send", "writing", "done"}

Answered(q) == \E i \in 1..Len(sent) : sent[i].q = q

\* Everything the shell sent has been dealt with and the threads are waiting.
Quiet ==
    /\ peer = "open" /\ pc["reader"] = "read" /\ inbox = <<>>
    /\ pc["worker"] \in {"take", "done"} /\ pending = Nothing

(* Once the service has nothing left to do, the query the page is waiting on *)
(* has been answered, also after the page was reloaded under the connection: *)
(* lib/ipc.ts:357, the watermarks on both sides "assume generations only go  *)
(* up".                                                                      *)
ReloadedAnswered == reloads > 0 /\ Quiet /\ awaited => Answered(page)

(* No query is answered twice: not by the mailbox and inline, not by an      *)
(* empty batch followed by a searched one.                                   *)
AnsweredOnce ==
    \A i, j \in 1..Len(sent) :
        sent[i].q = sent[j].q /\ sent[i].q # None => i = j

(* SPEC 4.4: stale work stops promptly.  The last check and the write are    *)
(* not atomic, so a batch can still follow the frame that superseded it, but *)
(* whatever the interleaving at most one does: once the watermark has        *)
(* reached w, one batch of a generation below w at most is written.          *)
OneLateBatch ==
    \A w \in 1..GenTop :
        Cardinality({i \in 1..Len(sent) :
            sent[i].kind = "full" /\ sent[i].gen < w /\ w <= sent[i].mark}) <= 1

(* Every query gets at most one batch that counts and every superseded one   *)
(* stops: what the mailbox, the inline fallback and the watermark are for.   *)
AnswersExact == SessionTypeOK /\ AnsweredOnce /\ OneLateBatch

(* The rows on the page are those of the query it issued last, whatever is   *)
(* still in the pipe for older ones (lib/ipc.ts: "each keeps only the        *)
(* results for the generation IT issued last").  A reloaded page reissues    *)
(* generations, so it is left out here too.                                  *)
ShownIsCurrent == reloads = 0 /\ shown # None => shown = page

(* The service finishes: the page's query is eventually answered, unless it  *)
(* is superseded or cancelled or the connection ends.                        *)
NewestIsAnswered ==
    \A n \in 1..MaxSends :
        (page = n /\ awaited /\ reloads = 0) ~>
            (Answered(n) \/ page # n \/ ~awaited \/ reloads > 0
             \/ pc["reader"] \in {"stop", "close", "join", "gone"})

(* client_disconnect_ends_the_session_and_joins_its_worker, from every state *)
(* including a worker blocked in a write; and the vote goes with the         *)
(* session, so a shell that died active does not hold maintenance off.       *)
DisconnectEndsSession ==
    (peer = "gone") ~> (pc["reader"] = "gone" /\ pc["worker"] = "done" /\ ~active)

(* A session gets on: it answers while its peer is there and ends when not.  *)
SessionProgress == NewestIsAnswered /\ DisconnectEndsSession

=============================================================================
