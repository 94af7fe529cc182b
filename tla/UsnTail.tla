------------------------------- MODULE UsnTail -------------------------------
(***************************************************************************)
(* How the served index follows the volume: the enumeration that builds it *)
(* and the USN tail that keeps it (crates/yspot-index/src/mft.rs, usn.rs), *)
(* the tail thread's loop and its rebuild (crates/yspot-indexd/src/main.rs) *)
(* and the state the volume reports meanwhile (state.rs).                  *)
(*                                                                         *)
(* The volume changes while it is enumerated, between a journal read and   *)
(* the write lock that applies it, and while the service is down; the      *)
(* journal forgets its oldest records and may be deleted.  The volume and  *)
(* its journal are external.  The index is the map SlotTable implements    *)
(* (FileSet), so a batch here is one step, as it is under the write lock.  *)
(***************************************************************************)
EXTENDS Integers, Sequences

CONSTANTS MaxFrn,       \* references are 1..MaxFrn, in MFT order
          Parent, Name,
          BadName,      \* names the index cannot hold
          Given,        \* bound: names the volume gives its files in a run
          MaxChanges,   \* bound: changes of a volume replayed as a whole
          Absent,
          Volumes,      \* the volumes a run starts from
          MaxRecs,      \* bound: records one journal takes
          MaxJournals,  \* bound: journals the volume goes through
          MaxEpoch      \* bound: epochs told apart

ASSUME TailAssumption ==
    /\ MaxFrn \in Nat /\ MaxRecs \in Nat /\ MaxJournals \in Nat \ {0}
    /\ MaxEpoch \in Nat \ {0}
    /\ BadName \subseteq Name /\ Given \subseteq Name /\ MaxChanges \in Nat
    /\ Absent \notin [parent : Parent, name : Name]
    /\ Volumes \subseteq [1..MaxFrn -> [parent : Parent, name : Name] \union {Absent}]

VARIABLES volume,      \* the files there are
          born,        \* references ever given out; none is given twice
          journal,     \* [id, active, first, recs]; records 1..first are gone
          tail,        \* where the tail thread is
          cursor,      \* [id, next]: records up to next have been read
          batch,       \* events read and not yet applied
          fresh, pos,  \* the index being enumerated, and how far
          index,       \* the served index
          vol_state,   \* the lifecycle state, "down" before it is served
          rebuilding,  \* guards held: the overlay on vol_state
          compacting,  \* the housekeeper is inside its guard
          paused,
          index_epoch

volumeVars == <<volume, born, journal>>
enumVars == <<fresh, pos>>
statusVars == <<vol_state, rebuilding, compacting, paused, index_epoch>>
tailVars == <<volumeVars, tail, cursor, batch, enumVars, index, statusVars>>

Frn == 1..MaxFrn
File == [parent : Parent, name : Name]
Empty == [f \in Frn |-> Absent]

\* Mutant: an unusable name takes the place of the one before it.
ApplyUnchecked(ix, ev) ==
    CASE ev.kind = "create" -> [ix EXCEPT ![ev.frn] = ev.file]
      [] ev.kind = "delete" -> [ix EXCEPT ![ev.frn] = Absent]
      [] ev.kind = "rename" /\ ix[ev.frn] # Absent -> [ix EXCEPT ![ev.frn] = ev.file]
      [] OTHER -> ix

\* What the index makes of an event: apply, over the map SlotTable implements.
Apply(ix, ev) ==
    CASE ev.kind = "create" /\ ev.file.name \notin BadName -> [ix EXCEPT ![ev.frn] = ev.file]
      [] ev.kind = "delete" -> [ix EXCEPT ![ev.frn] = Absent]
      [] ev.kind = "rename" /\ ev.file.name \notin BadName /\ ix[ev.frn] # Absent
             -> [ix EXCEPT ![ev.frn] = ev.file]
      [] OTHER -> ix

\* A batch, event by event.
Replay(ix, evs) ==
    LET done[n \in 0..Len(evs)] == IF n = 0 THEN ix ELSE Apply(done[n - 1], evs[n])
    IN  done[Len(evs)]
Unread == SubSeq(journal.recs, cursor.next + 1, Len(journal.recs))

\* A cursor the journal can still serve.
Readable == journal.active /\ cursor.id = journal.id /\ cursor.next >= journal.first

-----------------------------------------------------------------------------
(* The volume and its journal, external. *)

Record(kind, f, file) ==
    IF journal.active
    THEN /\ Len(journal.recs) < MaxRecs
         /\ journal' = [journal EXCEPT !.recs =
                           Append(@, [kind |-> kind, frn |-> f, file |-> file])]
    ELSE UNCHANGED journal

CreateFile(f, file) ==
    /\ f \notin born
    /\ born' = born \union {f}
    /\ volume' = [volume EXCEPT ![f] = file]
    /\ Record("create", f, file)

\* A handle that also created the file makes of its rename another create.
RenameFile(f, file, kind) ==
    /\ volume[f] # Absent
    /\ volume' = [volume EXCEPT ![f] = file]
    /\ Record(kind, f, file)
    /\ UNCHANGED born

DeleteFile(f) ==
    /\ volume[f] # Absent
    /\ volume' = [volume EXCEPT ![f] = Absent]
    /\ Record("delete", f, Absent)
    /\ UNCHANGED born

\* The journal is bounded: its oldest records are overwritten.
Overwrite ==
    /\ journal.active /\ journal.first < Len(journal.recs)
    /\ journal' = [journal EXCEPT !.first = @ + 1]
    /\ UNCHANGED <<volume, born>>

DeleteJournal ==
    /\ journal.active /\ journal.id < MaxJournals
    /\ journal' = [journal EXCEPT !.active = FALSE, !.recs = <<>>, !.first = 0]
    /\ UNCHANGED <<volume, born>>

VolumeStep ==
    /\ \/ \E f \in Frn, file \in [parent : Parent, name : Given] :
              \/ CreateFile(f, file)
              \/ \E kind \in {"create", "rename"} : RenameFile(f, file, kind)
       \/ \E f \in Frn : DeleteFile(f)
       \/ Overwrite
       \/ DeleteJournal
    /\ UNCHANGED <<tail, cursor, batch, enumVars, index, statusVars>>

-----------------------------------------------------------------------------
(* Enumeration: at start, and again behind the serving index. *)

\* The cursor is taken before the first record is read; a missing journal is
\* created.
QueryJournal ==
    LET j == IF journal.active THEN journal
             ELSE [id |-> journal.id + 1, active |-> TRUE, first |-> 0, recs |-> <<>>]
    IN  /\ tail = "query"
        /\ journal' = j
        /\ cursor' = [id |-> j.id, next |-> Len(j.recs)]
        /\ fresh' = Empty /\ pos' = 1
        /\ tail' = "scan"
        /\ UNCHANGED <<volume, born, batch, index, statusVars>>

\* One MFT record, as the volume has it at this moment.
ScanRecord ==
    /\ tail = "scan" /\ pos <= MaxFrn
    /\ fresh' = IF volume[pos] # Absent /\ volume[pos].name \notin BadName
                THEN [fresh EXCEPT ![pos] = volume[pos]] ELSE fresh
    /\ pos' = pos + 1
    /\ UNCHANGED <<volumeVars, tail, cursor, batch, index, statusVars>>

\* A failed enumeration starts over; its half-built index is dropped.
ScanFails ==
    /\ tail = "scan"
    /\ tail' = "query"
    /\ fresh' = Empty /\ pos' = 1
    /\ UNCHANGED <<volumeVars, cursor, batch, index, statusVars>>

\* At start the finished index is the one the service begins to serve.
Serve ==
    /\ tail = "scan" /\ pos > MaxFrn /\ vol_state = "down"
    /\ index' = fresh /\ fresh' = Empty /\ pos' = 1
    /\ vol_state' = "tailing"
    /\ tail' = "loop"
    /\ UNCHANGED <<volumeVars, cursor, batch, rebuilding, compacting, paused,
                   index_epoch>>

\* Behind a serving index: swap under the write lock, then the epoch, then the
\* state, then the guard; anyone may look in between.
Swap ==
    /\ tail = "scan" /\ pos > MaxFrn /\ vol_state # "down"
    /\ index' = fresh /\ fresh' = Empty /\ pos' = 1
    /\ tail' = "swapped"
    /\ UNCHANGED <<volumeVars, cursor, batch, statusVars>>

BumpEpoch ==
    /\ tail = "swapped"
    /\ index_epoch' = IF index_epoch < MaxEpoch THEN index_epoch + 1 ELSE index_epoch
    /\ tail' = "bumped"
    /\ UNCHANGED <<volumeVars, cursor, batch, enumVars, index, vol_state, rebuilding,
                   compacting, paused>>

PublishTailing ==
    /\ tail = "bumped"
    /\ vol_state' = "tailing"
    /\ tail' = "published"
    /\ UNCHANGED <<volumeVars, cursor, batch, enumVars, index, rebuilding, compacting,
                   paused, index_epoch>>

\* Mutant: the guard is never given back.
EndRebuildHeld ==
    /\ tail = "published"
    /\ tail' = "loop"
    /\ UNCHANGED <<volumeVars, cursor, batch, enumVars, index, statusVars>>

EndRebuild ==
    /\ tail = "published"
    /\ rebuilding' = rebuilding - 1
    /\ tail' = "loop"
    /\ UNCHANGED <<volumeVars, cursor, batch, enumVars, index, vol_state, compacting,
                   paused, index_epoch>>

-----------------------------------------------------------------------------
(* The tail loop. *)

\* Pause is looked at here and only here; the read that follows blocks.
StartRead ==
    /\ tail = "loop" /\ ~paused
    /\ tail' = "reading"
    /\ UNCHANGED <<volumeVars, cursor, batch, enumVars, index, statusVars>>

\* Mutant: the cursor goes to the journal's end, however much was returned.
ReadEventsToEnd ==
    /\ tail = "reading" /\ Readable
    /\ \E n \in 1..Len(Unread) :
           /\ batch' = SubSeq(Unread, 1, n)
           /\ cursor' = [cursor EXCEPT !.next = Len(journal.recs)]
    /\ tail' = "apply"
    /\ UNCHANGED <<volumeVars, enumVars, index, statusVars>>

\* read_batch returns some of the records there are and moves the cursor.
ReadEvents ==
    /\ tail = "reading" /\ Readable
    /\ \E n \in 1..Len(Unread) :
           /\ batch' = SubSeq(Unread, 1, n)
           /\ cursor' = [cursor EXCEPT !.next = @ + n]
    /\ tail' = "apply"
    /\ UNCHANGED <<volumeVars, enumVars, index, statusVars>>

\* Any other failure: sleep, and read again from the same cursor.
ReadFails ==
    /\ tail = "reading"
    /\ tail' = "loop"
    /\ UNCHANGED <<volumeVars, cursor, batch, enumVars, index, statusVars>>

\* Mutant: a journal that is gone is taken for one more failed read.
NeedsRebuildRetried ==
    /\ tail = "reading" /\ ~Readable
    /\ tail' = "loop"
    /\ UNCHANGED <<volumeVars, cursor, batch, enumVars, index, statusVars>>

NeedsRebuild ==
    /\ tail = "reading" /\ ~Readable
    /\ tail' = "lost"
    /\ UNCHANGED <<volumeVars, cursor, batch, enumVars, index, statusVars>>

BeginRebuild ==
    /\ tail = "lost"
    /\ rebuilding' = rebuilding + 1
    /\ tail' = "query"
    /\ UNCHANGED <<volumeVars, cursor, batch, enumVars, index, vol_state, compacting,
                   paused, index_epoch>>

\* The whole batch goes in under one write lock, paused or not by now.
ApplyBatch ==
    /\ tail = "apply"
    /\ index' = Replay(index, batch)
    /\ batch' = <<>>
    /\ tail' = "loop"
    /\ UNCHANGED <<volumeVars, cursor, enumVars, statusVars>>

TailStep ==
    \/ QueryJournal \/ ScanRecord \/ Serve
    \/ Swap \/ BumpEpoch \/ PublishTailing \/ EndRebuild
    \/ StartRead \/ ReadEvents \/ NeedsRebuild \/ BeginRebuild \/ ApplyBatch

TailFails == ScanFails \/ ReadFails

-----------------------------------------------------------------------------
(* Housekeeping, sessions, and the process. *)

\* Compaction leaves the map as it is (SlotTable's Compact); what shows is the
\* guard it holds.  A tick looks at the pause first.
BeginCompact ==
    /\ vol_state # "down" /\ ~compacting /\ ~paused
    /\ compacting' = TRUE
    /\ rebuilding' = rebuilding + 1
    /\ UNCHANGED <<volumeVars, tail, cursor, batch, enumVars, index, vol_state, paused,
                   index_epoch>>

EndCompact ==
    /\ compacting
    /\ compacting' = FALSE
    /\ rebuilding' = rebuilding - 1
    /\ UNCHANGED <<volumeVars, tail, cursor, batch, enumVars, index, vol_state, paused,
                   index_epoch>>

SetPaused ==
    /\ vol_state # "down"
    /\ paused' = ~paused
    /\ UNCHANGED <<volumeVars, tail, cursor, batch, enumVars, index, vol_state, rebuilding,
                   compacting, index_epoch>>

\* Nothing is persisted: a restart enumerates anew.
Restart ==
    /\ vol_state # "down"
    /\ tail' = "query"
    /\ cursor' = [id |-> 0, next |-> 0] /\ batch' = <<>>
    /\ fresh' = Empty /\ pos' = 1 /\ index' = Empty
    /\ vol_state' = "down" /\ rebuilding' = 0 /\ compacting' = FALSE
    /\ paused' = FALSE /\ index_epoch' = 1
    /\ UNCHANGED volumeVars

TailInit ==
    /\ volume \in Volumes
    /\ born = {f \in Frn : volume[f] # Absent}
    /\ journal = [id |-> 1, active |-> TRUE, first |-> 0, recs |-> <<>>]
    /\ tail = "query"
    /\ cursor = [id |-> 0, next |-> 0] /\ batch = <<>>
    /\ fresh = Empty /\ pos = 1 /\ index = Empty
    /\ vol_state = "down" /\ rebuilding = 0 /\ compacting = FALSE
    /\ paused = FALSE /\ index_epoch = 1

ServiceStep == TailFails \/ BeginCompact \/ EndCompact \/ SetPaused \/ Restart

TailNext == VolumeStep \/ TailStep \/ ServiceStep

TailSpec == TailInit /\ [][TailNext]_tailVars
FairTailSpec == TailSpec /\ WF_tailVars(TailStep) /\ WF_tailVars(EndCompact)

-----------------------------------------------------------------------------
(* Properties. *)

Indexed == [f \in Frn |->
    IF volume[f] # Absent /\ volume[f].name \notin BadName THEN volume[f] ELSE Absent]

\* What IndexStatus reports (volume_state).
Reported ==
    IF paused THEN "paused" ELSE IF rebuilding > 0 THEN "rebuilding" ELSE vol_state

InRebuild == vol_state # "down" /\ tail \in {"query", "scan", "swapped", "bumped", "published"}
Scanning == tail \in {"query", "scan"}

TailTypeOK ==
    /\ volume \in [Frn -> File \union {Absent}]
    /\ index \in [Frn -> File \union {Absent}]
    /\ fresh \in [Frn -> File \union {Absent}]
    /\ cursor.next \in 0..MaxRecs /\ journal.first \in 0..Len(journal.recs)
    /\ pos \in 1..(MaxFrn + 1)
    /\ rebuilding \in 0..2
    /\ index_epoch \in Nat \ {0}

\* Nothing that happens to the volume is lost: while the journal still serves
\* the cursor, the events in hand and those still to be read turn the index
\* into the volume as it is now.  It holds from the moment an enumeration is
\* swapped in, though the volume changed under it record by record, and across
\* every batch boundary, failed read, pause and rebuild.
NothingLost ==
    vol_state # "down" /\ ~Scanning /\ Readable => Replay(index, batch \o Unread) = Indexed

\* The volume reports Rebuilding exactly while someone rebuilds or compacts,
\* however the two overlap, and no finished operation leaves it so.
StatusHonest ==
    /\ TailTypeOK
    /\ vol_state # "down" =>
        (Reported = "rebuilding" <=> ~paused /\ (InRebuild \/ compacting))

\* Once the volume is quiet and nothing more fails, the service ends up serving
\* the volume as it is and says it is tailing, unless it was left paused.
CatchesUp ==
    <>[][TailStep \/ EndCompact]_tailVars =>
        <>[](paused \/ (index = Indexed /\ Reported = "tailing"))

\* One change of the volume, as the journal reports it: all there can be.
Changes(v, used) ==
    {[kind |-> "create", frn |-> f, file |-> file] : f \in Frn \ used, file \in File}
    \union {[kind |-> k, frn |-> f, file |-> file] :
               k \in {"create", "rename"}, f \in {g \in Frn : v[g] # Absent}, file \in File}
    \union {[kind |-> "delete", frn |-> f, file |-> Absent] : f \in {g \in Frn : v[g] # Absent}}
Changed(v, ev) == [v EXCEPT ![ev.frn] = ev.file]

\* Histories[n]: n changes of a volume from its first file on.
Histories[n \in 0..MaxChanges] ==
    IF n = 0 THEN {[volume |-> Empty, used |-> {}, evs |-> <<>>]}
    ELSE Histories[n - 1] \union
         UNION {{[volume |-> Changed(h.volume, ev), used |-> h.used \union {ev.frn},
                  evs |-> Append(h.evs, ev)] : ev \in Changes(h.volume, h.used)} :
                h \in Histories[n - 1]}

\* A name the index cannot hold costs the reference that bears it and no other; the
\* index then has that file under an older name or not at all, and a delete always
\* takes it out.
BadNamesStayLocal ==
    \A h \in Histories[MaxChanges] :
        LET ix == Replay(Empty, h.evs)
            Bore(f) == {h.evs[i].file : i \in {j \in DOMAIN h.evs : h.evs[j].frn = f}}
        IN  \A f \in Frn :
                /\ h.volume[f] = Absent => ix[f] = Absent
                /\ (\A file \in Bore(f) \ {Absent} : file.name \notin BadName) => ix[f] = h.volume[f]
                /\ ix[f] # Absent => ix[f] \in Bore(f) /\ ix[f].name \notin BadName

\* The same of a run, looked at in its initial states.
BadNamesAreLocal == TailInit => BadNamesStayLocal
==============================================================================
