---------------------------- MODULE LogRotation ----------------------------
(***************************************************************************)
(* The rotating log both processes write (yspot-log), over a directory     *)
(* other programs hold files of, in which creating or renaming may be      *)
(* refused for a while, and a process that may be killed between any two   *)
(* file operations and started again.                                      *)
(*                                                                         *)
(* A line is one byte.  Files are identities; a place is a name they are   *)
(* under: the live log, the parked one, and the numbered generations.      *)
(***************************************************************************)
EXTENDS Integers

CONSTANTS MAX_FILES,            \* files kept, the live one included
          MAX_BYTES,            \* the size at which to rotate
          ROTATE_RETRY_BYTES,   \* how much later to try again
          Top                   \* bound: sizes are not told apart past it

ASSUME LogRotationAssumption ==
  /\ {MAX_FILES, MAX_BYTES, ROTATE_RETRY_BYTES} \subseteq Nat \ {0} /\ MAX_FILES > 1
  /\ Top \in Nat /\ Top > MAX_BYTES

VARIABLES file,       \* place -> the file there, 0 for none
          newer,      \* history: of the files that exist, which was created after which
          handle,     \* the file last written to; held open while running
          written, rotate_at,  \* Rotating's counters
          pc, at,     \* the operation to come, and shift_history's index
          call,       \* who called it: "open", "rotate", or rotate's own "filing"
          before,     \* history: the files there when the rotation began
          held,       \* files another program keeps from being renamed
          obstacle    \* "full": nothing can be created; "denied": nor renamed
logVars == <<file, newer, handle, written, rotate_at, pc, at, call, before, held, obstacle>>

\* From newest to oldest.
Live == -1
Pending == 0
Last == MAX_FILES - 1
Place == Live..Last
File == 1..(MAX_FILES + 2)
FilesOf(f) == {f[p] : p \in Place} \ {0}
Files == FilesOf(file)

Disk == <<file, newer>>
Counters == <<handle, written, rotate_at>>
World == <<held, obstacle>>

Capped(n) == IF n > Top THEN Top ELSE n

LogInit ==
  /\ file = [p \in Place |-> 0] /\ newer = {}
  /\ handle = 0 /\ written = 0 /\ rotate_at = MAX_BYTES
  /\ pc = "down" /\ at = 0 /\ call = "open" /\ before = {}
  /\ held = {} /\ obstacle = "none"

-----------------------------------------------------------------------------
\* File operations

\* rename replaces what is at q, unless either file is held.
CanMove(p, q) ==
  /\ file[p] # 0 /\ {file[p], file[q]} \cap held = {}
  /\ obstacle # "denied"

Moved(p, q) == [file EXCEPT ![q] = file[p], ![p] = 0]

CanRemove(p) == file[p] # 0 /\ file[p] \notin held /\ obstacle # "denied"

\* The directory becomes f, and with it what exists.
Becomes(f) ==
  /\ file' = f
  /\ newer' = newer \cap (FilesOf(f) \X FilesOf(f))

\* A new file in the live place.
CreateLive ==
  LET new == CHOOSE f \in File : f \notin Files IN
  /\ file' = [file EXCEPT ![Live] = new]
  /\ newer' = newer \cup ({new} \X Files)

-----------------------------------------------------------------------------
\* Rotating::open, at the start of a process

CanOpen == obstacle = "none" \/ (obstacle = "full" /\ file[Live] # 0)

Start ==
  /\ pc = "down" /\ CanOpen
  /\ IF file[Live] = 0 THEN CreateLive ELSE UNCHANGED Disk
  /\ handle' = file'[Live]
  /\ written' = IF file'[Live] = handle THEN written ELSE 0
  /\ rotate_at' = MAX_BYTES
  /\ pc' = "recover" /\ call' = "open"
  /\ UNCHANGED <<at, before, World>>

\* The file cannot be opened: this process logs to stderr alone.
StartFails ==
  /\ pc = "down" /\ ~CanOpen
  /\ pc' = "stderr"
  /\ UNCHANGED <<Disk, Counters, at, call, before, World>>

\* The process ends or is killed, in the middle of a rotation or not.
Stop ==
  /\ pc # "down"
  /\ pc' = "down" /\ at' = 0 /\ before' = {}
  /\ UNCHANGED <<Disk, Counters, call, World>>

-----------------------------------------------------------------------------
\* write_line

Log ==
  /\ pc = "idle"
  /\ IF written >= rotate_at
     THEN pc' = "recover" /\ call' = "rotate" /\ before' = Files
     ELSE pc' = "write" /\ UNCHANGED <<call, before>>
  /\ UNCHANGED <<Disk, Counters, at, World>>

Write ==
  /\ pc = "write"
  /\ written' = IF obstacle = "full" THEN written ELSE Capped(written + 1)
  /\ pc' = "idle" /\ before' = {}
  /\ UNCHANGED <<Disk, handle, rotate_at, at, call, World>>

\* Mutant: a rotation that failed is not tried again.
RefusedForGood ==
  /\ pc = "refused"
  /\ rotate_at' = Top + 1
  /\ written' = IF obstacle = "full" THEN written ELSE Capped(written + 1)
  /\ pc' = "write"
  /\ UNCHANGED <<Disk, handle, at, call, before, World>>

\* The rotation failed: tried again later, and a note in the file says so.
Refused ==
  /\ pc = "refused"
  /\ rotate_at' = Capped(written + ROTATE_RETRY_BYTES)
  /\ written' = IF obstacle = "full" THEN written ELSE Capped(written + 1)
  /\ pc' = "write"
  /\ UNCHANGED <<Disk, handle, at, call, before, World>>

-----------------------------------------------------------------------------
\* recover_pending and shift_history

Recover ==
  /\ pc = "recover"
  /\ IF file[Pending] # 0 THEN pc' = "shift" /\ at' = Last
     ELSE /\ pc' = IF call = "open" THEN "idle" ELSE "aside"
          /\ UNCHANGED at
  /\ UNCHANGED <<Disk, Counters, call, before, World>>

\* Drops the oldest, then moves each down a slot, whatever fails on the way.
Shift ==
  /\ pc = "shift"
  /\ Becomes(CASE at = Last /\ CanRemove(at)          -> [file EXCEPT ![at] = 0]
               [] at < Last /\ CanMove(at, at + 1) -> Moved(at, at + 1)
               [] OTHER                               -> file)
  /\ at' = at - 1
  /\ pc' = IF at = 1 THEN "claim" ELSE "shift"
  /\ UNCHANGED <<Counters, call, before, World>>

\* Mutant: a rotation goes on although the parked generation could not be filed.
ClaimUnchecked ==
  /\ pc = "claim" /\ call # "filing"
  /\ Becomes(IF CanMove(Pending, 1) THEN Moved(Pending, 1) ELSE file)
  /\ pc' = IF call = "open" THEN "idle" ELSE "aside"
  /\ UNCHANGED <<Counters, at, call, before, World>>

\* The parked generation becomes number 1; if it cannot, a rotation is refused.
ClaimPending ==
  /\ pc = "claim" /\ call # "filing"
  /\ Becomes(IF CanMove(Pending, 1) THEN Moved(Pending, 1) ELSE file)
  /\ pc' = CASE call = "open"        -> "idle"
             [] CanMove(Pending, 1) -> "aside"
             [] OTHER                -> "refused"
  /\ UNCHANGED <<Counters, at, call, before, World>>

-----------------------------------------------------------------------------
\* rotate

\* Fallible step 1: the live log is parked.
Aside ==
  /\ pc = "aside"
  /\ IF CanMove(Live, Pending)
     THEN Becomes(Moved(Live, Pending)) /\ pc' = "create"
     ELSE UNCHANGED Disk /\ pc' = "refused"
  /\ UNCHANGED <<Counters, at, call, before, World>>

\* Fallible step 2: its replacement is created.
Create ==
  /\ pc = "create"
  /\ IF obstacle = "none"
     THEN CreateLive /\ pc' = "shift" /\ at' = Last /\ call' = "filing"
     ELSE UNCHANGED <<Disk, at, call>> /\ pc' = "putback"
  /\ UNCHANGED <<Counters, before, World>>

\* The parked log is put back, if it can be.
PutBack ==
  /\ pc = "putback"
  /\ Becomes(IF CanMove(Pending, Live) THEN Moved(Pending, Live) ELSE file)
  /\ pc' = "refused"
  /\ UNCHANGED <<Counters, at, call, before, World>>

\* The history is shifted; the parked log is filed, or stays parked.
Finish ==
  /\ pc = "claim" /\ call = "filing"
  /\ Becomes(IF CanMove(Pending, 1) THEN Moved(Pending, 1) ELSE file)
  /\ handle' = file[Live] /\ written' = 0 /\ rotate_at' = MAX_BYTES
  /\ pc' = "write"
  /\ UNCHANGED <<at, call, before, World>>

-----------------------------------------------------------------------------
\* The rest of the machine

Hold(f) ==
  /\ held = {} /\ f \in Files
  /\ held' = {f}
  /\ UNCHANGED <<Disk, Counters, pc, at, call, before, obstacle>>

LetGo ==
  /\ held # {}
  /\ held' = {}
  /\ UNCHANGED <<Disk, Counters, pc, at, call, before, obstacle>>

Obstruct(o) ==
  /\ obstacle' = o
  /\ UNCHANGED <<Disk, Counters, pc, at, call, before, held>>

Step == \/ Recover \/ Shift \/ ClaimPending \/ Aside \/ Create \/ PutBack \/ Finish
        \/ Refused \/ Write

LogNext ==
  \/ Start \/ StartFails \/ Stop
  \/ Log
  \/ Step
  \/ \E f \in File : Hold(f)
  \/ LetGo
  \/ \E o \in {"none", "full", "denied"} : Obstruct(o)

\* A rotation that has begun goes on, and the process has things to log.
LogSpec == LogInit /\ [][LogNext]_logVars /\ WF_logVars(Step) /\ WF_logVars(Log)

-----------------------------------------------------------------------------
\* Types; no file is under two names, and any two that exist have an age.
LogTypeOK ==
  /\ file \in [Place -> {0} \union File]
  /\ \A p, q \in Place : file[p] = file[q] /\ file[p] # 0 => p = q
  /\ newer \subseteq Files \X Files
  /\ \A f, g \in Files : f = g <=> <<f, g>> \notin newer /\ <<g, f>> \notin newer
  /\ \A f, g \in Files : <<f, g>> \in newer => <<g, f>> \notin newer
  /\ handle \in {0} \union File
  /\ written \in 0..Top /\ rotate_at \in 0..Top
  /\ pc \in {"down", "stderr", "idle", "write", "refused", "recover", "shift", "claim",
             "aside", "create", "putback"}
  /\ at \in 0..Last /\ call \in {"open", "rotate", "filing"}
  /\ before \subseteq File /\ held \subseteq File
  /\ obstacle \in {"none", "full", "denied"}

\* The lower a file's number the newer it is, the parked one is newer than any
\* numbered and the live one than all: whatever failed and wherever a rotation
\* was cut short, the names tell the order of what happened.
AgeOrder ==
  \A p, q \in Place : p < q /\ file[p] # 0 /\ file[q] # 0 => <<file[p], file[q]>> \in newer

\* The file being written and the parked generation are never run over or
\* removed: not by a rotation that meets an earlier one's remains, not after a
\* kill between two renames.
NewestKept ==
  [][\A f \in {handle, file[Live], file[Pending]} \ {0} :
        f \in Files => f \in Files']_logVars

\* The order of the files and the newest of them, through every cut.
HistoryKept == [](LogTypeOK /\ AgeOrder) /\ NewestKept

\* Once nothing stands in the way any more the log is rotated again and nothing
\* stays parked, whatever has failed before, as long as the process still
\* writes to the live file.
Calm ==
  /\ held = {} /\ obstacle = "none" /\ pc \notin {"down", "stderr"}
  /\ pc = "idle" => file[Live] = handle
RotationRecovers ==
  <>[]Calm => []<>(pc = "idle" /\ written < MAX_BYTES /\ file[Pending] = 0)

\* A rotation that fails costs the size cap, never the history (yspot-log,
\* rotate and tests/rotation_survives_failure.rs).
FailureKeepsHistory == pc = "refused" => before \subseteq Files
=============================================================================
