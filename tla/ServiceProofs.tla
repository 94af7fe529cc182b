---------------------------- MODULE ServiceProofs ----------------------------
(***************************************************************************)
(* Proofs about the service's pipe server and about the rotating log, which*)
(* the shell writes too: two parts that know nothing of each other.        *)
(* PipeServer, for any finite set of clients and any cap: the connection   *)
(* count and the activity count stay exact through every way a connection  *)
(* can begin, fail and end, and the cap holds. LogRotation, for any number *)
(* of generations and any sizes: through refused operations and kills      *)
(* between any two of them, no file is under two names, the names tell the *)
(* age of the files, and the file being written and the parked one are     *)
(* never lost.                                                             *)
(***************************************************************************)
EXTENDS PipeServer, LogRotation, FiniteSetTheorems, TLAPS


\* SlotsExact and VotesExact are each inductive over well-typed states, and
\* the cap follows from the exchange once the count is exact.
ServerInv == ServerTypeOK /\ SlotsExact /\ CapHolds /\ VotesExact

-----------------------------------------------------------------------------
\* A set of clients that gains or loses one member counts one more or less.
LEMMA CountOne ==
  ASSUME NEW S \in SUBSET Clients, NEW c \in Clients
  PROVE  /\ Cardinality(S) \in Nat
         /\ c \notin S => Cardinality(S \union {c}) = Cardinality(S) + 1
         /\ c \in S => /\ Cardinality(S \ {c}) = Cardinality(S) - 1
                       /\ Cardinality(S) > 0
<1>1. IsFiniteSet(S)
  BY PipeServerAssumption, FS_Subset
<1>2. Cardinality(S) \in Nat
  BY <1>1, FS_CardinalityType
<1>3. c \notin S => Cardinality(S \union {c}) = Cardinality(S) + 1
  BY <1>1, FS_AddElement
<1>4. c \in S => Cardinality(S \ {c}) = Cardinality(S) - 1
  BY <1>1, FS_RemoveElement
<1>5. c \in S => Cardinality(S) > 0
  <2> SUFFICES ASSUME c \in S PROVE Cardinality(S) > 0
    OBVIOUS
  <2>1. IsFiniteSet(S \ {c}) /\ Cardinality(S \ {c}) \in Nat
    BY <1>1, FS_RemoveElement, FS_CardinalityType
  <2> QED
    BY <1>2, <1>4, <2>1
<1> QED
  BY <1>2, <1>3, <1>4, <1>5

\* A step that moves one connection and keeps it on its side of Holding.
LEMMA SameHolders ==
  ASSUME ServerTypeOK, NEW c \in Clients, NEW v,
         conn' = [conn EXCEPT ![c] = v],
         conn[c] \in Holding <=> v \in Holding
  PROVE  Holders' = Holders
BY DEF ServerTypeOK, Holders

\* Initially nothing is connected and nothing counted.
LEMMA InitServerInv == Init => ServerInv
<1> SUFFICES ASSUME Init PROVE ServerInv
    OBVIOUS
<1>1. Holders = {} /\ Active = {}
  BY DEF Init, Holders, Holding, Active
<1>2. Cardinality(Holders) = 0 /\ Cardinality(Active) = 0
  BY <1>1, FS_EmptySet
<1>3. ServerTypeOK
  <2>1. conn \in [Clients -> {"none", "asking", "accepted"} \union Holding]
    BY DEF Init
  <2>2. active \in [Clients -> BOOLEAN]
    BY DEF Init
  <2>3. /\ server \in {"accepting", "claiming", "spawning", "rearming"}
        /\ seen \in Nat /\ live \in Nat /\ active_sessions \in Nat /\ weight \in 0..2
        /\ keeper \in {"asleep", "should", "must", "compacting"}
    BY DEF Init
  <2>4. paused \in BOOLEAN
    BY Zenon DEF Init
  <2> QED
    BY <2>1, <2>2, <2>3, <2>4 DEF ServerTypeOK
<1> QED
  BY <1>2, <1>3, PipeServerAssumption
     DEF Init, ServerInv, SlotsExact, CapHolds, VotesExact

-----------------------------------------------------------------------------
\* What leaves the counts and what they count alone keeps the invariant.
LEMMA CountsUntouched ==
  ASSUME ServerInv, ServerTypeOK', Holders' = Holders, live' = live,
         active' = active, active_sessions' = active_sessions
  PROVE  ServerInv'
BY DEF ServerInv, SlotsExact, CapHolds, VotesExact, Active

\* Taking a slot: the exchange saw the count as it is, below the cap.
LEMMA ClaimKeeps ==
  ASSUME ServerInv, NEW c \in Clients, Claim(c) PROVE ServerInv'
<1> USE DEF Claim, ServerInv, ServerTypeOK
<1>1. Holders' = Holders \union {c} /\ c \notin Holders
  BY DEF Holders, Holding
<1>2. Cardinality(Holders') = Cardinality(Holders) + 1
  BY <1>1, CountOne DEF Holders
<1>3. ServerTypeOK'
  BY DEF Holding, Upkeep
<1>4. live' = Cardinality(Holders') /\ live' <= MAX_CONNECTIONS
  <2>1. live' = live + 1 /\ live < MAX_CONNECTIONS /\ live \in Nat
    OBVIOUS
  <2>2. live = Cardinality(Holders)
    BY DEF SlotsExact
  <2> HIDE DEF Claim, ServerInv, ServerTypeOK
  <2> QED
    BY <1>2, <2>1, <2>2, PipeServerAssumption
<1>5. VotesExact'
  BY DEF VotesExact, Active
<1> QED
  BY <1>3, <1>4, <1>5 DEF SlotsExact, CapHolds

\* Giving one back, from a session that ended or a thread that never started.
LEMMA GiveBackKeeps ==
  ASSUME ServerInv, ServerTypeOK, NEW c \in Clients, conn[c] \in Holding,
         conn' = [conn EXCEPT ![c] = "none"], live' = live - 1,
         UNCHANGED <<active, active_sessions, seen, Upkeep>>,
         server' \in {server, "rearming"}
  PROVE  ServerInv'
<1> USE DEF ServerInv, ServerTypeOK
<1>1. Holders' = Holders \ {c} /\ c \in Holders
  BY DEF Holders, Holding
<1>2. /\ Cardinality(Holders') = Cardinality(Holders) - 1
      /\ Cardinality(Holders) \in Nat /\ Cardinality(Holders) > 0
  BY <1>1, CountOne DEF Holders
<1>3. live' \in Nat /\ live' = Cardinality(Holders')
  BY <1>2 DEF SlotsExact
<1>4. ServerTypeOK'
  BY <1>3 DEF Upkeep, Holding
<1>5. live' <= MAX_CONNECTIONS
  BY <1>2, <1>3, PipeServerAssumption DEF CapHolds
<1>6. VotesExact'
  BY DEF VotesExact, Active
<1> QED
  BY <1>3, <1>4, <1>5, <1>6 DEF SlotsExact, CapHolds

\* A report, or the withdrawal of one, moves the count with the set.
LEMMA VoteMoves ==
  ASSUME ServerTypeOK, VotesExact, NEW c \in Clients, NEW now \in BOOLEAN,
         active_sessions' = active_sessions + VoteChange(active[c], now),
         active' = [active EXCEPT ![c] = now]
  PROVE  VotesExact' /\ active_sessions' \in Nat /\ active' \in [Clients -> BOOLEAN]
<1> USE DEF ServerTypeOK, VotesExact, Active
<1>0. active[c] \in BOOLEAN /\ Active \in SUBSET Clients
  OBVIOUS
<1>1. CASE active[c] = now
  <2>1. Active' = Active
    BY <1>1
  <2>2. VoteChange(active[c], now) = 0
    BY <1>1, <1>0 DEF VoteChange
  <2> QED
    BY <2>1, <2>2
<1>2. CASE ~active[c] /\ now
  <2>1. Active' = Active \union {c} /\ c \notin Active
    BY <1>2
  <2>2. VoteChange(active[c], now) = 1
    BY <1>2, <1>0 DEF VoteChange
  <2>3. Cardinality(Active') = Cardinality(Active) + 1
    BY <1>0, <2>1, CountOne
  <2> QED
    BY <2>2, <2>3
<1>3. CASE active[c] /\ ~now
  <2>1. Active' = Active \ {c} /\ c \in Active
    BY <1>3
  <2>2. VoteChange(active[c], now) = -1
    BY <1>3, <1>0 DEF VoteChange
  <2>3. /\ Cardinality(Active') = Cardinality(Active) - 1
        /\ Cardinality(Active) \in Nat /\ Cardinality(Active) > 0
    BY <1>0, <2>1, CountOne
  <2> QED
    BY <2>2, <2>3
<1> QED
  BY <1>0, <1>1, <1>2, <1>3

LEMMA ReportKeeps ==
  ASSUME ServerInv, NEW c \in Clients, NEW now \in BOOLEAN, Report(c, now)
  PROVE  ServerInv'
<1>1. VotesExact' /\ active_sessions' \in Nat /\ active' \in [Clients -> BOOLEAN]
  BY VoteMoves DEF ServerInv, Report
<1>2. ServerTypeOK'
  BY <1>1 DEF ServerInv, ServerTypeOK, Report, Upkeep
<1> QED
  BY <1>1, <1>2 DEF ServerInv, Report, SlotsExact, CapHolds, Holders

LEMMA EndKeeps ==
  ASSUME ServerInv, NEW c \in Clients, End(c) PROVE ServerInv'
<1>1. VotesExact' /\ active_sessions' \in Nat /\ active' \in [Clients -> BOOLEAN]
  BY VoteMoves DEF ServerInv, End
<1>2. ServerTypeOK'
  BY <1>1 DEF ServerInv, ServerTypeOK, End, Upkeep, Holding
<1>3. Holders' = Holders
  BY SameHolders DEF ServerInv, End, Holding
<1> QED
  BY <1>1, <1>2, <1>3 DEF ServerInv, End, SlotsExact, CapHolds

-----------------------------------------------------------------------------
\* The accept loop's steps keep the invariant.
LEMMA AcceptStepKeeps == ServerInv /\ (AcceptStep \/ Failure) => ServerInv'
<1> SUFFICES ASSUME ServerInv, AcceptStep \/ Failure PROVE ServerInv'
    OBVIOUS
<1>0. ServerTypeOK
  BY DEF ServerInv
<1>1. ASSUME NEW c \in Clients, Accept(c) PROVE ServerInv'
  <2>1. ServerTypeOK'
    BY <1>0, <1>1 DEF ServerTypeOK, Accept, Upkeep
  <2>2. Holders' = Holders
    BY <1>0, <1>1, SameHolders DEF Accept, Holding
  <2> QED
    BY <1>1, <2>1, <2>2, CountsUntouched DEF Accept
<1>2. ASSUME NEW c \in Clients, Claim(c) PROVE ServerInv'
  BY <1>2, ClaimKeeps
<1>3. ASSUME NEW c \in Clients, Refuse(c) PROVE ServerInv'
  <2>1. ServerTypeOK'
    BY <1>0, <1>3 DEF ServerTypeOK, Refuse, Upkeep
  <2>2. Holders' = Holders
    BY <1>0, <1>3, SameHolders DEF Refuse, Holding
  <2> QED
    BY <1>3, <2>1, <2>2, CountsUntouched DEF Refuse
<1>4. ASSUME NEW c \in Clients, Spawn(c) PROVE ServerInv'
  <2>1. ServerTypeOK'
    BY <1>0, <1>4 DEF ServerTypeOK, Spawn, Upkeep, Holding
  <2>2. Holders' = Holders
    BY <1>0, <1>4, SameHolders DEF Spawn, Holding
  <2> QED
    BY <1>4, <2>1, <2>2, CountsUntouched DEF Spawn
<1>5. CASE ClaimAgain
  <2>1. ServerTypeOK'
    BY <1>0, <1>5 DEF ServerTypeOK, ClaimAgain, Upkeep
  <2> QED
    BY <1>5, <2>1, CountsUntouched DEF ClaimAgain, Holders
<1>6. CASE Rearm
  <2>1. ServerTypeOK'
    BY <1>0, <1>6 DEF ServerTypeOK, Rearm, Upkeep
  <2> QED
    BY <1>6, <2>1, CountsUntouched DEF Rearm, Holders
<1>7. CASE AcceptFails
  <2>1. ServerTypeOK'
    BY <1>0, <1>7 DEF ServerTypeOK, AcceptFails, Upkeep
  <2>2. Holders' = Holders
    BY <1>0, <1>7 DEF ServerTypeOK, AcceptFails, Holders, Holding
  <2> QED
    BY <1>7, <2>1, <2>2, CountsUntouched DEF AcceptFails
<1>8. ASSUME NEW c \in Clients, SpawnFails(c) PROVE ServerInv'
  BY <1>0, <1>8, GiveBackKeeps DEF SpawnFails, Holding
<1> QED
  BY <1>1, <1>2, <1>3, <1>4, <1>5, <1>6, <1>7, <1>8 DEF AcceptStep, Failure

\* The clients' and their sessions' steps keep the invariant.
LEMMA SessionStepKeeps ==
  ASSUME ServerInv, NEW c \in Clients,
         \/ Connect(c)
         \/ Greet(c) \/ GreetFails(c)
         \/ \E b \in BOOLEAN : Report(c, b) \/ SetPaused(c, b)
         \/ End(c) \/ Release(c)
  PROVE  ServerInv'
<1>0. ServerTypeOK
  BY DEF ServerInv
<1>1. CASE Connect(c)
  <2>1. ServerTypeOK'
    BY <1>0, <1>1 DEF ServerTypeOK, Connect, Upkeep
  <2>2. Holders' = Holders
    BY <1>0, <1>1, SameHolders DEF Connect, Holding
  <2> QED
    BY <1>1, <2>1, <2>2, CountsUntouched DEF Connect
<1>2. CASE Greet(c)
  <2>1. ServerTypeOK'
    BY <1>0, <1>2 DEF ServerTypeOK, Greet, Upkeep, Holding
  <2>2. Holders' = Holders
    BY <1>0, <1>2, SameHolders DEF Greet, Holding
  <2> QED
    BY <1>2, <2>1, <2>2, CountsUntouched DEF Greet
<1>3. CASE GreetFails(c)
  <2>1. ServerTypeOK'
    BY <1>0, <1>3 DEF ServerTypeOK, GreetFails, Upkeep, Holding
  <2>2. Holders' = Holders
    BY <1>0, <1>3, SameHolders DEF GreetFails, Holding
  <2> QED
    BY <1>3, <2>1, <2>2, CountsUntouched DEF GreetFails
<1>4. ASSUME NEW b \in BOOLEAN, Report(c, b) PROVE ServerInv'
  BY <1>4, ReportKeeps
<1>5. ASSUME NEW b \in BOOLEAN, SetPaused(c, b) PROVE ServerInv'
  <2>1. ServerTypeOK'
    BY <1>0, <1>5 DEF ServerTypeOK, SetPaused, Wire
  <2> QED
    BY <1>5, <2>1, CountsUntouched DEF SetPaused, Wire, Holders
<1>6. CASE End(c)
  BY <1>6, EndKeeps
<1>7. CASE Release(c)
  BY <1>0, <1>7, GiveBackKeeps DEF Release, Holding
<1> QED
  BY <1>1, <1>2, <1>3, <1>4, <1>5, <1>6, <1>7

\* Housekeeping, and idling, touch neither count.
LEMMA UpkeepStepKeeps ==
  ServerInv /\ (Waste \/ Keep \/ UNCHANGED vars) => ServerInv'
<1> SUFFICES ASSUME ServerInv, Waste \/ Keep \/ UNCHANGED vars PROVE ServerInv'
    OBVIOUS
<1>1. UNCHANGED Wire
  BY DEF Waste, Keep, Poll, Gate, Compact, vars, Wire
<1>2. ServerTypeOK'
  BY <1>1 DEF ServerInv, ServerTypeOK, Waste, Keep, Poll, Gate, Compact, vars, Wire
<1> QED
  BY <1>1, <1>2, CountsUntouched DEF Wire, Holders

\* Every reachable state of the service satisfies the inductive invariant.
THEOREM ServerSafe == Spec => []ServerInv
<1>1. ServerInv /\ [Next]_vars => ServerInv'
  BY AcceptStepKeeps, SessionStepKeeps, UpkeepStepKeeps DEF Next
<1> QED
  BY <1>1, InitServerInv, PTL DEF Spec

\* The variables keep their types: neither count goes below zero, though
\* both are decremented by guards that read nothing (pipe.rs, state.rs).
THEOREM ServerTypesHold == Spec => []ServerTypeOK
BY ServerSafe, PTL DEF ServerInv

\* The connection count is the number of slots held, for any number of
\* clients that come, fail and go while the accept loop is looking.
THEOREM SlotsAreExact == Spec => []SlotsExact
BY ServerSafe, PTL DEF ServerInv

\* No more than MAX_CONNECTIONS connections are ever served at once.
THEOREM CapIsKept == Spec => []CapHolds
BY ServerSafe, PTL DEF ServerInv

\* The activity count is the number of sessions that last reported active.
THEOREM VotesAreExact == Spec => []VotesExact
BY ServerSafe, PTL DEF ServerInv

\* Both counts the service keeps of its clients stay what they stand for.
THEOREM CountsAreExact == Spec => []CountsExact
BY ServerTypesHold, SlotsAreExact, VotesAreExact, PTL DEF CountsExact

-----------------------------------------------------------------------------
(* The rotating log.                                                       *)


\* The parked file is being filed while its replacement is written to.
Filing == call = "filing" /\ pc \in {"shift", "claim"}

\* What the places hold by the operation to come: nothing is moved to where
\* the newest files are.
PlaceInv ==
  /\ pc = "recover" => call # "filing"
  /\ pc = "shift" => at \in 1..Last
  /\ pc = "aside" => file[Pending] = 0
  /\ pc \in {"create", "putback"} => file[Live] = 0
  /\ pc \in {"shift", "claim", "create"} => file[Pending] # 0
  /\ Filing => file[Live] # 0

\* Where the file being written is: live, parked while its replacement is made
\* or filed, or, after a rotation that could not put it back, wherever the
\* history took it, with no live file for a rotation to begin from.
HandleInv ==
  pc \notin {"down", "stderr"} =>
    /\ handle # 0
    /\ \/ handle = file[Live]
       \/ Filing /\ handle = file[Pending]
       \/ file[Live] = 0 /\ file[Pending] \in {0, handle}

\* The part of the types that is about the directory, and the rest.
DiskOK ==
  /\ file \in [Place -> {0} \union File]
  /\ \A p, q \in Place : file[p] = file[q] /\ file[p] # 0 => p = q
  /\ newer \subseteq Files \X Files
  /\ \A f, g \in Files : f = g <=> <<f, g>> \notin newer /\ <<g, f>> \notin newer
  /\ \A f, g \in Files : <<f, g>> \in newer => <<g, f>> \notin newer
RestTyped ==
  /\ handle \in {0} \union File
  /\ written \in 0..Top /\ rotate_at \in 0..Top
  /\ pc \in {"down", "stderr", "idle", "write", "refused", "recover", "shift", "claim",
             "aside", "create", "putback"}
  /\ at \in 0..Last /\ call \in {"open", "rotate", "filing"}
  /\ before \subseteq File /\ held \subseteq File
  /\ obstacle \in {"none", "full", "denied"}

LogInv == LogTypeOK /\ AgeOrder /\ PlaceInv /\ HandleInv

LEMMA Typed == LogTypeOK <=> DiskOK /\ RestTyped
BY DEF LogTypeOK, DiskOK, RestTyped

LEMMA Places ==
  /\ Place = (-1)..(MAX_FILES - 1) /\ MAX_FILES \in Nat /\ MAX_FILES > 1
  /\ Live \in Place /\ Pending \in Place /\ 1 \in Place /\ Last \in Place
  /\ Live = -1 /\ Pending = 0 /\ Last = MAX_FILES - 1
  /\ 0 \notin File
BY LogRotationAssumption DEF Place, Live, Pending, Last, File

-----------------------------------------------------------------------------
(* The operations on the directory.                                        *)

\* A directory that holds fewer of the files, none of them twice and in the
\* order they had.
LEMMA BecomesFacts ==
  ASSUME DiskOK, NEW f \in [Place -> {0} \union File], Becomes(f),
         \A p, q \in Place : f[p] = f[q] /\ f[p] # 0 => p = q,
         \A p \in Place : f[p] \in {0} \union Files,
         \A p, q \in Place : p < q /\ f[p] # 0 /\ f[q] # 0 => <<f[p], f[q]>> \in newer
  PROVE  DiskOK' /\ AgeOrder' /\ file' = f
<1>1. file' = f /\ newer' = newer \cap (FilesOf(f) \X FilesOf(f))
  BY DEF Becomes
<1>2. Files' = FilesOf(f) /\ FilesOf(f) \subseteq Files
  BY <1>1 DEF Files, FilesOf
<1>3. ASSUME NEW g \in Files', NEW h \in Files' PROVE <<g, h>> \in newer' <=> <<g, h>> \in newer
  BY <1>1, <1>2, <1>3
<1>4. newer' \subseteq Files' \X Files'
  BY <1>1, <1>2
<1>5. /\ \A g, h \in Files' : g = h <=> <<g, h>> \notin newer' /\ <<h, g>> \notin newer'
      /\ \A g, h \in Files' : <<g, h>> \in newer' => <<h, g>> \notin newer'
  BY <1>2, <1>3 DEF DiskOK
<1>6. DiskOK'
  BY <1>1, <1>4, <1>5 DEF DiskOK
<1>7. AgeOrder'
  <2> SUFFICES ASSUME NEW p \in Place, NEW q \in Place, p < q, f[p] # 0, f[q] # 0
               PROVE  <<f[p], f[q]>> \in newer'
    BY <1>1 DEF AgeOrder
  <2>1. f[p] \in FilesOf(f) /\ f[q] \in FilesOf(f)
    BY DEF FilesOf
  <2> QED
    BY <1>2, <1>3, <2>1
<1> QED
  BY <1>1, <1>6, <1>7

LEMMA StaysFacts ==
  ASSUME DiskOK, AgeOrder, Becomes(file)
  PROVE  DiskOK' /\ AgeOrder' /\ file' = file /\ newer' = newer
<1>1. file' = file /\ newer' = newer
  BY DEF Becomes, DiskOK, Files
<1> QED
  BY <1>1 DEF DiskOK, AgeOrder, Files, FilesOf

\* A move to the next place, or back: what was there is gone, and nothing else.
LEMMA MovedFacts ==
  ASSUME DiskOK, AgeOrder, NEW p \in Place, NEW q \in Place, q = p + 1 \/ p = q + 1,
         file[p] # 0, p > q => file[q] = 0, Becomes(Moved(p, q))
  PROVE  /\ DiskOK' /\ AgeOrder'
         /\ file'[q] = file[p] /\ file'[p] = 0
         /\ \A r \in Place : r # p /\ r # q => file'[r] = file[r]
         /\ \A f \in Files : f # file[q] => f \in Files'
<1> DEFINE m == Moved(p, q)
<1>1. /\ m \in [Place -> {0} \union File] /\ m[q] = file[p] /\ m[p] = 0
      /\ \A r \in Place : r # p /\ r # q => m[r] = file[r]
  BY Places DEF DiskOK, Moved
<1> HIDE DEF m
<1>2. \A r, s \in Place : m[r] = m[s] /\ m[r] # 0 => r = s
  BY <1>1 DEF DiskOK
<1>3. \A r \in Place : m[r] \in {0} \union Files
  BY <1>1 DEF Files, FilesOf
<1>4. \A r, s \in Place : r < s /\ m[r] # 0 /\ m[s] # 0 => <<m[r], m[s]>> \in newer
  <2> SUFFICES ASSUME NEW r \in Place, NEW s \in Place, r < s, m[r] # 0, m[s] # 0
               PROVE  <<m[r], m[s]>> \in newer
    OBVIOUS
  <2>1. r # p /\ s # p
    BY <1>1
  <2>2. CASE r = q
    <3>1. p < s /\ s # q
      BY <2>1, <2>2, Places
    <3> QED
      BY <1>1, <2>1, <2>2, <3>1 DEF AgeOrder
  <2>3. CASE s = q
    <3>1. r < p /\ r # q
      BY <2>1, <2>3, Places
    <3> QED
      BY <1>1, <2>1, <2>3, <3>1 DEF AgeOrder
  <2> QED
    BY <1>1, <2>1, <2>2, <2>3 DEF AgeOrder
<1>5. DiskOK' /\ AgeOrder' /\ file' = m
  BY <1>1, <1>2, <1>3, <1>4, BecomesFacts DEF m
<1>6. ASSUME NEW f \in Files, f # file[q] PROVE f \in Files'
  <2>1. PICK r \in Place : f = file[r] /\ f # 0
    BY DEF Files, FilesOf
  <2>2. \E s \in Place : file'[s] = f
    BY <1>1, <1>5, <1>6, <2>1
  <2> QED
    BY <2>1, <2>2 DEF Files, FilesOf
<1> QED
  BY <1>1, <1>5, <1>6

LEMMA RemovedFacts ==
  ASSUME DiskOK, AgeOrder, NEW p \in Place, Becomes([file EXCEPT ![p] = 0])
  PROVE  /\ DiskOK' /\ AgeOrder'
         /\ \A r \in Place : r # p => file'[r] = file[r]
         /\ \A f \in Files : f # file[p] => f \in Files'
<1> DEFINE m == [file EXCEPT ![p] = 0]
<1>1. /\ m \in [Place -> {0} \union File] /\ m[p] = 0
      /\ \A r \in Place : r # p => m[r] = file[r]
  BY DEF DiskOK
<1> HIDE DEF m
<1>2. \A r, s \in Place : m[r] = m[s] /\ m[r] # 0 => r = s
  BY <1>1 DEF DiskOK
<1>3. \A r \in Place : m[r] \in {0} \union Files
  BY <1>1 DEF Files, FilesOf
<1>4. \A r, s \in Place : r < s /\ m[r] # 0 /\ m[s] # 0 => <<m[r], m[s]>> \in newer
  BY <1>1 DEF AgeOrder
<1>5. DiskOK' /\ AgeOrder' /\ file' = m
  BY <1>1, <1>2, <1>3, <1>4, BecomesFacts DEF m
<1>6. ASSUME NEW f \in Files, f # file[p] PROVE f \in Files'
  <2>1. PICK r \in Place : f = file[r] /\ f # 0
    BY DEF Files, FilesOf
  <2> QED
    BY <1>1, <1>5, <1>6, <2>1 DEF Files, FilesOf
<1> QED
  BY <1>1, <1>5, <1>6

\* There are more identities than places, so a new file has one of its own.
LEMMA NewFile == DiskOK => \E f \in File : f \notin Files
<1> SUFFICES ASSUME DiskOK, File \subseteq Files PROVE FALSE
    OBVIOUS
<1> DEFINE range == {file[p] : p \in Place}
<1>1. IsFiniteSet(Place) /\ Cardinality(Place) = MAX_FILES + 1
  BY Places, FS_Interval
<1>2. file \in Surjection(Place, range)
  BY DEF DiskOK, Surjection
<1>3. IsFiniteSet(range) /\ Cardinality(range) <= MAX_FILES + 1
  <2> HIDE DEF range
  <2> QED
    BY <1>1, <1>2, FS_Surjection
<1>4. Cardinality(File) = MAX_FILES + 2
  BY Places, FS_Interval DEF File
<1>5. File \subseteq range
  BY DEF Files, FilesOf
<1> HIDE DEF range
<1>6. Cardinality(File) <= Cardinality(range)
  BY <1>3, <1>5, FS_Subset
<1>7. Cardinality(range) \in Nat
  BY <1>3, FS_CardinalityType
<1> QED
  BY <1>3, <1>4, <1>6, <1>7, Places

LEMMA CreatedFacts ==
  ASSUME DiskOK, AgeOrder, file[Live] = 0, CreateLive
  PROVE  /\ DiskOK' /\ AgeOrder'
         /\ file'[Live] \in File
         /\ \A r \in Place : r # Live => file'[r] = file[r]
         /\ Files \subseteq Files'
<1> DEFINE new == CHOOSE f \in File : f \notin Files
<1>1. new \in File /\ new \notin Files
  BY NewFile
<1>2. file' = [file EXCEPT ![Live] = new] /\ newer' = newer \cup ({new} \X Files)
  BY DEF CreateLive
<1> HIDE DEF new
<1>3. /\ file' \in [Place -> {0} \union File] /\ file'[Live] = new
      /\ \A r \in Place : r # Live => file'[r] = file[r]
  BY <1>1, <1>2, Places DEF DiskOK
<1>4. new # 0 /\ \A r \in Place : file[r] # new
  BY <1>1, Places DEF Files, FilesOf
<1>5. Files' = Files \cup {new}
  BY <1>3, <1>4, Places DEF Files, FilesOf
<1>6. newer \subseteq Files \X Files
  BY DEF DiskOK
<1>7. newer' \subseteq Files' \X Files'
  BY <1>2, <1>5, <1>6
<1>8. /\ \A g, h \in Files : <<g, h>> \in newer' <=> <<g, h>> \in newer
      /\ \A g \in Files : <<new, g>> \in newer' /\ <<g, new>> \notin newer'
      /\ <<new, new>> \notin newer'
  BY <1>1, <1>2, <1>6
<1>9. /\ \A g, h \in Files' : g = h <=> <<g, h>> \notin newer' /\ <<h, g>> \notin newer'
      /\ \A g, h \in Files' : <<g, h>> \in newer' => <<h, g>> \notin newer'
  BY <1>1, <1>5, <1>8 DEF DiskOK
<1>10. \A p, q \in Place : file'[p] = file'[q] /\ file'[p] # 0 => p = q
  BY <1>3, <1>4 DEF DiskOK
<1>11. DiskOK'
  BY <1>3, <1>7, <1>9, <1>10 DEF DiskOK
<1>12. AgeOrder'
  <2> SUFFICES ASSUME NEW p \in Place, NEW q \in Place, p < q, file'[p] # 0, file'[q] # 0
               PROVE  <<file'[p], file'[q]>> \in newer'
    BY DEF AgeOrder
  <2>1. q # Live /\ file'[q] = file[q] /\ file[q] \in Files
    BY <1>3, Places DEF Files, FilesOf
  <2>2. CASE p = Live
    BY <1>3, <1>8, <2>1, <2>2
  <2>3. CASE p # Live
    <3>1. file'[p] = file[p] /\ file[p] \in Files
      BY <1>3, <2>3 DEF Files, FilesOf
    <3> QED
      BY <1>8, <2>1, <3>1 DEF AgeOrder
  <2> QED
    BY <2>2, <2>3
<1> QED
  BY <1>1, <1>3, <1>5, <1>11, <1>12

-----------------------------------------------------------------------------
\* Every step keeps the invariant, and the written and the parked file with it.
Kept == \A f \in {handle, file[Live], file[Pending]} \ {0} : f \in Files => f \in Files'

LEMMA InitLogInv == LogInit => LogInv
<1> SUFFICES ASSUME LogInit PROVE LogInv
    OBVIOUS
<1>1. \A p \in Place : file[p] = 0
  BY DEF LogInit
<1>2. DiskOK
  BY <1>1 DEF LogInit, DiskOK, Files, FilesOf
<1>3. RestTyped
  BY LogRotationAssumption, Places DEF LogInit, RestTyped
<1>4. AgeOrder /\ PlaceInv /\ HandleInv
  BY <1>1, Places DEF LogInit, AgeOrder, PlaceInv, HandleInv, Filing
<1> QED
  BY <1>2, <1>3, <1>4, Typed DEF LogInv

LEMMA LogStep == LogInv /\ [LogNext]_logVars => LogInv' /\ Kept
<1> SUFFICES ASSUME LogInv, [LogNext]_logVars PROVE LogInv' /\ Kept
    OBVIOUS
<1>0. DiskOK /\ RestTyped /\ AgeOrder /\ PlaceInv /\ HandleInv
  BY Typed DEF LogInv
<1>1. DiskOK' /\ RestTyped' /\ AgeOrder' /\ PlaceInv' /\ HandleInv' => LogInv'
  BY Typed DEF LogInv, DiskOK, RestTyped, LogTypeOK
<1>2. ASSUME UNCHANGED Disk
      PROVE  DiskOK' /\ AgeOrder' /\ Kept /\ file' = file
  BY <1>0, <1>2 DEF Disk, DiskOK, AgeOrder, Files, FilesOf, Kept
<1>3. Capped(written + 1) \in 0..Top /\ Capped(written + ROTATE_RETRY_BYTES) \in 0..Top
      /\ 0 \in 0..Top /\ MAX_BYTES \in 0..Top
  BY <1>0, LogRotationAssumption DEF RestTyped, Capped
<1>4. Files \subseteq File
  BY <1>0 DEF DiskOK, Files, FilesOf
<1>5. /\ Pending \in Place /\ Live \in Place /\ 1 \in Place /\ Last \in Int /\ Last >= 1
      /\ Live = -1 /\ Pending = 0
  BY Places
<1>6. CASE Start
  <2>1. CASE file[Live] = 0
    <3>1. CreateLive
      BY <1>6, <2>1 DEF Start
    <3>2. /\ DiskOK' /\ AgeOrder' /\ file'[Live] \in File /\ Files \subseteq Files'
      BY <1>0, <2>1, <3>1, CreatedFacts
    <3>3. Kept
      BY <3>2 DEF Kept
    <3>4. RestTyped' /\ PlaceInv' /\ HandleInv'
      BY <1>0, <1>3, <1>6, <3>2, Places DEF Start, RestTyped, PlaceInv, HandleInv, Filing, World
    <3> QED
      BY <1>1, <3>2, <3>3, <3>4
  <2>2. CASE file[Live] # 0
    <3>1. UNCHANGED Disk /\ file[Live] \in File
      BY <1>0, <1>5, <1>6, <2>2 DEF Start, DiskOK
    <3>2. DiskOK' /\ AgeOrder' /\ Kept /\ file' = file
      BY <1>2, <3>1
    <3>3. RestTyped' /\ PlaceInv' /\ HandleInv'
      BY <1>0, <1>3, <1>6, <3>1, <3>2, Places DEF Start, RestTyped, PlaceInv, HandleInv, Filing, World
    <3> QED
      BY <1>1, <3>2, <3>3
  <2> QED
    BY <2>1, <2>2
<1>7. CASE StartFails \/ Stop \/ Log \/ Write \/ Refused \/ Recover
  <2>1. UNCHANGED <<Disk, handle>>
    BY <1>7 DEF StartFails, Stop, Log, Write, Refused, Recover, Counters, Disk
  <2>2. DiskOK' /\ AgeOrder' /\ Kept /\ file' = file
    BY <1>2, <2>1
  <2>3. RestTyped'
    BY <1>0, <1>3, <1>4, <1>5, <1>7
       DEF StartFails, Stop, Log, Write, Refused, Recover, Counters, World, RestTyped
  <2>4. PlaceInv'
    <3>1. CASE Recover
      <4>1. pc' = "shift" => at' = Last /\ file[Pending] # 0
        BY <3>1 DEF Recover
      <4>2. pc' \in {"shift", "idle", "aside"} /\ (pc' = "aside" => file[Pending] = 0)
            /\ call' = call
        BY <3>1 DEF Recover
      <4>3. Last \in 1..Last
        BY <1>5
      <4> QED
        BY <1>0, <2>2, <3>1, <4>1, <4>2, <4>3 DEF PlaceInv, Filing, Recover
    <3>2. CASE StartFails \/ Stop \/ Log \/ Write \/ Refused
      <4>1. /\ pc' \in {"down", "stderr", "recover", "write", "idle"}
            /\ pc' = "recover" => call' = "rotate"
        BY <3>2 DEF StartFails, Stop, Log, Write, Refused
      <4> QED
        BY <4>1 DEF PlaceInv, Filing
    <3> QED
      BY <1>7, <3>1, <3>2
  <2>5. HandleInv'
    BY <1>0, <1>5, <1>7, <2>1, <2>2
       DEF StartFails, Stop, Log, Write, Refused, Recover, HandleInv, PlaceInv, Filing
  <2> QED
    BY <1>1, <2>2, <2>3, <2>4, <2>5
<1>8. CASE Shift
  <2>1. at \in 1..Last /\ at \in Place /\ (at < Last => at + 1 \in Place)
    BY <1>0, <1>8, Places DEF Shift, PlaceInv
  <2>2. /\ DiskOK' /\ AgeOrder' /\ file'[Live] = file[Live] /\ file'[Pending] = file[Pending]
        /\ Kept
    <3>1. CASE at = Last /\ CanRemove(at)
      <4>0. ~(at < Last)
        BY <1>5, <3>1
      <4>1. Becomes([file EXCEPT ![at] = 0])
        BY <1>8, <3>1, <4>0 DEF Shift
      <4>2. /\ DiskOK' /\ AgeOrder' /\ \A r \in Place : r # at => file'[r] = file[r]
            /\ \A f \in Files : f # file[at] => f \in Files'
        BY <1>0, <2>1, <4>1, RemovedFacts
      <4>3. at # Live /\ at # Pending
        BY <1>5, <2>1
      <4>4. file[at] # 0
        BY <3>1 DEF CanRemove
      <4>5. file[at] \notin {handle, file[Live], file[Pending]}
        BY <1>0, <1>5, <1>8, <2>1, <4>3, <4>4 DEF DiskOK, HandleInv, PlaceInv, Shift
      <4> QED
        BY <1>5, <4>2, <4>3, <4>5 DEF Kept
    <3>2. CASE at < Last /\ CanMove(at, at + 1)
      <4>0. at # Last
        BY <1>5, <2>1, <3>2
      <4>1. Becomes(Moved(at, at + 1)) /\ file[at] # 0
        BY <1>8, <3>2, <4>0 DEF Shift, CanMove
      <4>2. /\ DiskOK' /\ AgeOrder'
            /\ \A r \in Place : r # at /\ r # at + 1 => file'[r] = file[r]
            /\ \A f \in Files : f # file[at + 1] => f \in Files'
        <5>1. ~(at > at + 1)
          BY <2>1
        <5> QED
          BY <1>0, <2>1, <3>2, <4>1, <5>1, MovedFacts
      <4>3. at # Live /\ at # Pending /\ at + 1 # Live /\ at + 1 # Pending
        BY <1>5, <2>1
      <4>4. ASSUME file[at + 1] # 0
            PROVE  file[at + 1] \notin {handle, file[Live], file[Pending]}
        BY <1>0, <1>5, <1>8, <2>1, <3>2, <4>3, <4>4 DEF DiskOK, HandleInv, PlaceInv, Shift
      <4> QED
        BY <1>5, <4>2, <4>3, <4>4 DEF Kept
    <3>3. CASE ~(at = Last /\ CanRemove(at)) /\ ~(at < Last /\ CanMove(at, at + 1))
      <4>1. Becomes(file)
        BY <1>8, <3>3 DEF Shift
      <4>2. DiskOK' /\ AgeOrder' /\ file' = file
        BY <1>0, <4>1, StaysFacts
      <4> QED
        BY <4>2 DEF Kept, Files, FilesOf
    <3> QED
      BY <3>1, <3>2, <3>3
  <2>3. RestTyped'
    BY <1>0, <1>5, <1>8, <2>1 DEF Shift, RestTyped, Counters, World
  <2>4. PlaceInv'
    BY <1>0, <1>5, <1>8, <2>1, <2>2 DEF Shift, PlaceInv, Filing
  <2>5. HandleInv'
    BY <1>0, <1>8, <2>1, <2>2 DEF Shift, HandleInv, PlaceInv, Filing, Counters
  <2> QED
    BY <1>1, <2>2, <2>3, <2>4, <2>5
<1>9. CASE ClaimPending \/ Finish
  <2>1. /\ DiskOK' /\ AgeOrder' /\ file'[Live] = file[Live]
        /\ file'[Pending] = IF CanMove(Pending, 1) THEN 0 ELSE file[Pending]
        /\ Kept
    <3>1. CASE CanMove(Pending, 1)
      <4>1. Becomes(Moved(Pending, 1)) /\ file[Pending] # 0
        BY <1>9, <3>1 DEF ClaimPending, Finish, CanMove
      <4>2. /\ DiskOK' /\ AgeOrder' /\ file'[Pending] = 0
            /\ \A r \in Place : r # Pending /\ r # 1 => file'[r] = file[r]
            /\ \A f \in Files : f # file[1] => f \in Files'
        <5>1. 1 = Pending + 1 /\ ~(Pending > 1)
          BY <1>5
        <5> QED
          BY <1>0, <1>5, <4>1, <5>1, MovedFacts
      <4>3. ASSUME file[1] # 0 PROVE file[1] \notin {handle, file[Live], file[Pending]}
        BY <1>0, <1>5, <1>9, <4>3 DEF DiskOK, HandleInv, PlaceInv, ClaimPending, Finish
      <4> QED
        BY <1>5, <3>1, <4>2, <4>3 DEF Kept
    <3>2. CASE ~CanMove(Pending, 1)
      <4>1. Becomes(file)
        BY <1>9, <3>2 DEF ClaimPending, Finish
      <4>2. DiskOK' /\ AgeOrder' /\ file' = file
        BY <1>0, <4>1, StaysFacts
      <4> QED
        BY <3>2, <4>2 DEF Kept, Files, FilesOf
    <3> QED
      BY <3>1, <3>2
  <2>2. file[Live] \in {0} \union File
    BY <1>0, <1>5 DEF DiskOK
  <2>3. RestTyped'
    BY <1>0, <1>3, <1>9, <2>2 DEF ClaimPending, Finish, RestTyped, Counters, World
  <2>4. PlaceInv' /\ HandleInv'
    BY <1>0, <1>9, <2>1 DEF ClaimPending, Finish, PlaceInv, HandleInv, Filing, Counters
  <2> QED
    BY <1>1, <2>1, <2>3, <2>4
<1>10. CASE Aside \/ PutBack
  <2>1. PICK p \in {Live, Pending}, q \in {Live, Pending} :
           /\ p # q /\ (p = Live <=> Aside)
           /\ IF CanMove(p, q) THEN Becomes(Moved(p, q)) ELSE Becomes(file) \/ UNCHANGED Disk
    BY <1>5, <1>10 DEF Aside, PutBack
  <2>2. p \in Place /\ q \in Place /\ (q = p + 1 \/ p = q + 1) /\ file[q] = 0
    BY <1>0, <1>5, <1>10, <2>1 DEF PlaceInv, Aside, PutBack
  <2>3. /\ DiskOK' /\ AgeOrder' /\ Kept
        /\ IF CanMove(p, q) THEN file[p] # 0 /\ file'[q] = file[p] /\ file'[p] = 0
           ELSE file'[p] = file[p] /\ file'[q] = 0
    <3>1. CASE CanMove(p, q)
      <4>1. Becomes(Moved(p, q)) /\ file[p] # 0
        BY <2>1, <3>1 DEF CanMove
      <4>2. /\ DiskOK' /\ AgeOrder' /\ file'[q] = file[p] /\ file'[p] = 0
            /\ \A f \in Files : f # file[q] => f \in Files'
        BY <1>0, <2>2, <4>1, MovedFacts
      <4>3. Kept
        BY <2>2, <4>2 DEF Kept
      <4> QED
        BY <3>1, <4>1, <4>2, <4>3
    <3>2. CASE ~CanMove(p, q)
      <4>1. DiskOK' /\ AgeOrder' /\ file' = file
        BY <1>0, <1>2, <2>1, <3>2, StaysFacts
      <4> QED
        BY <2>2, <3>2, <4>1 DEF Kept, Files, FilesOf
    <3> QED
      BY <3>1, <3>2
  <2>4. RestTyped'
    BY <1>0, <1>10 DEF Aside, PutBack, RestTyped, Counters, World
  <2>5. CASE Aside
    <3>1. /\ p = Live /\ q = Pending /\ handle' = handle /\ pc = "aside"
          /\ pc' = IF CanMove(Live, Pending) THEN "create" ELSE "refused"
      BY <1>5, <2>1, <2>5 DEF Aside, Counters
    <3> QED
      BY <1>0, <1>1, <2>2, <2>3, <2>4, <3>1 DEF PlaceInv, HandleInv, Filing
  <2>6. CASE PutBack
    <3>1. /\ p = Pending /\ q = Live /\ handle' = handle /\ pc = "putback" /\ pc' = "refused"
      BY <1>5, <2>1, <2>6 DEF PutBack, Aside, Counters
    <3> QED
      BY <1>0, <1>1, <2>2, <2>3, <2>4, <3>1 DEF PlaceInv, HandleInv, Filing
  <2> QED
    BY <1>10, <2>5, <2>6
<1>11. CASE Create
  <2>1. CASE obstacle = "none"
    <3>1. CreateLive /\ file[Live] = 0 /\ file[Pending] # 0
      BY <1>0, <1>11, <2>1 DEF Create, PlaceInv
    <3>2. /\ DiskOK' /\ AgeOrder' /\ file'[Live] \in File /\ Files \subseteq Files'
          /\ file'[Pending] = file[Pending]
      BY <1>0, <1>5, <3>1, CreatedFacts
    <3>3. Kept
      BY <3>2 DEF Kept
    <3>4. RestTyped'
      BY <1>0, <1>5, <1>11, <2>1 DEF Create, RestTyped, Counters, World
    <3>5. PlaceInv' /\ HandleInv'
      BY <1>0, <1>5, <1>11, <2>1, <3>1, <3>2, Places
         DEF Create, PlaceInv, HandleInv, Filing, Counters
    <3> QED
      BY <1>1, <3>2, <3>3, <3>4, <3>5
  <2>2. CASE obstacle # "none"
    <3>1. /\ UNCHANGED <<Disk, at, call, handle, written, rotate_at, before, held, obstacle>>
          /\ pc = "create" /\ pc' = "putback"
      BY <1>11, <2>2 DEF Create, Counters, World
    <3>2. DiskOK' /\ AgeOrder' /\ Kept /\ file' = file
      BY <1>2, <3>1
    <3>3. RestTyped' /\ PlaceInv' /\ HandleInv'
      BY <1>0, <3>1, <3>2 DEF RestTyped, PlaceInv, HandleInv, Filing
    <3> QED
      BY <1>1, <3>2, <3>3
  <2> QED
    BY <2>1, <2>2
<1>12. CASE (\E f \in File : Hold(f)) \/ LetGo \/ (\E o \in {"none", "full", "denied"} : Obstruct(o))
             \/ UNCHANGED logVars
  <2>1. UNCHANGED <<Disk, handle, written, rotate_at, pc, at, call, before>>
    BY <1>12 DEF Hold, LetGo, Obstruct, logVars, Disk, Counters
  <2>2. DiskOK' /\ AgeOrder' /\ Kept /\ file' = file
    BY <1>2, <2>1
  <2>3. held' \subseteq File /\ obstacle' \in {"none", "full", "denied"}
    BY <1>0, <1>12 DEF Hold, LetGo, Obstruct, logVars, RestTyped
  <2>4. RestTyped' /\ PlaceInv' /\ HandleInv'
    BY <1>0, <2>1, <2>2, <2>3 DEF RestTyped, PlaceInv, HandleInv, Filing
  <2> QED
    BY <1>1, <2>2, <2>4
<1> QED
  BY <1>6, <1>7, <1>8, <1>9, <1>10, <1>11, <1>12 DEF LogNext, Step

-----------------------------------------------------------------------------
\* Through refused operations, a full disk and kills between any two file
\* operations (yspot-log: Rotating::open, recover_pending, shift_history and
\* rotate), the names tell the age of the files, none is under two, and the
\* written and the parked file are never run over.
THEOREM HistoryIsKept == LogSpec => HistoryKept
<1>1. LogInv /\ [LogNext]_logVars => LogInv'
  BY LogStep
<1>2. LogInv /\ [LogNext]_logVars =>
        [\A f \in {handle, file[Live], file[Pending]} \ {0} : f \in Files => f \in Files']_logVars
  BY LogStep DEF Kept
<1>3. LogInv => LogTypeOK /\ AgeOrder
  BY DEF LogInv
<1> QED
  BY <1>1, <1>2, <1>3, InitLogInv, PTL DEF LogSpec, HistoryKept, NewestKept
=============================================================================
