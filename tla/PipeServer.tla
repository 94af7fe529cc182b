----------------------------- MODULE PipeServer -----------------------------
(***************************************************************************)
(* The service seen from its clients: the accept loop, the connection cap, *)
(* the sessions' activity votes and the pause switch, and the housekeeping *)
(* thread whose compaction those hold off.  One session's traffic is the   *)
(* module Session; here a session is a thread that starts, reports and     *)
(* ends.                                                                   *)
(***************************************************************************)
EXTENDS Integers, FiniteSets

CONSTANTS Clients,          \* who may open the pipe
          Shells,           \* those that try again until they are served
          MAX_CONNECTIONS   \* sessions served at once

ASSUME PipeServerAssumption ==
  IsFiniteSet(Clients) /\ Shells \subseteq Clients /\ MAX_CONNECTIONS \in Nat

VARIABLES conn,             \* client -> the service's end of its connection
          active,           \* client -> what its session last reported
          server,           \* where the accept loop is
          seen,             \* the count of slots it last saw
          live,             \* connection slots taken
          active_sessions,  \* sessions counted as interactive
          paused,           \* the machine-wide pause switch
          weight,           \* dead weight: 1 past should_compact, 2 past must_compact
          keeper            \* the housekeeping thread: "asleep", or what it polled
vars == <<conn, active, server, seen, live, active_sessions, paused, weight, keeper>>

\* A session thread exists, or the slot for one is in the accept loop's hands.
Holding == {"claimed", "greeting", "served", "leaving"}
Holders == {c \in Clients : conn[c] \in Holding}
Active == {c \in Clients : active[c]}

Init ==
  /\ conn = [c \in Clients |-> "none"] /\ active = [c \in Clients |-> FALSE]
  /\ server = "accepting" /\ seen = 0 /\ live = 0 /\ active_sessions = 0 /\ paused = FALSE
  /\ weight = 0 /\ keeper = "asleep"

Upkeep == <<paused, weight, keeper>>
Wire == <<conn, active, server, seen, live, active_sessions>>

-----------------------------------------------------------------------------
\* The accept loop

\* One instance listens at a time; a client that finds it taken tries again.
Connect(c) ==
  /\ server = "accepting" /\ conn[c] = "none"
  /\ \A d \in Clients : conn[d] # "asking"
  /\ conn' = [conn EXCEPT ![c] = "asking"]
  /\ UNCHANGED <<active, server, seen, live, active_sessions, Upkeep>>

\* accept returns, and try_acquire loads the count.
Accept(c) ==
  /\ server = "accepting" /\ conn[c] = "asking"
  /\ conn' = [conn EXCEPT ![c] = "accepted"]
  /\ server' = "claiming" /\ seen' = live
  /\ UNCHANGED <<active, live, active_sessions, Upkeep>>

\* accept fails; the instance is dropped, and its client with it.
AcceptFails ==
  /\ server = "accepting"
  /\ conn' = [c \in Clients |-> IF conn[c] = "asking" THEN "none" ELSE conn[c]]
  /\ server' = "rearming"
  /\ UNCHANGED <<active, seen, live, active_sessions, Upkeep>>

\* Mutant: the count is stored back instead of exchanged.
ClaimStores(c) ==
  /\ server = "claiming" /\ conn[c] = "accepted"
  /\ seen < MAX_CONNECTIONS
  /\ live' = seen + 1
  /\ conn' = [conn EXCEPT ![c] = "claimed"]
  /\ server' = "spawning"
  /\ UNCHANGED <<active, seen, active_sessions, Upkeep>>

\* The exchange succeeds only on the count that was seen.
Claim(c) ==
  /\ server = "claiming" /\ conn[c] = "accepted"
  /\ seen < MAX_CONNECTIONS /\ live = seen
  /\ live' = live + 1
  /\ conn' = [conn EXCEPT ![c] = "claimed"]
  /\ server' = "spawning"
  /\ UNCHANGED <<active, seen, active_sessions, Upkeep>>

\* It fails when a session has ended meanwhile, and the loop looks again.
ClaimAgain ==
  /\ server = "claiming" /\ seen < MAX_CONNECTIONS /\ live # seen
  /\ seen' = live
  /\ UNCHANGED <<conn, active, server, live, active_sessions, Upkeep>>

\* At the cap the instance is dropped, which disconnects the client.
Refuse(c) ==
  /\ server = "claiming" /\ conn[c] = "accepted" /\ seen >= MAX_CONNECTIONS
  /\ conn' = [conn EXCEPT ![c] = "none"]
  /\ server' = "rearming"
  /\ UNCHANGED <<active, seen, live, active_sessions, Upkeep>>

\* The closure, with the pipe and the slot in it, moves to the new thread.
Spawn(c) ==
  /\ server = "spawning" /\ conn[c] = "claimed"
  /\ conn' = [conn EXCEPT ![c] = "greeting"]
  /\ server' = "rearming"
  /\ UNCHANGED <<active, seen, live, active_sessions, Upkeep>>

\* No thread: the closure is dropped, and the slot and the pipe with it.
SpawnFails(c) ==
  /\ server = "spawning" /\ conn[c] = "claimed"
  /\ live' = live - 1
  /\ conn' = [conn EXCEPT ![c] = "none"]
  /\ server' = "rearming"
  /\ UNCHANGED <<active, seen, active_sessions, Upkeep>>

\* A new instance listens.  A failed attempt is repeated, changing nothing.
Rearm ==
  /\ server = "rearming"
  /\ server' = "accepting"
  /\ UNCHANGED <<conn, active, seen, live, active_sessions, Upkeep>>

-----------------------------------------------------------------------------
\* Sessions

Greet(c) ==
  /\ conn[c] = "greeting"
  /\ conn' = [conn EXCEPT ![c] = "served"]
  /\ UNCHANGED <<active, server, seen, live, active_sessions, Upkeep>>

\* The handshake fails: run returns before there is a vote to withdraw.
GreetFails(c) ==
  /\ conn[c] = "greeting"
  /\ conn' = [conn EXCEPT ![c] = "leaving"]
  /\ UNCHANGED <<active, server, seen, live, active_sessions, Upkeep>>

\* The change of the count when one session's report goes from was to now.
VoteChange(was, now) ==
  CASE ~was /\ now -> 1
    [] was /\ ~now -> -1
    [] OTHER -> 0

\* set_session_active, told what this session reported before.
Report(c, now) ==
  /\ conn[c] = "served"
  /\ active_sessions' = active_sessions + VoteChange(active[c], now)
  /\ active' = [active EXCEPT ![c] = now]
  /\ UNCHANGED <<conn, server, seen, live, Upkeep>>

\* PauseIndexing and ResumeIndexing, from any session, for the machine.
SetPaused(c, p) ==
  /\ conn[c] = "served"
  /\ paused' = p
  /\ UNCHANGED <<Wire, weight, keeper>>

\* Mutant: a session that ends while active keeps its vote.
EndKeepsVote(c) ==
  /\ conn[c] = "served"
  /\ active' = [active EXCEPT ![c] = FALSE]
  /\ conn' = [conn EXCEPT ![c] = "leaving"]
  /\ UNCHANGED <<server, seen, live, active_sessions, Upkeep>>

\* run returns, from wherever; the vote's guard is dropped.
End(c) ==
  /\ conn[c] = "served"
  /\ active_sessions' = active_sessions + VoteChange(active[c], FALSE)
  /\ active' = [active EXCEPT ![c] = FALSE]
  /\ conn' = [conn EXCEPT ![c] = "leaving"]
  /\ UNCHANGED <<server, seen, live, Upkeep>>

\* Mutant: a session that ends keeps its slot.
ReleaseLeaks(c) ==
  /\ conn[c] = "leaving"
  /\ conn' = [conn EXCEPT ![c] = "none"]
  /\ UNCHANGED <<active, server, seen, live, active_sessions, Upkeep>>

\* The thread's closure ends; the slot's guard is dropped.
Release(c) ==
  /\ conn[c] = "leaving"
  /\ live' = live - 1
  /\ conn' = [conn EXCEPT ![c] = "none"]
  /\ UNCHANGED <<active, server, seen, active_sessions, Upkeep>>

-----------------------------------------------------------------------------
\* Housekeeping

\* Deletes and renames leave dead weight behind.
Waste ==
  /\ weight < 2
  /\ weight' = weight + 1
  /\ UNCHANGED <<Wire, paused, keeper>>

\* A tick: the pause switch, then both thresholds under the read lock.
Poll ==
  /\ keeper = "asleep" /\ ~paused /\ weight > 0
  /\ keeper' = IF weight = 2 THEN "must" ELSE "should"
  /\ UNCHANGED <<Wire, paused, weight>>

\* Past the soft threshold only a quiet machine is compacted.
Gate ==
  /\ keeper = "should"
  /\ keeper' = IF active_sessions = 0 THEN "compacting" ELSE "asleep"
  /\ UNCHANGED <<Wire, paused, weight>>

Compact ==
  /\ keeper \in {"must", "compacting"}
  /\ weight' = 0 /\ keeper' = "asleep"
  /\ UNCHANGED <<Wire, paused>>

AcceptStep == \/ \E c \in Clients : Accept(c) \/ Claim(c) \/ Refuse(c) \/ Spawn(c)
              \/ ClaimAgain
              \/ Rearm
Failure == AcceptFails \/ \E c \in Clients : SpawnFails(c)
Keep == Poll \/ Gate \/ Compact

Next ==
  \/ AcceptStep
  \/ Failure
  \/ \E c \in Clients : \/ Connect(c)
                        \/ Greet(c) \/ GreetFails(c)
                        \/ \E b \in BOOLEAN : Report(c, b) \/ SetPaused(c, b)
                        \/ End(c) \/ Release(c)
  \/ Waste
  \/ Keep

\* The service's own threads are scheduled, and a shell keeps trying to connect;
\* no client need ever say or end anything.
Fairness ==
  /\ WF_vars(AcceptStep)
  /\ WF_vars(Keep)
  /\ \A c \in Clients : WF_vars(Greet(c) \/ GreetFails(c)) /\ WF_vars(Release(c))
  /\ \A c \in Shells : WF_vars(Connect(c))

Spec == Init /\ [][Next]_vars
FairSpec == Spec /\ Fairness

-----------------------------------------------------------------------------
ServerTypeOK ==
  /\ conn \in [Clients -> {"none", "asking", "accepted"} \union Holding]
  /\ active \in [Clients -> BOOLEAN]
  /\ server \in {"accepting", "claiming", "spawning", "rearming"}
  /\ seen \in Nat /\ live \in Nat /\ active_sessions \in Nat
  /\ paused \in BOOLEAN /\ weight \in 0..2
  /\ keeper \in {"asleep", "should", "must", "compacting"}

\* The count try_acquire compares is the number of connections that hold a
\* slot, whoever gives theirs back while the accept loop is looking and
\* however a connection fails: no slot leaks and none is counted twice.
SlotsExact == live = Cardinality(Holders)

\* The service never serves more than MAX_CONNECTIONS clients at once.
CapHolds == Cardinality(Holders) <= MAX_CONNECTIONS

\* machine_idle counts the sessions that last reported themselves active: a
\* repeated report is not counted twice and a session that ends, however it
\* does, withdraws its vote.
VotesExact == active_sessions = Cardinality(Active)

\* Both counts, which nothing recomputes, are what they are taken for.
CountsExact == ServerTypeOK /\ SlotsExact /\ VotesExact

\* Unless left paused, an index past the hard threshold is compacted whoever
\* is active, and one past the soft threshold once no session is: no vote left
\* behind holds maintenance off for ever.
CompactsWhenAllowed ==
  \/ []<>paused
  \/ /\ weight = 2 ~> weight = 0
     /\ <>[](Active = {}) => []<>(weight = 0)

\* A shell turned away at the cap gets in when a slot frees: once the others
\* have come to rest below the cap and nothing fails, it is not left outside.
RefusedGetsIn ==
  \A c \in Shells :
    /\ <>[](/\ \A d \in Clients \ {c} : conn[d] \in {"none", "served"}
           /\ Cardinality(Holders \ {c}) < MAX_CONNECTIONS)
    /\ <>[][~Failure]_vars
    => []<>(conn[c] \in {"served", "leaving"})
=============================================================================
