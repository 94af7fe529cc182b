--------------------------- MODULE MCShellSettings ---------------------------
(***************************************************************************)
(* Three chords, one of them refused. The settings, the tray and the       *)
(* shell's own file search share no state, so a behaviour is one of one of *)
(* them while the others rest where they started: two connections and      *)
(* three requests on their way at most for the tray, and for the search up *)
(* to four rows, read three at a time.                                     *)
(***************************************************************************)
EXTENDS ShellSettings, Tray, WindowsSearch

MCDefaults == [chord |-> "AltSpace", source |-> "shell", crash |-> FALSE, clip |-> TRUE]

VARIABLE moves  \* which of the three does
MCvars == <<vars, trayVars, searchVars, moves>>

MCInit ==
  /\ Init /\ TrayInit /\ SearchInit /\ moves \in {"settings", "tray", "search"}
  /\ moves # "settings" => taken = {}
  /\ moves # "tray" => ~service /\ ~run
  /\ moves # "search" => ~blank /\ max = 0 /\ rowset = <<>>

MCNext ==
  \/ moves = "settings" /\ Next /\ UNCHANGED <<trayVars, searchVars, moves>>
  \/ moves = "tray" /\ TrayNext /\ UNCHANGED <<vars, searchVars, moves>>
  \/ moves = "search" /\ SearchNext /\ UNCHANGED <<vars, trayVars, moves>>

MCSpec == MCInit /\ [][MCNext]_MCvars
=============================================================================
