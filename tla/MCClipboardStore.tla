------------------------- MODULE MCClipboardStore -------------------------
(***************************************************************************)
(* Two texts, a list of one over a table of two. Of runs that differ in    *)
(* what bears on no property one is followed: an earlier session left t1   *)
(* if it left a row, and the history is paused and resumed with nothing    *)
(* listed, for only an idle listener looks at the switch.                  *)
(***************************************************************************)
EXTENDS ClipboardStore, TLC
CONSTANTS t1, t2, none
MCTexts  == {t1, t2}
MCTextNo == t1 :> 1 @@ t2 :> 2

AtRest == loader.pc = "done" /\ cap.pc = "idle" /\ index = <<>> /\ given = {}
MCInit == ClipInit /\ \A r \in disk : r.text = t1
MCNext == ClipNext /\ (enabled' # enabled => AtRest)
MCSpec == MCInit /\ [][MCNext]_clipVars
=============================================================================
