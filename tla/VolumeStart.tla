------------------------------ MODULE VolumeStart ------------------------------
(* A volume's thread: how its files are first found, then the tail of its     *)
(* journal.                                                                   *)
EXTENDS UsnTail, VolumeScan

\* A volume is found whole before its journal is followed: its records, its MFT, its
\* tree, and the volumes beside it.
FoundWhole == TailInit => RecordsAreRead /\ ScanIsWhole /\ WalkReachesAll /\ VolumesStandAlone
================================================================================
