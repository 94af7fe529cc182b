------------------------------- MODULE FileSet -------------------------------
(***************************************************************************)
(* What one volume's index promises its readers: a map from file           *)
(* references to the file they name, changed by one journal event at a     *)
(* time.  Slots, tombstones, arenas and compaction are all invisible here. *)
(***************************************************************************)
CONSTANTS Frn,      \* file reference numbers
          Parent,   \* what a file may name as its parent directory
          Name,     \* names a file may have
          Absent    \* the value of a reference the index does not hold

VARIABLE files      \* files[f]: the file f names, or Absent

File == [parent: Parent, name: Name, dir: BOOLEAN]

FSInit == files = [f \in Frn |-> Absent]

\* A file appears, or an existing reference is described anew.
Put(f, file) == files' = [files EXCEPT ![f] = file]

Drop(f) ==
    /\ files[f] # Absent
    /\ files' = [files EXCEPT ![f] = Absent]

\* A rename moves a file it knows and keeps what kind of file it is.
Move(f, p, n) ==
    /\ files[f] # Absent
    /\ files' = [files EXCEPT ![f] = [parent |-> p, name |-> n, dir |-> files[f].dir]]

FSNext == \E f \in Frn :
    \/ \E file \in File : Put(f, file)
    \/ Drop(f)
    \/ \E p \in Parent, n \in Name : Move(f, p, n)

FSSpec == FSInit /\ [][FSNext]_files
==============================================================================
