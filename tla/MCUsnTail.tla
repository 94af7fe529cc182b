------------------------------- MODULE MCUsnTail -------------------------------
(* Two references and two names.  Names are interchangeable, so the volumes a *)
(* run starts from are taken up to renaming: b is only there after an a.      *)
(* Answers of up to three records, whole, unpadded and malformed ones.        *)
EXTENDS VolumeStart
CONSTANTS root, a, b, x
Named(v, f, n) == v[f] # Absent /\ v[f].name = n
MCVolumes ==
    {v \in [Frn -> [parent : Parent, name : Given] \union {Absent}] :
        \A f \in Frn : Named(v, f, b) => \E g \in 1..(f - 1) : Named(v, g, a)}

Rec(len, version, off, n, num) ==
    [len |-> len, version |-> version, nameOff |-> off, nameLen |-> n, number |-> num]
MCRecords == {Rec(62, 2, 60, 2, 20), Rec(64, 2, 60, 4, 21), Rec(64, 2, 60, 2, 5),
              Rec(80, 3, 60, 4, 22), Rec(64, 2, 60, 3, 23), Rec(64, 2, 62, 4, 24),
              Rec(64, 2, 58, 2, 25), Rec(40, 2, 60, 2, 26), Rec(0, 2, 60, 2, 27)}
================================================================================
