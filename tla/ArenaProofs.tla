----------------------------- MODULE ArenaProofs -----------------------------
(***************************************************************************)
(* Proofs about the name arenas and the passes of the matcher over them,   *)
(* for any names, any table size and any arena cap. The arenas, the spans, *)
(* the columns and the presence sets hold what the table says after every  *)
(* mutation and after a compaction that moves every record; and a pass     *)
(* that scans raw bytes, lanes and segments, skips by a column, a mask or  *)
(* a presence set and refines what it meets, finds the files and the       *)
(* places that reading each live name one by one would find.               *)
(***************************************************************************)
EXTENDS IndexProofs

-----------------------------------------------------------------------------
(* The arenas.                                                             *)

\* Where a record and the fence after it end, and where one appended to flen bytes
\* would start.
EndOf(rs, flen, r) == IF r = Len(rs) THEN flen ELSE rs[r + 1].off
NewOff(flen) == IF flen = 0 THEN 1 ELSE flen

Rec == [off : Nat, slot : Nat]
Mine(fo, live, rec) == rec.slot \in live /\ fo[rec.slot] = rec.off

\* The first flen bytes of the folded arena: records one after another, the first
\* behind a fence and each before one; a live slot's own record spells its name,
\* any other record is fences.
FoldedLaid(fb, flen, fo, rs, live, es) ==
  /\ rs = <<>> <=> flen = 0
  /\ rs # <<>> => rs[1].off = 1 /\ fb[1] = Fence
  /\ \A r \in 1..Len(rs) :
       LET end == EndOf(rs, flen, r)
       IN  /\ rs[r].off + 1 < end /\ end <= flen /\ fb[end] = Fence
           /\ ~Mine(fo, live, rs[r]) => \A i \in (rs[r].off + 1)..(end - 1) : fb[i] = Fence
  /\ \A r, q \in 1..Len(rs) : r < q => EndOf(rs, flen, r) <= rs[q].off
  /\ \A s \in live : \E r \in 1..Len(rs) :
       /\ rs[r].slot = s /\ rs[r].off = fo[s] /\ es[s].name \in Name \ BadName
       /\ EndOf(rs, flen, r) = fo[s] + Len(Folded[es[s].name]) + 1
       /\ \A j \in 1..Len(Folded[es[s].name]) : fb[fo[s] + j] = Folded[es[s].name][j]

\* The first nlen bytes of the name arena: each live name in the order of the folded
\* ones, none over another.
NamesLaid(nb, nlen, no, fo, live, es) ==
  /\ \A s \in live : /\ no[s] \in Nat /\ no[s] + Len(Orig[es[s].name]) <= nlen
                     /\ \A j \in 1..Len(Orig[es[s].name]) : nb[no[s] + j] = Orig[es[s].name][j]
  /\ \A s, t \in live : fo[s] < fo[t] => no[s] + Len(Orig[es[s].name]) <= no[t]

\* A usable name's bytes.
LEMMA NameBytes ==
  ASSUME NEW n \in Name \ BadName
  PROVE  /\ Folded[n] \in Seq(Nat \ {Fence}) /\ Len(Folded[n]) \in Nat /\ Len(Folded[n]) > 0
         /\ DOMAIN Folded[n] = 1..Len(Folded[n])
         /\ \A j \in 1..Len(Folded[n]) : Folded[n][j] \in Nat /\ Folded[n][j] # Fence
         /\ Orig[n] \in Seq(Nat) /\ Len(Orig[n]) \in Nat /\ DOMAIN Orig[n] = 1..Len(Orig[n])
         /\ \A j \in 1..Len(Orig[n]) : Orig[n][j] \in Nat
         /\ Initials[n] \in Seq(Nat \ {Fence}) /\ Len(Initials[n]) \in 0..LaneWidth
<1>1. /\ Folded[n] \in Seq(Nat \ {Fence}) /\ Folded[n] # <<>> /\ Orig[n] \in Seq(Nat)
      /\ Initials[n] \in Seq(Nat \ {Fence}) /\ Len(Initials[n]) <= LaneWidth /\ LaneWidth \in Nat
  BY ArenaAssumption, Zenon
<1>2. Len(Folded[n]) \in Nat /\ Len(Folded[n]) > 0 /\ DOMAIN Folded[n] = 1..Len(Folded[n])
  BY <1>1
<1>3. \A j \in 1..Len(Folded[n]) : Folded[n][j] \in Nat \ {Fence}
  BY <1>1
<1>4. Len(Orig[n]) \in Nat /\ DOMAIN Orig[n] = 1..Len(Orig[n])
  BY <1>1
<1>5. \A j \in 1..Len(Orig[n]) : Orig[n][j] \in Nat
  BY <1>1
<1>6. Len(Initials[n]) \in 0..LaneWidth
  BY <1>1
<1> QED
  BY <1>1, <1>2, <1>3, <1>4, <1>5, <1>6

\* fb2 is fb with a folded name put after its first flen bytes, between fences.
FoldedAdded(fb, fb2, flen, n) ==
  /\ \A i \in 1..flen : fb2[i] = fb[i]
  /\ fb2[1] = Fence
  /\ \A j \in 1..Len(Folded[n]) : fb2[NewOff(flen) + j] = Folded[n][j]
  /\ fb2[NewOff(flen) + Len(Folded[n]) + 1] = Fence

\* nb2 is nb with a name put after its first nlen bytes.
NamesAdded(nb, nb2, nlen, n) ==
  /\ \A i \in 1..nlen : nb2[i] = nb[i]
  /\ \A j \in 1..Len(Orig[n]) : nb2[nlen + j] = Orig[n][j]

\* The live slots keep what the column and the table say of them.
Stays(live, col, col2) == \A t \in live : col2[t] = col[t]
Named(live, es, es2) == \A t \in live : es2[t].name = es[t].name

\* Appending a name to the folded arena, in place or at its end.
LEMMA FoldedExtends ==
  ASSUME NEW fb, NEW fb2, NEW flen \in Nat, NEW fo, NEW fo2, NEW rs \in Seq(Rec),
         NEW live, NEW es, NEW es2, NEW s \in Nat, s \notin live, NEW n \in Name \ BadName,
         FoldedLaid(fb, flen, fo, rs, live, es),
         FoldedAdded(fb, fb2, flen, n), fo2[s] = NewOff(flen), es2[s].name = n,
         Stays(live, fo, fo2), Named(live, es, es2)
  PROVE  FoldedLaid(fb2, NewOff(flen) + Len(Folded[n]) + 1, fo2,
                    Append(rs, [off |-> NewOff(flen), slot |-> s]), live \cup {s}, es2)
<1> DEFINE off == NewOff(flen)
           w == Folded[n]
           new == off + Len(w) + 1
           rs2 == Append(rs, [off |-> off, slot |-> s])
           k == Len(rs)
<1>0. /\ \A i \in 1..flen : fb2[i] = fb[i]
      /\ fb2[1] = Fence
      /\ \A j \in 1..Len(Folded[n]) : fb2[NewOff(flen) + j] = Folded[n][j]
      /\ fb2[NewOff(flen) + Len(Folded[n]) + 1] = Fence
      /\ \A t \in live : fo2[t] = fo[t] /\ es2[t].name = es[t].name
  BY DEF FoldedAdded, Stays, Named
<1>1. Len(w) \in Nat /\ Len(w) > 0
  BY NameBytes
<1>2. off \in Nat /\ off > 0 /\ flen <= off /\ new \in Nat /\ (flen = 0 => off = 1) /\ (flen # 0 => off = flen)
  <2>1. off \in Nat /\ off > 0 /\ flen <= off /\ (flen = 0 => off = 1) /\ (flen # 0 => off = flen)
    BY DEF NewOff
  <2> HIDE DEF off, w
  <2> QED
    BY <1>1, <2>1
<1>3. /\ k \in Nat /\ Len(rs2) = k + 1 /\ \A r \in 1..k : rs2[r] = rs[r] /\ rs[r] \in Rec
      /\ rs2[k + 1] = [off |-> off, slot |-> s] /\ rs2 # <<>>
  <2> DEFINE x == [off |-> off, slot |-> s]
  <2>1. x \in Rec
    BY <1>2 DEF Rec
  <2> HIDE DEF x, Rec
  <2> QED
    BY <2>1, AppendProperties
<1>4. \A r \in 1..k : rs[r].off \in Nat /\ rs[r].slot \in Nat
  BY <1>3, Zenon DEF Rec
<1>5. rs2[k + 1].off = off /\ rs2[k + 1].slot = s
  BY <1>3
<1> HIDE DEF off, w, new, rs2, k
<1>6. /\ k = 0 <=> flen = 0
      /\ k # 0 => rs[1].off = 1 /\ fb[1] = Fence
      /\ \A r \in 1..k : /\ rs[r].off + 1 < EndOf(rs, flen, r) /\ EndOf(rs, flen, r) <= flen
                         /\ fb[EndOf(rs, flen, r)] = Fence
                         /\ ~Mine(fo, live, rs[r]) =>
                              \A i \in (rs[r].off + 1)..(EndOf(rs, flen, r) - 1) : fb[i] = Fence
      /\ \A r, q \in 1..k : r < q => EndOf(rs, flen, r) <= rs[q].off
  BY DEF FoldedLaid, k
<1>7. \A r \in 1..k : EndOf(rs, flen, r) \in Nat
  <2> TAKE r \in 1..k
  <2>1. CASE r = Len(rs)
    BY <2>1 DEF EndOf
  <2>2. CASE r # Len(rs)
    BY <2>2, <1>3, <1>4 DEF EndOf, k
  <2> QED
    BY <2>1, <2>2
<1>8. \A r \in 1..k : EndOf(rs2, new, r) = EndOf(rs, flen, r)
  <2> TAKE r \in 1..k
  <2>1. CASE r = k
    <3>1. flen # 0
      BY <1>3, <1>6, <2>1
    <3> QED
      BY <2>1, <3>1, <1>2, <1>3, <1>5 DEF EndOf, k
  <2>2. CASE r # k
    <3>1. r + 1 \in 1..k
      BY <1>3, <2>2
    <3> QED
      BY <2>2, <3>1, <1>3 DEF EndOf, k
  <2> QED
    BY <2>1, <2>2
<1>9. EndOf(rs2, new, k + 1) = new
  BY <1>3 DEF EndOf
<1>10. \A r \in 1..k : rs[r].off < flen
  BY <1>4, <1>6, <1>7
<1>11. rs2[1].off = 1 /\ fb2[1] = Fence
  <2>1. CASE k = 0
    BY <1>0, <2>1, <1>2, <1>5, <1>6
  <2>2. CASE k # 0
    BY <1>0, <2>2, <1>3, <1>6
  <2> QED
    BY <2>1, <2>2
<1>12. \A r \in 1..k : ~Mine(fo2, live \cup {s}, rs[r]) => ~Mine(fo, live, rs[r])
  BY <1>0 DEF Mine
<1>13. ASSUME NEW r \in 1..(k + 1)
       PROVE  /\ rs2[r].off + 1 < EndOf(rs2, new, r) /\ EndOf(rs2, new, r) <= new
              /\ fb2[EndOf(rs2, new, r)] = Fence
              /\ ~Mine(fo2, live \cup {s}, rs2[r]) =>
                   \A i \in (rs2[r].off + 1)..(EndOf(rs2, new, r) - 1) : fb2[i] = Fence
  <2>1. CASE r = k + 1
    <3>1. Mine(fo2, live \cup {s}, rs2[r])
      BY <2>1, <1>5 DEF Mine, off
    <3>2. fb2[new] = Fence
      BY <1>0 DEF new, off, w
    <3>3. off + 1 < new
      BY <1>1, <1>2 DEF new
    <3> QED
      BY <2>1, <3>1, <3>2, <3>3, <1>2, <1>5, <1>9
  <2>2. CASE r # k + 1
    <3>1. r \in 1..k /\ rs2[r] = rs[r] /\ EndOf(rs2, new, r) = EndOf(rs, flen, r)
      BY <2>2, <1>3, <1>8
    <3>2. EndOf(rs, flen, r) \in 1..flen /\ flen <= new
      BY <3>1, <1>1, <1>2, <1>4, <1>6, <1>7 DEF new
    <3>3. ~Mine(fo2, live \cup {s}, rs[r]) =>
            \A i \in (rs[r].off + 1)..(EndOf(rs, flen, r) - 1) : fb2[i] = Fence
      <4> SUFFICES ASSUME ~Mine(fo2, live \cup {s}, rs[r]),
                          NEW i \in (rs[r].off + 1)..(EndOf(rs, flen, r) - 1)
                   PROVE  fb2[i] = Fence
        OBVIOUS
      <4>1. fb[i] = Fence
        BY <3>1, <1>6, <1>12, Zenon
      <4>2. i \in 1..flen
        BY <3>1, <3>2, <1>4
      <4> QED
        BY <1>0, <4>1, <4>2
    <3>4. fb2[EndOf(rs, flen, r)] = Fence
      BY <1>0, <3>1, <3>2, <1>6
    <3> QED
      BY <3>1, <3>2, <3>3, <3>4, <1>2, <1>6
  <2> QED
    BY <2>1, <2>2
<1>14. ASSUME NEW r \in 1..(k + 1), NEW q \in 1..(k + 1), r < q
       PROVE  EndOf(rs2, new, r) <= rs2[q].off
  <2>1. r \in 1..k
    BY <1>3, <1>14
  <2>2. CASE q = k + 1
    BY <2>1, <2>2, <1>2, <1>5, <1>6, <1>7, <1>8
  <2>3. CASE q # k + 1
    BY <2>1, <2>3, <1>3, <1>6, <1>8, <1>14
  <2> QED
    BY <2>2, <2>3
<1>15. ASSUME NEW t \in live \cup {s}
       PROVE  \E r \in 1..(k + 1) :
                /\ rs2[r].slot = t /\ rs2[r].off = fo2[t] /\ es2[t].name \in Name \ BadName
                /\ EndOf(rs2, new, r) = fo2[t] + Len(Folded[es2[t].name]) + 1
                /\ \A j \in 1..Len(Folded[es2[t].name]) : fb2[fo2[t] + j] = Folded[es2[t].name][j]
  <2>1. CASE t = s
    <3>1. \A j \in 1..Len(w) : fb2[off + j] = w[j]
      BY <1>0 DEF off, w
    <3>2. es2[t].name = n /\ fo2[t] = off
      BY <2>1 DEF off
    <3>3. k + 1 \in 1..(k + 1)
      BY <1>3
    <3> QED
      BY <2>1, <3>1, <3>2, <3>3, <1>5, <1>9, Zenon DEF new, w
  <2>2. CASE t # s
    <3>1. t \in live
      BY <2>2
    <3>2. PICK r \in 1..k :
             /\ rs[r].slot = t /\ rs[r].off = fo[t] /\ es[t].name \in Name \ BadName
             /\ EndOf(rs, flen, r) = fo[t] + Len(Folded[es[t].name]) + 1
             /\ \A j \in 1..Len(Folded[es[t].name]) : fb[fo[t] + j] = Folded[es[t].name][j]
      BY <3>1 DEF FoldedLaid, k
    <3>3. fo2[t] = fo[t] /\ es2[t].name = es[t].name
      BY <1>0, <3>1
    <3>4. r \in 1..(k + 1) /\ rs2[r] = rs[r] /\ EndOf(rs2, new, r) = EndOf(rs, flen, r)
      BY <1>3, <1>8
    <3>5. ASSUME NEW j \in 1..Len(Folded[es[t].name]) PROVE fb2[fo[t] + j] = Folded[es[t].name][j]
      <4>1. fo[t] \in Nat
        BY <3>2, <1>4, Zenon
      <4>2. Len(Folded[es[t].name]) \in Nat
        BY <3>2, NameBytes
      <4>3. fo[t] + j \in 1..flen
        BY <3>2, <4>1, <4>2, <1>6, SMTT(30)
      <4> QED
        BY <1>0, <3>2, <4>3
    <3> QED
      BY <3>2, <3>3, <3>4, <3>5
  <2> QED
    BY <2>1, <2>2
<1>16. (rs2 = <<>> <=> new = 0)
  BY <1>1, <1>2, <1>3 DEF new
<1>17. Len(rs2) = k + 1
  BY <1>3
<1>18. FoldedLaid(fb2, new, fo2, rs2, live \cup {s}, es2)
  <2> HIDE DEF EndOf, Mine
  <2> QED
    BY <1>11, <1>13, <1>14, <1>15, <1>16, <1>17, ZenonT(60) DEF FoldedLaid
<1> QED
  BY <1>18 DEF new, rs2, off, w

\* What every record has, whoever it is.
Records(fb, flen, rs) ==
  /\ Len(rs) \in Nat
  /\ \A r \in 1..Len(rs) :
       /\ rs[r].off \in Nat /\ rs[r].slot \in Nat /\ rs[r].off > 0
       /\ EndOf(rs, flen, r) \in Nat /\ EndOf(rs, flen, r) <= flen
       /\ rs[r].off + 1 < EndOf(rs, flen, r)
       /\ fb[rs[r].off] = Fence /\ fb[EndOf(rs, flen, r)] = Fence
  /\ \A r, q \in 1..Len(rs) : r < q => /\ EndOf(rs, flen, r) <= rs[q].off
                                       /\ rs[r].off < rs[q].off
  /\ \A r, q \in 1..Len(rs) : rs[r].off = rs[q].off => r = q

\* Laid records start after the fence and leave room for their names.
LEMMA RecordFacts ==
  ASSUME NEW fb, NEW flen \in Nat, NEW fo, NEW rs \in Seq(Rec), NEW live, NEW es,
         FoldedLaid(fb, flen, fo, rs, live, es)
  PROVE  Records(fb, flen, rs)
<1> DEFINE k == Len(rs)
<1>1. k \in Nat /\ \A r \in 1..k : rs[r].off \in Nat /\ rs[r].slot \in Nat
  <2>1. k \in Nat /\ \A r \in 1..k : rs[r] \in Rec
    OBVIOUS
  <2> QED
    BY <2>1, Zenon DEF Rec
<1>2. rs # <<>> => k # 0
  OBVIOUS
<1> HIDE DEF k
<1>3. /\ k # 0 => rs[1].off = 1 /\ fb[1] = Fence
      /\ \A r \in 1..k : /\ rs[r].off + 1 < EndOf(rs, flen, r) /\ EndOf(rs, flen, r) <= flen
                         /\ fb[EndOf(rs, flen, r)] = Fence
      /\ \A r, q \in 1..k : r < q => EndOf(rs, flen, r) <= rs[q].off
  BY DEF FoldedLaid, k
<1>4. \A r \in 1..k : EndOf(rs, flen, r) \in Nat
  <2> TAKE r \in 1..k
  <2>1. CASE r = Len(rs)
    BY <2>1 DEF EndOf
  <2>2. CASE r # Len(rs)
    BY <2>2, <1>1 DEF EndOf, k
  <2> QED
    BY <2>1, <2>2
<1>5. ASSUME NEW r \in 1..k PROVE rs[r].off > 0 /\ fb[rs[r].off] = Fence
  <2>1. CASE r = 1
    BY <2>1, <1>1, <1>3
  <2>2. CASE r # 1
    <3>1. r - 1 \in 1..k /\ r - 1 # k /\ (r - 1) + 1 = r
      BY <2>2, <1>1
    <3>2. EndOf(rs, flen, r - 1) = rs[r].off
      BY <3>1 DEF EndOf, k
    <3> QED
      BY <3>1, <3>2, <1>1, <1>3
  <2> QED
    BY <2>1, <2>2
<1>6. ASSUME NEW r \in 1..k, NEW q \in 1..k, r < q
      PROVE  EndOf(rs, flen, r) <= rs[q].off /\ rs[r].off < rs[q].off
  BY <1>1, <1>3, <1>4, <1>6, SMTT(30)
<1>7. ASSUME NEW r \in 1..k, NEW q \in 1..k, rs[r].off = rs[q].off PROVE r = q
  <2>1. ~(r < q) /\ ~(q < r)
    BY <1>1, <1>6, <1>7, SMTT(30)
  <2> QED
    BY <2>1, <1>1
<1> QED
  BY <1>1, <1>3, <1>4, <1>5, <1>6, <1>7, Zenon DEF k, Records

\* The record of a live slot, which is the only one at its offset.
Owns(fb, flen, fo, rs, live, es, s) ==
  /\ es[s].name \in Name \ BadName /\ fo[s] \in Nat /\ s \in Nat
  /\ fo[s] > 0 /\ fo[s] + Len(Folded[es[s].name]) + 1 <= flen
  /\ fb[fo[s]] = Fence /\ fb[fo[s] + Len(Folded[es[s].name]) + 1] = Fence
  /\ \A j \in 1..Len(Folded[es[s].name]) : fb[fo[s] + j] = Folded[es[s].name][j]
  /\ \E r \in 1..Len(rs) :
       /\ rs[r].slot = s /\ rs[r].off = fo[s] /\ Mine(fo, live, rs[r])
       /\ EndOf(rs, flen, r) = fo[s] + Len(Folded[es[s].name]) + 1

\* Each live slot owns the one record its offset names.
LEMMA OwnRecord ==
  ASSUME NEW fb, NEW flen \in Nat, NEW fo, NEW rs \in Seq(Rec), NEW live, NEW es,
         FoldedLaid(fb, flen, fo, rs, live, es)
  PROVE  \A s \in live : Owns(fb, flen, fo, rs, live, es, s)
<1> TAKE s \in live
<1>0. Records(fb, flen, rs)
  BY RecordFacts
<1>1. PICK r \in 1..Len(rs) :
         /\ rs[r].slot = s /\ rs[r].off = fo[s] /\ es[s].name \in Name \ BadName
         /\ EndOf(rs, flen, r) = fo[s] + Len(Folded[es[s].name]) + 1
         /\ \A j \in 1..Len(Folded[es[s].name]) : fb[fo[s] + j] = Folded[es[s].name][j]
  BY DEF FoldedLaid
<1>2. /\ rs[r].off \in Nat /\ rs[r].slot \in Nat /\ rs[r].off > 0
      /\ EndOf(rs, flen, r) <= flen /\ fb[rs[r].off] = Fence /\ fb[EndOf(rs, flen, r)] = Fence
  BY <1>0, <1>1, Zenon DEF Records
<1>3. Mine(fo, live, rs[r])
  BY <1>1 DEF Mine
<1> QED
  BY <1>1, <1>2, <1>3 DEF Owns

\* fb2 is fb with len bytes after off fenced over.
Fenced(fb, fb2, flen, off, len) ==
  \A i \in 1..flen : fb2[i] = IF i - 1 \in off..(off + len - 1) THEN Fence ELSE fb[i]

\* Fencing over a live slot's folded name makes its record nobody's.
LEMMA FoldedErased ==
  ASSUME NEW fb, NEW fb2, NEW flen \in Nat, NEW fo, NEW rs \in Seq(Rec), NEW live, NEW es, NEW es2,
         FoldedLaid(fb, flen, fo, rs, live, es), NEW s \in live,
         Fenced(fb, fb2, flen, fo[s], Len(Folded[es[s].name])),
         \A t \in live \ {s} : es2[t].name = es[t].name
  PROVE  FoldedLaid(fb2, flen, fo, rs, live \ {s}, es2)
<1> DEFINE k == Len(rs)
           len == Len(Folded[es[s].name])
           At2(i) == i - 1 \in fo[s]..(fo[s] + len - 1)
<1>a. Records(fb, flen, rs) /\ \A t \in live : Owns(fb, flen, fo, rs, live, es, t)
  BY RecordFacts, OwnRecord
<1>1. PICK x \in 1..k : /\ rs[x].slot = s /\ rs[x].off = fo[s]
                        /\ EndOf(rs, flen, x) = fo[s] + len + 1
  BY <1>a, Zenon DEF Owns
<1>2. es[s].name \in Name \ BadName /\ fo[s] \in Nat /\ fo[s] > 0 /\ len \in Nat /\ len > 0
  BY <1>a, NameBytes DEF Owns
<1>3. /\ k \in Nat
      /\ \A r \in 1..k :
           /\ rs[r].off \in Nat /\ rs[r].slot \in Nat /\ rs[r].off > 0
           /\ EndOf(rs, flen, r) \in Nat /\ EndOf(rs, flen, r) <= flen
           /\ rs[r].off + 1 < EndOf(rs, flen, r)
           /\ fb[EndOf(rs, flen, r)] = Fence
      /\ \A r, q \in 1..k : r < q => EndOf(rs, flen, r) <= rs[q].off
      /\ \A r, q \in 1..k : rs[r].off = rs[q].off => r = q
  BY <1>a DEF Records
<1>4. /\ rs = <<>> <=> flen = 0
      /\ rs # <<>> => rs[1].off = 1 /\ fb[1] = Fence
      /\ \A r \in 1..k : ~Mine(fo, live, rs[r]) =>
           \A i \in (rs[r].off + 1)..(EndOf(rs, flen, r) - 1) : fb[i] = Fence
  BY DEF FoldedLaid
<1> HIDE DEF k, len
<1>5. \A i \in 1..flen : fb2[i] = IF At2(i) THEN Fence ELSE fb[i]
  BY DEF len, Fenced
<1>6. \A i \in 1..flen : fb[i] = Fence => fb2[i] = Fence
  BY <1>5
\* No other record has a byte there.
<1>7. ASSUME NEW r \in 1..k, r # x, NEW i \in (rs[r].off + 1)..(EndOf(rs, flen, r) - 1)
      PROVE  i \in 1..flen /\ fb2[i] = fb[i]
  <2>1. i \in 1..flen
    BY <1>3
  <2>2. ~At2(i)
    <3>1. CASE r < x
      <4> DEFINE end == EndOf(rs, flen, r)
                 off == rs[r].off
      <4>1. end <= fo[s] /\ end \in Nat /\ off \in Nat /\ i \in (off + 1)..(end - 1)
        BY <3>1, <1>1, <1>3, Zenon
      <4> HIDE DEF end, off
      <4>2. i - 1 < fo[s]
        BY <4>1, <1>2
      <4> QED
        BY <4>1, <4>2, <1>2
    <3>2. CASE x < r
      <4> DEFINE end == EndOf(rs, flen, r)
                 off == rs[r].off
      <4>1. fo[s] + len + 1 <= off /\ end \in Nat /\ off \in Nat /\ i \in (off + 1)..(end - 1)
        BY <3>2, <1>1, <1>3
      <4> HIDE DEF end, off
      <4>2. i - 1 > fo[s] + len - 1
        BY <4>1, <1>2, SMTT(30)
      <4> QED
        BY <4>1, <4>2, <1>2
    <3> QED
      BY <3>1, <3>2, <1>3, <1>7
  <2> QED
    BY <2>1, <2>2, <1>5
<1>8. rs # <<>> => rs[1].off = 1 /\ fb2[1] = Fence
  <2>1. rs # <<>> => 1 \in 1..flen
    BY <1>4
  <2> QED
    BY <2>1, <1>4, <1>6
<1>9. ASSUME NEW r \in 1..k
      PROVE  /\ rs[r].off + 1 < EndOf(rs, flen, r) /\ EndOf(rs, flen, r) <= flen
             /\ fb2[EndOf(rs, flen, r)] = Fence
             /\ ~Mine(fo, live \ {s}, rs[r]) =>
                  \A i \in (rs[r].off + 1)..(EndOf(rs, flen, r) - 1) : fb2[i] = Fence
  <2>1. EndOf(rs, flen, r) \in 1..flen
    <3> DEFINE end == EndOf(rs, flen, r)
               off == rs[r].off
    <3>1. end \in Nat /\ off \in Nat /\ end <= flen /\ off + 1 < end
      BY <1>3
    <3> HIDE DEF end, off
    <3>2. end \in 1..flen
      BY <3>1
    <3> QED
      BY <3>2 DEF end
  <2>2. CASE r = x
    <3>1. \A i \in (rs[r].off + 1)..(EndOf(rs, flen, r) - 1) : fb2[i] = Fence
      <4> TAKE i \in (rs[r].off + 1)..(EndOf(rs, flen, r) - 1)
      <4>1. i \in 1..flen
        BY <1>3
      <4>2. At2(i)
        BY <2>2, <1>1, <1>2
      <4> QED
        BY <4>1, <4>2, <1>5
    <3> QED
      BY <2>1, <3>1, <1>3, <1>6, Zenon
  <2>3. CASE r # x
    <3>1. ~Mine(fo, live \ {s}, rs[r]) => ~Mine(fo, live, rs[r])
      <4>1. rs[r].slot # s \/ rs[r].off # fo[s]
        BY <2>3, <1>1, <1>3
      <4> QED
        BY <4>1 DEF Mine
    <3>2. ~Mine(fo, live, rs[r]) => \A i \in (rs[r].off + 1)..(EndOf(rs, flen, r) - 1) : fb[i] = Fence
      BY <1>4
    <3>3. \A i \in (rs[r].off + 1)..(EndOf(rs, flen, r) - 1) : fb2[i] = fb[i]
      BY <2>3, <1>7
    <3>4. ~Mine(fo, live \ {s}, rs[r]) =>
             \A i \in (rs[r].off + 1)..(EndOf(rs, flen, r) - 1) : fb2[i] = Fence
      BY <3>1, <3>2, <3>3
    <3> QED
      BY <2>1, <3>4, <1>3, <1>6
  <2> QED
    BY <2>2, <2>3
<1>10. ASSUME NEW t \in live \ {s}
       PROVE  \E r \in 1..k :
                /\ rs[r].slot = t /\ rs[r].off = fo[t] /\ es2[t].name \in Name \ BadName
                /\ EndOf(rs, flen, r) = fo[t] + Len(Folded[es2[t].name]) + 1
                /\ \A j \in 1..Len(Folded[es2[t].name]) : fb2[fo[t] + j] = Folded[es2[t].name][j]
  <2>1. PICK r \in 1..k :
           /\ rs[r].slot = t /\ rs[r].off = fo[t]
           /\ EndOf(rs, flen, r) = fo[t] + Len(Folded[es[t].name]) + 1
    BY <1>a, Zenon DEF k, Owns
  <2>2. /\ \A j \in 1..Len(Folded[es[t].name]) : fb[fo[t] + j] = Folded[es[t].name][j]
        /\ es[t].name \in Name \ BadName /\ fo[t] \in Nat
    BY <1>a, Zenon DEF Owns
  <2>3. Len(Folded[es[t].name]) \in Nat
    BY <2>2, NameBytes
  <2>4. r # x
    BY <2>1, <1>1
  <2>5. \A j \in 1..Len(Folded[es[t].name]) : fb2[fo[t] + j] = Folded[es[t].name][j]
    <3> TAKE j \in 1..Len(Folded[es[t].name])
    <3>1. fo[t] + j \in (rs[r].off + 1)..(EndOf(rs, flen, r) - 1)
      <4> DEFINE m == Len(Folded[es[t].name])
      <4>1. j \in Nat /\ m \in Nat /\ fo[t] \in Nat /\ j \in 1..m
        BY <2>2, <2>3
      <4>2. rs[r].off = fo[t] /\ EndOf(rs, flen, r) = fo[t] + m + 1
        BY <2>1, Zenon
      <4> HIDE DEF m
      <4> DEFINE begin == rs[r].off
                 end == EndOf(rs, flen, r)
                 f == fo[t]
      <4>3. begin = f /\ end = f + m + 1 /\ f \in Nat
        BY <4>1, <4>2, Zenon
      <4> HIDE DEF begin, end, f
      <4>4. f + j \in (begin + 1)..(end - 1)
        BY <4>1, <4>3
      <4> QED
        BY <4>4, Zenon DEF begin, end, f
    <3>2. fb2[fo[t] + j] = fb[fo[t] + j]
      BY <2>4, <3>1, <1>7, Zenon
    <3> QED
      BY <2>2, <3>2
  <2>6. es2[t].name = es[t].name
    OBVIOUS
  <2> QED
    BY <2>1, <2>2, <2>5, <2>6
<1> HIDE DEF Mine, EndOf
<1> QED
  BY <1>3, <1>4, <1>8, <1>9, <1>10, Zenon DEF FoldedLaid, k

\* A name appended to the name arena comes after all others.
LEMMA NamesExtend ==
  ASSUME NEW nb, NEW nb2, NEW nlen \in Nat, NEW no, NEW no2, NEW fo, NEW fo2,
         NEW live, NEW es, NEW es2, NEW s, s \notin live, NEW n \in Name \ BadName,
         NamesLaid(nb, nlen, no, fo, live, es),
         \A t \in live : es[t].name \in Name \ BadName,
         \A t \in live : fo[t] \in Nat /\ fo[t] < fo2[s],
         NamesAdded(nb, nb2, nlen, n), no2[s] = nlen, fo2[s] \in Nat, es2[s].name = n,
         Stays(live, fo, fo2), Stays(live, no, no2), Named(live, es, es2)
  PROVE  NamesLaid(nb2, nlen + Len(Orig[n]), no2, fo2, live \cup {s}, es2)
<1>0. /\ \A i \in 1..nlen : nb2[i] = nb[i]
      /\ \A j \in 1..Len(Orig[n]) : nb2[nlen + j] = Orig[n][j]
      /\ \A t \in live : fo2[t] = fo[t] /\ no2[t] = no[t] /\ es2[t].name = es[t].name
  BY DEF NamesAdded, Stays, Named
<1>1. Len(Orig[n]) \in Nat
  BY NameBytes
<1>2. ASSUME NEW t \in live \cup {s}
      PROVE  /\ no2[t] \in Nat /\ no2[t] + Len(Orig[es2[t].name]) <= nlen + Len(Orig[n])
             /\ \A j \in 1..Len(Orig[es2[t].name]) : nb2[no2[t] + j] = Orig[es2[t].name][j]
  <2>1. CASE t = s
    BY <1>0, <2>1, <1>1, SMTT(30)
  <2>2. CASE t # s
    <3>1. /\ t \in live /\ no2[t] = no[t] /\ es2[t].name = es[t].name
          /\ Len(Orig[es[t].name]) \in Nat
      BY <1>0, <2>2, NameBytes
    <3>2. /\ no[t] \in Nat /\ no[t] + Len(Orig[es[t].name]) <= nlen
          /\ \A j \in 1..Len(Orig[es[t].name]) : nb[no[t] + j] = Orig[es[t].name][j]
      BY <3>1 DEF NamesLaid
    <3>3. \A j \in 1..Len(Orig[es[t].name]) : nb2[no[t] + j] = Orig[es[t].name][j]
      <4> TAKE j \in 1..Len(Orig[es[t].name])
      <4>1. no[t] + j \in 1..nlen
        BY <3>1, <3>2
      <4> QED
        BY <1>0, <3>2, <4>1, Zenon
    <3> QED
      BY <1>1, <3>1, <3>2, <3>3
  <2> QED
    BY <2>1, <2>2
<1>3. ASSUME NEW t \in live \cup {s}, NEW u \in live \cup {s}, fo2[t] < fo2[u]
      PROVE  no2[t] + Len(Orig[es2[t].name]) <= no2[u]
  <2>1. CASE t = s
    <3>1. u # s
      BY <2>1, <1>3
    <3>2. u \in live /\ fo2[u] = fo[u]
      BY <1>0, <3>1
    <3> QED
      BY <2>1, <3>2, <1>3
  <2>2. CASE t # s /\ u = s
    <3>1. t \in live /\ no2[t] = no[t] /\ es2[t].name = es[t].name
      BY <1>0, <2>2
    <3> QED
      BY <2>2, <3>1 DEF NamesLaid
  <2>3. CASE t # s /\ u # s
    <3>1. t \in live /\ u \in live
      BY <2>3
    <3> QED
      BY <1>0, <3>1, <1>3 DEF NamesLaid
  <2> QED
    BY <2>1, <2>2, <2>3
<1> QED
  BY <1>2, <1>3 DEF NamesLaid

\* Names that stay where they are while the arena shrinks to those.
LEMMA NamesErased ==
  ASSUME NEW nb, NEW nlen, NEW no, NEW fo, NEW live, NEW es, NEW es2,
         NamesLaid(nb, nlen, no, fo, live, es), NEW s,
         \A t \in live \ {s} : es2[t].name = es[t].name
  PROVE  NamesLaid(nb, nlen, no, fo, live \ {s}, es2)
BY DEF NamesLaid

-----------------------------------------------------------------------------
(* What the two choke points write.                                        *)

Cols == [names : Seq(Nat), folded : Seq(Nat), name_off : Seq(Nat), folded_off : Seq(Nat),
         recs : Seq(Rec), owner : Seq(Nat), head : Seq(Nat \X Nat),
         initials : Seq([1..LaneWidth -> Nat]), classes : Seq(SUBSET Nat),
         grams : SUBSET Seq(Nat), lane_grams : SUBSET Seq(Nat), tri : BOOLEAN, dead_bytes : Nat]

\* Every slot has a row in each column.
Rowed(c, k) ==
  /\ Len(c.name_off) = k /\ Len(c.folded_off) = k /\ Len(c.head) = k
  /\ Len(c.initials) = k /\ Len(c.classes) = k

\* The columns' types, field by field.
LEMMA ColsFields ==
  ASSUME NEW c \in Cols
  PROVE  /\ c.names \in Seq(Nat) /\ c.folded \in Seq(Nat) /\ c.name_off \in Seq(Nat)
         /\ c.folded_off \in Seq(Nat) /\ c.recs \in Seq(Rec) /\ c.owner \in Seq(Nat)
         /\ c.head \in Seq(Nat \X Nat) /\ c.initials \in Seq([1..LaneWidth -> Nat])
         /\ c.classes \in Seq(SUBSET Nat) /\ c.grams \in SUBSET Seq(Nat)
         /\ c.lane_grams \in SUBSET Seq(Nat) /\ c.tri \in BOOLEAN /\ c.dead_bytes \in Nat
BY Zenon DEF Cols

\* A stretch of a column.
LEMMA BytesForm ==
  ASSUME NEW col \in Seq(Nat), NEW off \in Nat, NEW len \in Nat, off + len <= Len(col)
  PROVE  /\ Bytes(col, off, len) = [x \in 1..len |-> col[off + x]]
         /\ \A x \in 1..len : off + x \in 1..Len(col)
         /\ Bytes(col, off, len) \in Seq(Nat) /\ Len(Bytes(col, off, len)) = len
<1>1. Bytes(col, off, len) = [x \in 1..len |-> col[off + x]]
  BY DEF Bytes
<1>2. \A x \in 1..len : off + x \in 1..Len(col)
  <2>1. Len(col) \in Nat
    OBVIOUS
  <2> QED
    BY <2>1
<1>3. \A x \in 1..len : col[off + x] \in Nat
  BY <1>2
<1> QED
  BY <1>1, <1>2, <1>3

\* A column that begins as another has the other's stretches.
LEMMA SameBytes ==
  ASSUME NEW fb \in Seq(Nat), NEW fb2 \in Seq(Nat), NEW a \in Nat, NEW l \in Nat,
         a + l <= Len(fb), a + l <= Len(fb2), \A x \in 1..Len(fb) : fb2[x] = fb[x]
  PROVE  Bytes(fb2, a, l) = Bytes(fb, a, l)
<1>1. Bytes(fb2, a, l) = [x \in 1..l |-> fb2[a + x]]
  BY BytesForm
<1>2. Bytes(fb, a, l) = [x \in 1..l |-> fb[a + x]] /\ \A x \in 1..l : a + x \in 1..Len(fb)
  BY BytesForm
<1>3. \A x \in 1..l : fb2[a + x] = fb[a + x]
  BY <1>2, Zenon
<1> QED
  BY <1>1, <1>2, <1>3, Zenon

\* What is in d when the name n has been appended to the arenas of c for slot s.
Enters(c, d, s, n) ==
  LET off == NewOff(Len(c.folded))
  IN  /\ Len(d.names) = Len(c.names) + Len(Orig[n])
      /\ \A i \in 1..Len(c.names) : d.names[i] = c.names[i]
      /\ \A j \in 1..Len(Orig[n]) : d.names[Len(c.names) + j] = Orig[n][j]
      /\ Len(d.folded) = off + Len(Folded[n]) + 1
      /\ \A i \in 1..Len(c.folded) : d.folded[i] = c.folded[i]
      /\ c.folded = <<>> => d.folded[1] = Fence
      /\ \A j \in 1..Len(Folded[n]) : d.folded[off + j] = Folded[n][j]
      /\ d.folded[off + Len(Folded[n]) + 1] = Fence
      /\ d.name_off = SetRow(c.name_off, s, Len(c.names))
      /\ d.folded_off = SetRow(c.folded_off, s, off)
      /\ d.head = SetRow(c.head, s, HeadPair(n))
      /\ d.initials = SetRow(c.initials, s, Lane(n))
      /\ d.classes = SetRow(c.classes, s, Mask(Folded[n]))
      /\ d.grams = c.grams \cup Grams(Folded[n], IF c.tri THEN 3 ELSE 2)
      /\ d.lane_grams = c.lane_grams \cup Grams(Lane(n), 2)
      /\ d.recs = Append(c.recs, [off |-> off, slot |-> s])
      /\ Len(d.owner) = (Len(d.folded) + OwnerBlock - 1) \div OwnerBlock
      /\ \A b \in 1..Len(d.owner) : d.owner[b] = IF b <= Len(c.owner) THEN c.owner[b]
                                                  ELSE Len(c.recs) + 1
      /\ d.tri = c.tri /\ d.dead_bytes = c.dead_bytes

\* new is col with v in row s, which is one of its rows or the next.
RowSet(col, new, s, v) ==
  /\ Len(new) = IF s = Len(col) + 1 THEN Len(col) + 1 ELSE Len(col)
  /\ new[s] = v
  /\ \A t \in 1..Len(col) : t # s => new[t] = col[t]

\* Writing a row, or appending one, leaves the others as they were.
LEMMA SetRowFacts ==
  ASSUME NEW S, NEW col \in Seq(S), NEW s \in 1..(Len(col) + 1), NEW v \in S
  PROVE  SetRow(col, s, v) \in Seq(S) /\ RowSet(col, SetRow(col, s, v), s, v)
<1>1. CASE s = Len(col) + 1
  <2>1. SetRow(col, s, v) = Append(col, v)
    BY <1>1 DEF SetRow
  <2> QED
    BY <1>1, <2>1, AppendProperties DEF RowSet
<1>2. CASE s # Len(col) + 1
  <2>1. SetRow(col, s, v) = [col EXCEPT ![s] = v] /\ s \in 1..Len(col)
    BY <1>2 DEF SetRow
  <2> QED
    BY <1>2, <2>1 DEF RowSet
<1> QED
  BY <1>1, <1>2

\* The parts of a sequence made of two, and of three.
LEMMA TwoParts ==
  ASSUME NEW S, NEW a \in Seq(S), NEW b \in Seq(S)
  PROVE  /\ a \o b \in Seq(S) /\ Len(a \o b) = Len(a) + Len(b)
         /\ Len(a) \in Nat /\ Len(b) \in Nat
         /\ \A i \in 1..Len(a) : (a \o b)[i] = a[i]
         /\ \A j \in 1..Len(b) : (a \o b)[Len(a) + j] = b[j]
<1>1. Len(a) \in Nat /\ Len(b) \in Nat
  OBVIOUS
<1>2. /\ a \o b \in Seq(S) /\ Len(a \o b) = Len(a) + Len(b)
      /\ \A i \in 1..(Len(a) + Len(b)) :
           (a \o b)[i] = IF i <= Len(a) THEN a[i] ELSE b[i - Len(a)]
  BY ConcatProperties
<1>3. ASSUME NEW i \in 1..Len(a) PROVE (a \o b)[i] = a[i]
  <2>1. i \in 1..(Len(a) + Len(b)) /\ i <= Len(a)
    BY <1>1
  <2> QED
    BY <2>1, <1>2
<1>4. ASSUME NEW j \in 1..Len(b) PROVE (a \o b)[Len(a) + j] = b[j]
  <2>1. Len(a) + j \in 1..(Len(a) + Len(b)) /\ ~(Len(a) + j <= Len(a)) /\ (Len(a) + j) - Len(a) = j
    BY <1>1
  <2>2. (a \o b)[Len(a) + j] = b[(Len(a) + j) - Len(a)]
    BY <2>1, <1>2
  <2> QED
    BY <2>1, <2>2
<1> QED
  BY <1>1, <1>2, <1>3, <1>4

\* What a byte appended leaves where.
LEMMA LastPart ==
  ASSUME NEW ab \in Seq(Nat), NEW e \in Nat
  PROVE  /\ ab \o <<e>> \in Seq(Nat) /\ Len(ab \o <<e>>) = Len(ab) + 1
         /\ \A i \in 1..Len(ab) : (ab \o <<e>>)[i] = ab[i]
         /\ (ab \o <<e>>)[Len(ab) + 1] = e
<1> DEFINE x == <<e>>
<1>1. x \in Seq(Nat) /\ Len(x) = 1 /\ x[1] = e
  OBVIOUS
<1> HIDE DEF x
<1>2. /\ ab \o x \in Seq(Nat) /\ Len(ab \o x) = Len(ab) + Len(x)
      /\ \A i \in 1..Len(ab) : (ab \o x)[i] = ab[i]
      /\ \A j \in 1..Len(x) : (ab \o x)[Len(ab) + j] = x[j]
  BY <1>1, TwoParts, SMTT(30)
<1>3. (ab \o x)[Len(ab) + 1] = x[1]
  BY <1>1, <1>2
<1> QED
  BY <1>1, <1>2, <1>3 DEF x

\* What a name and its fence appended leave where.
LEMMA ThreeParts ==
  ASSUME NEW a \in Seq(Nat), NEW b \in Seq(Nat), NEW e \in Nat
  PROVE  LET all == a \o b \o <<e>>
         IN  /\ all \in Seq(Nat) /\ Len(all) = Len(a) + Len(b) + 1
             /\ \A i \in 1..Len(a) : all[i] = a[i]
             /\ \A j \in 1..Len(b) : all[Len(a) + j] = b[j]
             /\ all[Len(a) + Len(b) + 1] = e
<1> DEFINE ab == a \o b
<1>1. /\ ab \in Seq(Nat) /\ Len(ab) = Len(a) + Len(b)
      /\ \A i \in 1..Len(a) : ab[i] = a[i]
      /\ \A j \in 1..Len(b) : ab[Len(a) + j] = b[j]
  BY TwoParts
<1>2. <<e>> \in Seq(Nat) /\ Len(<<e>>) = 1 /\ <<e>>[1] = e
  OBVIOUS
<1> HIDE DEF ab
<1>3. /\ ab \o <<e>> \in Seq(Nat) /\ Len(ab \o <<e>>) = Len(ab) + 1
      /\ \A i \in 1..Len(ab) : (ab \o <<e>>)[i] = ab[i]
      /\ (ab \o <<e>>)[Len(ab) + 1] = e
  BY <1>1, LastPart, Zenon
<1>4. Len(a) \in Nat /\ Len(b) \in Nat
  OBVIOUS
<1>5. /\ \A i \in 1..Len(a) : i \in 1..Len(ab)
      /\ \A j \in 1..Len(b) : Len(a) + j \in 1..Len(ab)
  BY <1>1, <1>4
<1>6. /\ \A i \in 1..Len(a) : (ab \o <<e>>)[i] = a[i]
      /\ \A j \in 1..Len(b) : (ab \o <<e>>)[Len(a) + j] = b[j]
  BY <1>1, <1>3, <1>5, Zenon
<1> QED
  BY <1>1, <1>3, <1>6 DEF ab

\* What intern appends.
Interned(c, d, n) ==
  LET off == NewOff(Len(c.folded))
  IN  /\ d \in Cols
      /\ Len(d.names) = Len(c.names) + Len(Orig[n])
      /\ \A i \in 1..Len(c.names) : d.names[i] = c.names[i]
      /\ \A j \in 1..Len(Orig[n]) : d.names[Len(c.names) + j] = Orig[n][j]
      /\ Len(d.folded) = off + Len(Folded[n]) + 1
      /\ \A i \in 1..Len(c.folded) : d.folded[i] = c.folded[i]
      /\ c.folded = <<>> => d.folded[1] = Fence
      /\ \A j \in 1..Len(Folded[n]) : d.folded[off + j] = Folded[n][j]
      /\ d.folded[off + Len(Folded[n]) + 1] = Fence
      /\ d.name_off = c.name_off /\ d.folded_off = c.folded_off /\ d.recs = c.recs
      /\ d.owner = c.owner /\ d.head = c.head /\ d.initials = c.initials
      /\ d.classes = c.classes /\ d.grams = c.grams /\ d.lane_grams = c.lane_grams
      /\ d.tri = c.tri /\ d.dead_bytes = c.dead_bytes

\* What `intern` writes: both spellings at the end of the arenas, and a fence.
LEMMA InternFields ==
  ASSUME NEW c \in Cols, NEW n \in Name \ BadName
  PROVE  Interned(c, Intern(c, n), n)
<1> DEFINE base == IF c.folded = <<>> THEN <<Fence>> ELSE c.folded
           all == base \o Folded[n] \o <<Fence>>
           off == NewOff(Len(c.folded))
           d == Intern(c, n)
<1>1. /\ c.names \in Seq(Nat) /\ c.folded \in Seq(Nat)
      /\ Orig[n] \in Seq(Nat) /\ Folded[n] \in Seq(Nat) /\ Fence \in Nat
  <2>1. Folded[n] \in Seq(Nat \ {Fence}) /\ Orig[n] \in Seq(Nat)
    BY NameBytes
  <2> QED
    BY <2>1, ColsFields DEF Fence
<1>2. /\ base \in Seq(Nat) /\ Len(base) = off
      /\ \A i \in 1..Len(c.folded) : base[i] = c.folded[i]
      /\ c.folded = <<>> => base[1] = Fence
  <2>1. CASE c.folded = <<>>
    BY <1>1, <2>1 DEF NewOff
  <2>2. CASE c.folded # <<>>
    <3>1. Len(c.folded) # 0
      BY <1>1, <2>2
    <3> QED
      BY <1>1, <2>2, <3>1 DEF NewOff
  <2> QED
    BY <2>1, <2>2
<1>3. off \in Nat /\ off > 0 /\ Len(c.folded) <= off
  BY <1>1 DEF NewOff
<1> HIDE DEF base, off
<1>4. /\ all \in Seq(Nat) /\ Len(all) = off + Len(Folded[n]) + 1
      /\ \A i \in 1..off : all[i] = base[i]
      /\ \A j \in 1..Len(Folded[n]) : all[off + j] = Folded[n][j]
      /\ all[off + Len(Folded[n]) + 1] = Fence
  <2> DEFINE w == Folded[n]
             e == Fence
  <2>1. base \in Seq(Nat) /\ w \in Seq(Nat) /\ e \in Nat
    BY <1>1, <1>2
  <2> HIDE DEF w, e
  <2>2. LET x == base \o w \o <<e>>
        IN  /\ x \in Seq(Nat) /\ Len(x) = Len(base) + Len(w) + 1
            /\ \A i \in 1..Len(base) : x[i] = base[i]
            /\ \A j \in 1..Len(w) : x[Len(base) + j] = w[j]
            /\ x[Len(base) + Len(w) + 1] = e
    BY <2>1, ThreeParts, Zenon
  <2> QED
    BY <1>2, <2>2, Zenon DEF w, e
<1>5. d = [c EXCEPT !.names = c.names \o Orig[n], !.folded = all]
  BY DEF Intern, base
<1>6. LET x == c.names \o Orig[n]
      IN  /\ x \in Seq(Nat) /\ Len(x) = Len(c.names) + Len(Orig[n])
          /\ \A i \in 1..Len(c.names) : x[i] = c.names[i]
          /\ \A j \in 1..Len(Orig[n]) : x[Len(c.names) + j] = Orig[n][j]
  <2> DEFINE a == c.names
             b == Orig[n]
  <2>1. a \in Seq(Nat) /\ b \in Seq(Nat)
    BY <1>1
  <2> HIDE DEF a, b
  <2>2. /\ a \o b \in Seq(Nat) /\ Len(a \o b) = Len(a) + Len(b)
        /\ \A i \in 1..Len(a) : (a \o b)[i] = a[i]
        /\ \A j \in 1..Len(b) : (a \o b)[Len(a) + j] = b[j]
    BY <2>1, TwoParts
  <2> QED
    BY <2>2, Zenon DEF a, b
<1> HIDE DEF all, d
<1>7. /\ d \in Cols
      /\ d.names = c.names \o Orig[n] /\ d.folded = all
      /\ d.name_off = c.name_off /\ d.folded_off = c.folded_off /\ d.recs = c.recs
      /\ d.owner = c.owner /\ d.head = c.head /\ d.initials = c.initials
      /\ d.classes = c.classes /\ d.grams = c.grams /\ d.lane_grams = c.lane_grams
      /\ d.tri = c.tri /\ d.dead_bytes = c.dead_bytes
  BY <1>4, <1>5, <1>6, Zenon DEF Cols
<1>8. /\ \A i \in 1..Len(c.folded) : all[i] = c.folded[i]
      /\ c.folded = <<>> => all[1] = Fence
  <2>1. Len(c.folded) \in Nat /\ 1 \in 1..off
    BY <1>1, <1>3
  <2>2. \A i \in 1..Len(c.folded) : i \in 1..off
    BY <2>1, <1>3
  <2> QED
    BY <1>2, <1>4, <2>1, <2>2, Zenon
<1> QED
  BY <1>4, <1>6, <1>7, <1>8, ZenonT(60) DEF d, off, Interned

\* The bytes search reads of a name are of the columns' types.
LEMMA NameColumns ==
  ASSUME NEW n \in Name \ BadName
  PROVE  /\ HeadPair(n) \in Nat \X Nat /\ Lane(n) \in [1..LaneWidth -> Nat]
         /\ Mask(Folded[n]) \in SUBSET Nat
         /\ \A k \in Nat : Grams(Folded[n], k) \in SUBSET Seq(Nat)
         /\ \A k \in Nat : Grams(Lane(n), k) \in SUBSET Seq(Nat)
<1>1. /\ Len(Folded[n]) \in Nat /\ Len(Folded[n]) > 0 /\ DOMAIN Folded[n] = 1..Len(Folded[n])
      /\ \A j \in 1..Len(Folded[n]) : Folded[n][j] \in Nat
  BY NameBytes
<1>2. /\ Initials[n] \in Seq(Nat \ {Fence}) /\ Len(Initials[n]) \in 0..LaneWidth /\ LaneWidth \in Nat
      /\ Fence \in Nat
  BY NameBytes, ArenaAssumption DEF Fence
<1>3. \A i \in 1..Len(Initials[n]) : Initials[n][i] \in Nat
  BY <1>2
<1>4. HeadPair(n) \in Nat \X Nat
  BY <1>1, <1>2 DEF HeadPair
<1>5. Lane(n) \in [1..LaneWidth -> Nat]
  BY <1>2, <1>3 DEF Lane
<1>6. Mask(Folded[n]) \in SUBSET Nat
  BY <1>1 DEF Mask
<1>7. ASSUME NEW s \in Seq(Nat), NEW k \in Nat PROVE Grams(s, k) \in SUBSET Seq(Nat)
  <2>1. ASSUME NEW w \in 1..k, NEW i \in 1..(Len(s) + 1 - w) PROVE SubSeq(s, i, i + w - 1) \in Seq(Nat)
    <3>1. Len(s) \in Nat /\ i \in Nat /\ w \in Nat /\ i + w - 1 \in Int /\ i + w - 1 <= Len(s)
      OBVIOUS
    <3>2. \A j \in i..(i + w - 1) : s[j] \in Nat
      BY <3>1
    <3>3. SubSeq(s, i, i + w - 1) = [j \in 1..w |-> s[i + j - 1]]
      BY <3>1
    <3>4. [j \in 1..w |-> s[i + j - 1]] \in [1..w -> Nat]
      BY <3>1, <3>2
    <3> QED
      BY <3>1, <3>3, <3>4
  <2>2. \A w \in 1..k : Windows(s, w) \in SUBSET Seq(Nat)
    BY <2>1, Zenon DEF Windows
  <2> QED
    BY <2>2, Zenon DEF Grams
<1>8. Folded[n] \in Seq(Nat) /\ Lane(n) \in Seq(Nat)
  BY <1>2, <1>5, NameBytes
<1> QED
  BY <1>4, <1>5, <1>6, <1>7, <1>8, Zenon

\* What register_slot writes for the name intern has appended.
Registered(c, d, s, n) ==
  LET off == Len(c.folded) - Len(Folded[n]) - 1
  IN  /\ d \in Cols /\ d.names = c.names /\ d.folded = c.folded
      /\ d.name_off = SetRow(c.name_off, s, Len(c.names) - Len(Orig[n]))
      /\ d.folded_off = SetRow(c.folded_off, s, off)
      /\ d.head = SetRow(c.head, s, HeadPair(n))
      /\ d.initials = SetRow(c.initials, s, Lane(n))
      /\ d.classes = SetRow(c.classes, s, Mask(Folded[n]) \cup
                              (IF s > Len(c.classes) THEN {} ELSE c.classes[s]))
      /\ d.grams = c.grams \cup Grams(Folded[n], IF c.tri THEN 3 ELSE 2)
      /\ d.lane_grams = c.lane_grams \cup Grams(Lane(n), 2)
      /\ d.recs = Append(c.recs, [off |-> off, slot |-> s])
      /\ d.owner = Owners(c, Len(c.recs) + 1)
      /\ d.tri = c.tri /\ d.dead_bytes = c.dead_bytes

\* What `register_slot` writes: every column's row for the slot.
LEMMA RegisterFields ==
  ASSUME NEW c \in Cols, NEW k \in Nat, Rowed(c, k), NEW s \in 1..(k + 1), NEW n \in Name \ BadName,
         Len(c.folded) - Len(Folded[n]) - 1 \in Nat, Len(c.names) - Len(Orig[n]) \in Nat
  PROVE  Registered(c, Register(c, s, n), s, n)
<1> DEFINE off == Len(c.folded) - Len(Folded[n]) - 1
           nat == Len(c.names) - Len(Orig[n])
           no2 == SetRow(c.name_off, s, nat)
           fo2 == SetRow(c.folded_off, s, off)
           head2 == SetRow(c.head, s, HeadPair(n))
           initials2 == SetRow(c.initials, s, Lane(n))
           mask == Mask(Folded[n]) \cup (IF s > Len(c.classes) THEN {} ELSE c.classes[s])
           classes2 == SetRow(c.classes, s, mask)
           grams2 == c.grams \cup Grams(Folded[n], IF c.tri THEN 3 ELSE 2)
           lane_grams2 == c.lane_grams \cup Grams(Lane(n), 2)
           recs2 == Append(c.recs, [off |-> off, slot |-> s])
           owner2 == Owners(c, Len(c.recs) + 1)
<1>1. /\ c.name_off \in Seq(Nat) /\ c.folded_off \in Seq(Nat) /\ c.recs \in Seq(Rec)
      /\ c.owner \in Seq(Nat) /\ c.head \in Seq(Nat \X Nat)
      /\ c.initials \in Seq([1..LaneWidth -> Nat]) /\ c.classes \in Seq(SUBSET Nat)
      /\ c.grams \in SUBSET Seq(Nat) /\ c.lane_grams \in SUBSET Seq(Nat) /\ c.folded \in Seq(Nat)
  BY ColsFields, Zenon
<1>2. /\ s \in 1..(Len(c.name_off) + 1) /\ s \in 1..(Len(c.folded_off) + 1)
      /\ s \in 1..(Len(c.head) + 1) /\ s \in 1..(Len(c.initials) + 1) /\ s \in 1..(Len(c.classes) + 1)
  BY DEF Rowed
<1>3. no2 \in Seq(Nat) /\ fo2 \in Seq(Nat)
  <2> HIDE DEF nat, off
  <2>1. nat \in Nat /\ off \in Nat
    BY DEF nat, off
  <2> QED
    BY <1>1, <1>2, <2>1, SetRowFacts, Zenon
<1>4. head2 \in Seq(Nat \X Nat) /\ initials2 \in Seq([1..LaneWidth -> Nat])
  BY <1>1, <1>2, NameColumns, SetRowFacts, Zenon
<1>5. classes2 \in Seq(SUBSET Nat)
  <2>1. mask \in SUBSET Nat
    <3>1. CASE s > Len(c.classes)
      BY <3>1, NameColumns, Zenon
    <3>2. CASE ~(s > Len(c.classes))
      <4>1. s \in 1..Len(c.classes)
        BY <1>2, <3>2
      <4>2. c.classes[s] \in SUBSET Nat
        BY <1>1, <4>1, SMTT(30)
      <4> QED
        BY <3>2, <4>2, NameColumns, Zenon
    <3> QED
      BY <3>1, <3>2
  <2> HIDE DEF mask
  <2> QED
    BY <1>1, <1>2, <2>1, SetRowFacts, Zenon
<1>6. grams2 \in SUBSET Seq(Nat) /\ lane_grams2 \in SUBSET Seq(Nat)
  <2>1. (IF c.tri THEN 3 ELSE 2) \in Nat /\ 2 \in Nat
    OBVIOUS
  <2> QED
    BY <1>1, <2>1, NameColumns, Zenon
<1>7. recs2 \in Seq(Rec)
  <2>1. [off |-> off, slot |-> s] \in Rec
    BY DEF Rec
  <2> QED
    BY <1>1, <2>1, AppendProperties
<1>8. owner2 \in Seq(Nat)
  <2> DEFINE m == (Len(c.folded) + OwnerBlock - 1) \div OwnerBlock
  <2>1. m \in Nat
    <3>1. OwnerBlock \in Nat \ {0} /\ Len(c.folded) \in Nat
      BY <1>1, ArenaAssumption
    <3>2. \A x \in Nat : \A y \in Nat \ {0} : (x + y - 1) \div y \in Nat
      <4> TAKE x \in Nat, y \in Nat \ {0}
      <4>1. x + y - 1 \in Nat
        OBVIOUS
      <4> DEFINE z == x + y - 1
      <4> HIDE DEF z
      <4>2. z \div y \in Nat
        BY <4>1 DEF z
      <4> QED
        BY <4>2 DEF z
    <3> QED
      BY <3>1, <3>2, Zenon
  <2>2. owner2 = [b \in 1..m |-> IF b <= Len(c.owner) THEN c.owner[b] ELSE Len(c.recs) + 1]
    BY DEF Owners
  <2> HIDE DEF m, owner2
  <2>3. ASSUME NEW b \in 1..m PROVE (IF b <= Len(c.owner) THEN c.owner[b] ELSE Len(c.recs) + 1) \in Nat
    <3>1. b \in Nat /\ b >= 1 /\ Len(c.owner) \in Nat /\ Len(c.recs) \in Nat
      BY <1>1, <2>1, SMTT(30)
    <3>2. b <= Len(c.owner) => c.owner[b] \in Nat
      <4>1. c.owner \in Seq(Nat)
        BY <1>1
      <4>2. \A col \in Seq(Nat) : \A i \in 1..Len(col) : col[i] \in Nat
        OBVIOUS
      <4>3. b <= Len(c.owner) => b \in 1..Len(c.owner)
        BY <3>1
      <4> QED
        BY <4>1, <4>2, <4>3
    <3> QED
      BY <3>1, <3>2
  <2>4. owner2 \in [1..m -> Nat]
    BY <2>2, <2>3
  <2> QED
    BY <2>1, <2>4
<1>9. Register(c, s, n) =
        [c EXCEPT !.name_off = no2, !.folded_off = fo2, !.head = head2, !.initials = initials2,
                  !.classes = classes2, !.grams = grams2, !.lane_grams = lane_grams2,
                  !.recs = recs2, !.owner = owner2]
  BY DEF Register
<1> DEFINE d == Register(c, s, n)
<1> HIDE DEF no2, fo2, head2, initials2, classes2, grams2, lane_grams2, recs2, owner2, d
<1>a. d = [names |-> c.names, folded |-> c.folded, name_off |-> no2, folded_off |-> fo2,
           recs |-> recs2, owner |-> owner2, head |-> head2, initials |-> initials2,
           classes |-> classes2, grams |-> grams2, lane_grams |-> lane_grams2, tri |-> c.tri,
           dead_bytes |-> c.dead_bytes]
  BY <1>9, ZenonT(60) DEF Cols, d
<1>10. /\ d \in Cols /\ d.names = c.names /\ d.folded = c.folded /\ d.name_off = no2 /\ d.folded_off = fo2
       /\ d.head = head2 /\ d.initials = initials2 /\ d.classes = classes2 /\ d.grams = grams2
       /\ d.lane_grams = lane_grams2 /\ d.recs = recs2 /\ d.owner = owner2
       /\ d.tri = c.tri /\ d.dead_bytes = c.dead_bytes
  BY <1>a, <1>3, <1>4, <1>5, <1>6, <1>7, <1>8, ColsFields, Zenon DEF Cols
<1> QED
  BY <1>10 DEF no2, fo2, head2, initials2, classes2, grams2, lane_grams2, recs2, owner2, d, Registered

\* What unregister_slot leaves.
Unregistered(c, d, s, k) ==
  /\ d \in Cols /\ Rowed(d, k) /\ d.names = c.names
  /\ Len(d.folded) = Len(c.folded)
  /\ \A i \in 1..Len(c.folded) : d.folded[i] =
       IF i - 1 \in c.folded_off[s]..(c.folded_off[s] + FoldedLen(s) - 1)
       THEN Fence ELSE c.folded[i]
  /\ d.name_off = c.name_off /\ d.folded_off = c.folded_off
  /\ d.head = [c.head EXCEPT ![s] = <<Fence, Fence>>]
  /\ d.initials = [c.initials EXCEPT ![s] = Blank]
  /\ d.classes = [c.classes EXCEPT ![s] =
                   @ \ Mask(Bytes(c.folded, c.folded_off[s], FoldedLen(s)))]
  /\ d.head[s] = <<Fence, Fence>> /\ d.initials[s] = Blank
  /\ d.classes[s] = c.classes[s] \ Mask(Bytes(c.folded, c.folded_off[s], FoldedLen(s)))
  /\ \A t \in 1..k : t # s => /\ d.head[t] = c.head[t] /\ d.initials[t] = c.initials[t]
                              /\ d.classes[t] = c.classes[t]
  /\ d.grams = c.grams /\ d.lane_grams = c.lane_grams /\ d.recs = c.recs
  /\ d.owner = c.owner /\ d.tri = c.tri
  /\ d.dead_bytes = c.dead_bytes + (OrigLen(s) + FoldedLen(s))

\* What `unregister_slot` writes: the mask, the fences, the bytes given up.
LEMMA UnregisterFields ==
  ASSUME NEW c \in Cols, NEW k \in Nat, Rowed(c, k), NEW s \in 1..k,
         FoldedLen(s) \in Nat, OrigLen(s) \in Nat
  PROVE  Unregistered(c, Unregister(c, s), s, k)
<1> DEFINE classes2 == [c.classes EXCEPT ![s] = @ \ Mask(Bytes(c.folded, c.folded_off[s], FoldedLen(s)))]
           folded2 == Fill(c.folded, c.folded_off[s], FoldedLen(s))
           head2 == [c.head EXCEPT ![s] = <<Fence, Fence>>]
           initials2 == [c.initials EXCEPT ![s] = Blank]
           dead2 == c.dead_bytes + OrigLen(s) + FoldedLen(s)
<1>1. /\ c.names \in Seq(Nat) /\ c.folded \in Seq(Nat) /\ c.head \in Seq(Nat \X Nat)
      /\ c.initials \in Seq([1..LaneWidth -> Nat]) /\ c.classes \in Seq(SUBSET Nat)
      /\ c.dead_bytes \in Nat
  BY ColsFields
<1>2. Len(c.head) = k /\ Len(c.initials) = k /\ Len(c.classes) = k
  BY DEF Rowed
<1>3. /\ folded2 \in Seq(Nat) /\ Len(folded2) = Len(c.folded)
      /\ \A i \in 1..Len(c.folded) : folded2[i] =
           IF i - 1 \in c.folded_off[s]..(c.folded_off[s] + FoldedLen(s) - 1) THEN Fence ELSE c.folded[i]
  <2> DEFINE Erased(i) == i - 1 \in c.folded_off[s]..(c.folded_off[s] + FoldedLen(s) - 1)
             m == Len(c.folded)
  <2>1. m \in Nat /\ DOMAIN c.folded = 1..m /\ \A i \in 1..m : c.folded[i] \in Nat
    <3>1. c.folded \in Seq(Nat)
      BY <1>1
    <3> QED
      BY <3>1
  <2>2. folded2 = [i \in 1..m |-> IF Erased(i) THEN Fence ELSE c.folded[i]]
    BY <2>1 DEF Fill
  <2> HIDE DEF Erased, m, folded2
  <2>3. folded2 \in [1..m -> Nat]
    BY <2>1, <2>2 DEF Fence
  <2>4. folded2 \in Seq(Nat) /\ Len(folded2) = m
    BY <2>1, <2>3
  <2> QED
    BY <2>2, <2>4 DEF Erased, m
<1>4. /\ head2 \in Seq(Nat \X Nat) /\ Len(head2) = k /\ head2[s] = <<Fence, Fence>>
      /\ \A t \in 1..k : t # s => head2[t] = c.head[t]
  <2> DEFINE pair == <<Fence, Fence>>
  <2>1. pair \in Nat \X Nat
    BY DEF Fence
  <2>2. c.head \in Seq(Nat \X Nat) /\ Len(c.head) = k /\ s \in 1..k
    BY <1>1, <1>2
  <2> HIDE DEF pair
  <2>3. \A S : \A col \in Seq(S) : \A v \in S : \A t \in 1..Len(col) :
          /\ [col EXCEPT ![t] = v] \in Seq(S) /\ Len([col EXCEPT ![t] = v]) = Len(col)
          /\ [col EXCEPT ![t] = v][t] = v
          /\ \A u \in 1..Len(col) : u # t => [col EXCEPT ![t] = v][u] = col[u]
    OBVIOUS
  <2> QED
    BY <2>1, <2>2, <2>3, SMTT(30) DEF pair
<1>5. /\ initials2 \in Seq([1..LaneWidth -> Nat]) /\ Len(initials2) = k /\ initials2[s] = Blank
      /\ \A t \in 1..k : t # s => initials2[t] = c.initials[t]
  <2>1. Blank \in [1..LaneWidth -> Nat]
    BY DEF Blank, Fence
  <2> QED
    BY <1>1, <1>2, <2>1, SMTT(30)
<1>6. /\ classes2 \in Seq(SUBSET Nat) /\ Len(classes2) = k
      /\ classes2[s] = c.classes[s] \ Mask(Bytes(c.folded, c.folded_off[s], FoldedLen(s)))
      /\ \A t \in 1..k : t # s => classes2[t] = c.classes[t]
  <2> DEFINE M == Mask(Bytes(c.folded, c.folded_off[s], FoldedLen(s)))
  <2> HIDE DEF M
  <2>1. c.classes[s] \ M \in SUBSET Nat
    BY <1>1, <1>2, SMTT(30)
  <2>2. classes2 = [c.classes EXCEPT ![s] = c.classes[s] \ M]
    BY DEF M
  <2> HIDE DEF classes2
  <2> QED
    BY <1>1, <1>2, <2>1, <2>2, SMTT(30) DEF M
<1>7. dead2 \in Nat /\ dead2 = c.dead_bytes + (OrigLen(s) + FoldedLen(s))
  BY <1>1
<1>8. Unregister(c, s) = [c EXCEPT !.classes = classes2, !.folded = folded2, !.head = head2,
                                   !.initials = initials2, !.dead_bytes = dead2]
  BY DEF Unregister, Cols
<1> DEFINE d == Unregister(c, s)
<1> HIDE DEF classes2, folded2, head2, initials2, dead2, d
<1>9. /\ d \in Cols /\ d.names = c.names /\ d.folded = folded2 /\ d.name_off = c.name_off
      /\ d.folded_off = c.folded_off /\ d.head = head2 /\ d.initials = initials2
      /\ d.classes = classes2 /\ d.grams = c.grams /\ d.lane_grams = c.lane_grams
      /\ d.recs = c.recs /\ d.owner = c.owner /\ d.tri = c.tri /\ d.dead_bytes = dead2
  BY <1>3, <1>4, <1>5, <1>6, <1>7, <1>8, ZenonT(60) DEF Cols, d
<1>10. Rowed(d, k)
  BY <1>4, <1>5, <1>6, <1>9 DEF Rowed
<1> QED
  BY <1>3, <1>4, <1>5, <1>6, <1>7, <1>9, <1>10, ZenonT(60) DEF d, head2, initials2, classes2, Unregistered

\* Blocks of OwnerBlock bytes that len bytes take.
Blocks(len) == (len + OwnerBlock - 1) \div OwnerBlock

\* The owner blocks a name opens are its record's; the others stay.
LEMMA OwnersFacts ==
  ASSUME NEW c \in Cols, NEW ri
  PROVE  /\ Len(Owners(c, ri)) = Blocks(Len(c.folded))
         /\ \A b \in 1..Len(Owners(c, ri)) : Owners(c, ri)[b] = IF b <= Len(c.owner) THEN c.owner[b] ELSE ri
<1> DEFINE m == Blocks(Len(c.folded))
<1>1. m \in Nat
  <2>1. c.folded \in Seq(Nat) /\ OwnerBlock \in Nat \ {0}
    BY ColsFields, ArenaAssumption
  <2>2. \A x \in Nat : \A y \in Nat \ {0} : x + y - 1 \in Nat
    OBVIOUS
  <2>3. \A z \in Nat : \A y \in Nat \ {0} : z \div y \in Nat
    OBVIOUS
  <2>4. Len(c.folded) \in Nat
    BY <2>1
  <2> QED
    BY <2>1, <2>2, <2>3, <2>4, Zenon DEF Blocks
<1>2. Owners(c, ri) = [b \in 1..m |-> IF b <= Len(c.owner) THEN c.owner[b] ELSE ri]
  BY DEF Owners, Blocks
<1> HIDE DEF m
<1> QED
  BY <1>1, <1>2 DEF m

\* A new or a dead slot gets a name.
LEMMA Entered ==
  ASSUME NEW c \in Cols, NEW k \in Nat, Rowed(c, k), NEW s \in 1..(k + 1), NEW n \in Name \ BadName,
         s <= k => c.classes[s] = {}
  PROVE  LET d == Register(Intern(c, n), s, n)
         IN  d \in Cols /\ Enters(c, d, s, n)
<1> DEFINE i == Intern(c, n)
           d == Register(i, s, n)
           off == NewOff(Len(c.folded))
           doff == Len(i.folded) - Len(Folded[n]) - 1
           dnat == Len(i.names) - Len(Orig[n])
<1>1. /\ i \in Cols
      /\ Len(i.names) = Len(c.names) + Len(Orig[n])
      /\ \A x \in 1..Len(c.names) : i.names[x] = c.names[x]
      /\ \A j \in 1..Len(Orig[n]) : i.names[Len(c.names) + j] = Orig[n][j]
      /\ Len(i.folded) = off + Len(Folded[n]) + 1
      /\ \A x \in 1..Len(c.folded) : i.folded[x] = c.folded[x]
      /\ c.folded = <<>> => i.folded[1] = Fence
      /\ \A j \in 1..Len(Folded[n]) : i.folded[off + j] = Folded[n][j]
      /\ i.folded[off + Len(Folded[n]) + 1] = Fence
      /\ i.name_off = c.name_off /\ i.folded_off = c.folded_off /\ i.recs = c.recs
      /\ i.owner = c.owner /\ i.head = c.head /\ i.initials = c.initials
      /\ i.classes = c.classes /\ i.grams = c.grams /\ i.lane_grams = c.lane_grams
      /\ i.tri = c.tri /\ i.dead_bytes = c.dead_bytes
  <2>1. Interned(c, i, n)
    BY InternFields
  <2> HIDE DEF i
  <2> QED
    BY <2>1, Zenon DEF Interned
<1> HIDE DEF i
<1>2. Rowed(i, k)
  BY <1>1 DEF Rowed
<1>3. /\ c.names \in Seq(Nat) /\ c.folded \in Seq(Nat) /\ Orig[n] \in Seq(Nat)
      /\ Len(Folded[n]) \in Nat /\ Len(Orig[n]) \in Nat
  BY ColsFields, NameBytes
<1>5. off \in Nat /\ Len(c.names) \in Nat
  BY <1>3 DEF NewOff
<1> HIDE DEF off
<1>6. doff = off /\ doff \in Nat /\ dnat = Len(c.names) /\ dnat \in Nat
  <2>1. Len(i.folded) \in Nat /\ Len(i.names) \in Nat
    <3>1. i.folded \in Seq(Nat) /\ i.names \in Seq(Nat)
      BY <1>1, ColsFields
    <3> QED
      BY <3>1
  <2>2. Len(i.folded) - Len(Folded[n]) - 1 = off
    <3> DEFINE x == Len(i.folded)
               y == Len(Folded[n])
    <3>1. x \in Nat /\ y \in Nat /\ x = off + y + 1
      BY <1>1, <1>3, <2>1
    <3> HIDE DEF x, y
    <3>2. x - y - 1 = off
      BY <3>1, <1>5
    <3> QED
      BY <3>2, Zenon DEF x, y
  <2>3. Len(i.names) - Len(Orig[n]) = Len(c.names)
    <3> DEFINE x == Len(i.names)
               y == Len(Orig[n])
               z == Len(c.names)
    <3>1. x \in Nat /\ y \in Nat /\ z \in Nat /\ x = z + y
      BY <1>1, <1>3, <1>5, <2>1, Zenon
    <3> HIDE DEF x, y, z
    <3>2. x - y = z
      BY <3>1
    <3> QED
      BY <3>2, Zenon DEF x, y, z
  <2> QED
    BY <2>2, <2>3, <1>5, Zenon
<1>7. /\ d \in Cols /\ d.names = i.names /\ d.folded = i.folded
      /\ d.name_off = SetRow(i.name_off, s, dnat)
      /\ d.folded_off = SetRow(i.folded_off, s, doff)
      /\ d.head = SetRow(i.head, s, HeadPair(n))
      /\ d.initials = SetRow(i.initials, s, Lane(n))
      /\ d.classes = SetRow(i.classes, s, Mask(Folded[n]) \cup
                              (IF s > Len(i.classes) THEN {} ELSE i.classes[s]))
      /\ d.grams = i.grams \cup Grams(Folded[n], IF i.tri THEN 3 ELSE 2)
      /\ d.lane_grams = i.lane_grams \cup Grams(Lane(n), 2)
      /\ d.recs = Append(i.recs, [off |-> doff, slot |-> s])
      /\ d.owner = Owners(i, Len(i.recs) + 1)
      /\ d.tri = i.tri /\ d.dead_bytes = i.dead_bytes
  <2>1. Registered(i, d, s, n)
    BY <1>1, <1>2, <1>6, RegisterFields, Zenon
  <2> QED
    BY <2>1 DEF Registered
<1>8. Mask(Folded[n]) \cup (IF s > Len(i.classes) THEN {} ELSE i.classes[s]) = Mask(Folded[n])
  <2>1. Len(i.classes) = k
    BY <1>2 DEF Rowed
  <2>2. CASE s <= k
    BY <2>1, <2>2, <1>1
  <2>3. CASE ~(s <= k)
    BY <2>1, <2>3
  <2> QED
    BY <2>2, <2>3
<1>9. /\ Len(d.owner) = Blocks(Len(d.folded))
      /\ \A b \in 1..Len(d.owner) : d.owner[b] = IF b <= Len(c.owner) THEN c.owner[b] ELSE Len(c.recs) + 1
  BY <1>1, <1>7, OwnersFacts
<1> HIDE DEF d
<1>10. Enters(c, d, s, n)
  BY <1>1, <1>6, <1>7, <1>8, <1>9, ZenonT(60) DEF Enters, off, Blocks
<1> QED
  BY <1>7, <1>10 DEF d, i

\* A live slot is given another name: as if it had lost the old one first.
LEMMA Reentered ==
  ASSUME NEW c \in Cols, NEW k \in Nat, Rowed(c, k), NEW s \in 1..k, NEW n \in Name \ BadName,
         FoldedLen(s) \in Nat, OrigLen(s) \in Nat, c.folded_off[s] \in Nat,
         c.folded_off[s] + FoldedLen(s) <= Len(c.folded), FoldedLen(s) > 0,
         Unregister(c, s).classes[s] = {}
  PROVE  LET m == Unregister(c, s)
             d == Register(Unregister(Intern(c, n), s), s, n)
         IN  d \in Cols /\ Enters(m, d, s, n)
<1> DEFINE i == Intern(c, n)
           u == Unregister(i, s)
           m == Unregister(c, s)
           d == Register(u, s, n)
           off == NewOff(Len(c.folded))
           doff == Len(u.folded) - Len(Folded[n]) - 1
           dnat == Len(u.names) - Len(Orig[n])
           Erased(x) == x - 1 \in c.folded_off[s]..(c.folded_off[s] + FoldedLen(s) - 1)
<1>1. /\ i \in Cols
      /\ Len(i.names) = Len(c.names) + Len(Orig[n])
      /\ \A x \in 1..Len(c.names) : i.names[x] = c.names[x]
      /\ \A j \in 1..Len(Orig[n]) : i.names[Len(c.names) + j] = Orig[n][j]
      /\ Len(i.folded) = off + Len(Folded[n]) + 1
      /\ \A x \in 1..Len(c.folded) : i.folded[x] = c.folded[x]
      /\ \A j \in 1..Len(Folded[n]) : i.folded[off + j] = Folded[n][j]
      /\ i.folded[off + Len(Folded[n]) + 1] = Fence
      /\ i.name_off = c.name_off /\ i.folded_off = c.folded_off /\ i.recs = c.recs
      /\ i.owner = c.owner /\ i.head = c.head /\ i.initials = c.initials
      /\ i.classes = c.classes /\ i.grams = c.grams /\ i.lane_grams = c.lane_grams
      /\ i.tri = c.tri /\ i.dead_bytes = c.dead_bytes
  <2>1. Interned(c, i, n)
    BY InternFields
  <2> HIDE DEF i
  <2> QED
    BY <2>1, Zenon DEF Interned
<1> HIDE DEF i
<1>2. Rowed(i, k)
  BY <1>1 DEF Rowed
<1>3. /\ c.names \in Seq(Nat) /\ c.folded \in Seq(Nat) /\ Orig[n] \in Seq(Nat)
      /\ Len(Folded[n]) \in Nat /\ Len(Orig[n]) \in Nat /\ Len(c.folded) \in Nat
      /\ Len(c.names) \in Nat /\ i.folded \in Seq(Nat)
  <2>1. c.names \in Seq(Nat) /\ c.folded \in Seq(Nat) /\ i.folded \in Seq(Nat)
    BY <1>1, ColsFields
  <2>2. Len(c.folded) \in Nat /\ Len(c.names) \in Nat
    BY <2>1
  <2> QED
    BY <2>1, <2>2, NameBytes
<1>5. off \in Nat /\ off = Len(c.folded) /\ Len(c.folded) > 0
  BY <1>3, SMTT(30) DEF NewOff
<1>6. /\ u \in Cols /\ Rowed(u, k) /\ u.names = i.names
      /\ Len(u.folded) = Len(i.folded)
      /\ \A x \in 1..Len(i.folded) : u.folded[x] = IF Erased(x) THEN Fence ELSE i.folded[x]
      /\ u.name_off = c.name_off /\ u.folded_off = c.folded_off
      /\ u.head = [c.head EXCEPT ![s] = <<Fence, Fence>>]
      /\ u.initials = [c.initials EXCEPT ![s] = Blank]
      /\ u.classes = [c.classes EXCEPT ![s] = @ \ Mask(Bytes(i.folded, c.folded_off[s], FoldedLen(s)))]
      /\ u.grams = c.grams /\ u.lane_grams = c.lane_grams /\ u.recs = c.recs
      /\ u.owner = c.owner /\ u.tri = c.tri
      /\ u.dead_bytes = c.dead_bytes + (OrigLen(s) + FoldedLen(s))
  <2>1. Unregistered(i, u, s, k)
    BY <1>1, <1>2, UnregisterFields, Zenon
  <2> QED
    BY <1>1, <2>1 DEF Unregistered
<1>7. /\ m \in Cols /\ Rowed(m, k) /\ m.names = c.names
      /\ Len(m.folded) = Len(c.folded)
      /\ \A x \in 1..Len(c.folded) : m.folded[x] = IF Erased(x) THEN Fence ELSE c.folded[x]
      /\ m.name_off = c.name_off /\ m.folded_off = c.folded_off
      /\ m.head = [c.head EXCEPT ![s] = <<Fence, Fence>>]
      /\ m.initials = [c.initials EXCEPT ![s] = Blank]
      /\ m.classes = [c.classes EXCEPT ![s] = @ \ Mask(Bytes(c.folded, c.folded_off[s], FoldedLen(s)))]
      /\ m.grams = c.grams /\ m.lane_grams = c.lane_grams /\ m.recs = c.recs
      /\ m.owner = c.owner /\ m.tri = c.tri
      /\ m.dead_bytes = c.dead_bytes + (OrigLen(s) + FoldedLen(s))
  <2>1. Unregistered(c, m, s, k)
    BY UnregisterFields
  <2> QED
    BY <2>1 DEF Unregistered
<1> HIDE DEF u, m, off
<1>8. Bytes(i.folded, c.folded_off[s], FoldedLen(s)) = Bytes(c.folded, c.folded_off[s], FoldedLen(s))
  <2> DEFINE a == c.folded_off[s]
             l == FoldedLen(s)
  <2>1. a \in Nat /\ l \in Nat /\ a + l <= Len(c.folded)
    OBVIOUS
  <2> HIDE DEF a, l
  <2> DEFINE lc == Len(c.folded)
             lf == Len(Folded[n])
  <2>a. lc \in Nat /\ lf \in Nat /\ a + l <= lc
    BY <2>1, <1>3, Zenon
  <2>b. off = IF lc = 0 THEN 1 ELSE lc
    BY DEF off, NewOff
  <2>c. Len(i.folded) = off + lf + 1
    BY <1>1, Zenon
  <2> HIDE DEF lc, lf
  <2>d. off \in Nat /\ lc <= off
    BY <2>a, <2>b
  <2>e. a + l <= off + lf + 1
    BY <2>1, <2>a, <2>d
  <2>f. a + l <= Len(i.folded)
    BY <2>c, <2>e, Zenon
  <2>g. i.folded \in Seq(Nat) /\ c.folded \in Seq(Nat)
    BY <1>3, Zenon
  <2>h. \A x \in 1..Len(c.folded) : i.folded[x] = c.folded[x]
    BY <1>1, Zenon
  <2> DEFINE ci == i.folded
             cc == c.folded
  <2>i. /\ a \in Nat /\ l \in Nat /\ ci \in Seq(Nat) /\ cc \in Seq(Nat)
        /\ a + l <= Len(ci) /\ a + l <= Len(cc) /\ \A x \in 1..Len(cc) : ci[x] = cc[x]
    BY <2>1, <2>f, <2>g, <2>h, Zenon
  <2> HIDE DEF ci, cc
  <2>j. Bytes(ci, a, l) = Bytes(cc, a, l)
    BY <2>i, SameBytes, ZenonT(60)
  <2> QED
    BY <2>j, Zenon DEF a, l, ci, cc
<1>9. u.head = m.head /\ u.initials = m.initials /\ u.classes = m.classes
  BY <1>6, <1>7, <1>8
<1>10. doff = off /\ doff \in Nat /\ dnat = Len(c.names) /\ dnat \in Nat
  <2>1. Len(i.folded) \in Nat /\ Len(i.names) \in Nat
    <3>1. i.folded \in Seq(Nat) /\ i.names \in Seq(Nat)
      BY <1>1, ColsFields
    <3> QED
      BY <3>1
  <2>2. Len(i.folded) - Len(Folded[n]) - 1 = off
    <3> DEFINE x == Len(i.folded)
               y == Len(Folded[n])
    <3>1. x \in Nat /\ y \in Nat /\ x = off + y + 1
      BY <1>1, <1>3, <2>1
    <3> HIDE DEF x, y
    <3>2. x - y - 1 = off
      BY <3>1, <1>5
    <3> QED
      BY <3>2, Zenon DEF x, y
  <2>3. Len(i.names) - Len(Orig[n]) = Len(c.names)
    <3> DEFINE x == Len(i.names)
               y == Len(Orig[n])
               z == Len(c.names)
    <3>1. x \in Nat /\ y \in Nat /\ z \in Nat /\ x = z + y
      BY <1>1, <1>3, <1>5, <2>1, Zenon
    <3> HIDE DEF x, y, z
    <3>2. x - y = z
      BY <3>1
    <3> QED
      BY <3>2, Zenon DEF x, y, z
  <2>4. Len(u.folded) = Len(i.folded) /\ u.names = i.names
    BY <1>6
  <2>5. doff = off /\ dnat = Len(c.names)
    BY <2>2, <2>3, <2>4, Zenon
  <2> HIDE DEF doff, dnat
  <2> QED
    BY <2>5, <1>3, <1>5
<1>11. /\ d \in Cols /\ d.names = u.names /\ d.folded = u.folded
      /\ d.name_off = SetRow(u.name_off, s, dnat)
      /\ d.folded_off = SetRow(u.folded_off, s, doff)
      /\ d.head = SetRow(u.head, s, HeadPair(n))
      /\ d.initials = SetRow(u.initials, s, Lane(n))
      /\ d.classes = SetRow(u.classes, s, Mask(Folded[n]) \cup
                              (IF s > Len(u.classes) THEN {} ELSE u.classes[s]))
      /\ d.grams = u.grams \cup Grams(Folded[n], IF u.tri THEN 3 ELSE 2)
      /\ d.lane_grams = u.lane_grams \cup Grams(Lane(n), 2)
      /\ d.recs = Append(u.recs, [off |-> doff, slot |-> s])
      /\ d.owner = Owners(u, Len(u.recs) + 1)
      /\ d.tri = u.tri /\ d.dead_bytes = u.dead_bytes
  <2>1. s \in 1..(k + 1)
    OBVIOUS
  <2> QED
    <3>1. Registered(u, d, s, n)
      BY <1>6, <1>10, <2>1, RegisterFields, Zenon
    <3> QED
      BY <3>1 DEF Registered
<1>12. Mask(Folded[n]) \cup (IF s > Len(u.classes) THEN {} ELSE u.classes[s]) = Mask(Folded[n])
  <2>1. u.classes[s] = {}
    BY <1>9 DEF m
  <2> QED
    BY <2>1
<1>13. /\ Len(d.owner) = Blocks(Len(d.folded))
       /\ \A b \in 1..Len(d.owner) : d.owner[b] = IF b <= Len(m.owner) THEN m.owner[b] ELSE Len(m.recs) + 1
  BY <1>6, <1>7, <1>11, OwnersFacts
\* What has been appended is beyond what is erased.
<1>14. /\ \A x \in 1..Len(m.folded) : u.folded[x] = m.folded[x]
       /\ m.folded # <<>>
       /\ \A j \in 1..Len(Folded[n]) : u.folded[off + j] = Folded[n][j]
       /\ u.folded[off + Len(Folded[n]) + 1] = Fence
  <2>a. /\ \A x \in 1..Len(c.folded) : x \in 1..Len(i.folded)
        /\ \A x \in (Len(c.folded) + 1)..Len(i.folded) :
             x \in 1..Len(i.folded) /\ x \in Nat /\ x > Len(c.folded)
        /\ \A j \in 1..Len(Folded[n]) : off + j \in (Len(c.folded) + 1)..Len(i.folded)
        /\ off + Len(Folded[n]) + 1 \in (Len(c.folded) + 1)..Len(i.folded)
    <3> DEFINE x1 == Len(i.folded)
               y1 == Len(Folded[n])
               z1 == Len(c.folded)
    <3>1. y1 \in Nat /\ z1 \in Nat /\ off = z1 /\ x1 = z1 + y1 + 1
      BY <1>1, <1>3, <1>5
    <3> HIDE DEF x1, y1, z1
    <3>2. /\ \A x \in 1..z1 : x \in 1..x1
          /\ \A x \in (z1 + 1)..x1 : x \in 1..x1 /\ x \in Nat /\ x > z1
          /\ \A j \in 1..y1 : off + j \in (z1 + 1)..x1
          /\ off + y1 + 1 \in (z1 + 1)..x1
      BY <3>1
    <3> QED
      BY <3>2 DEF x1, y1, z1
  <2>1. ASSUME NEW x \in 1..Len(m.folded) PROVE u.folded[x] = m.folded[x]
    <3>1. x \in 1..Len(c.folded)
      BY <1>7
    <3>2. x \in 1..Len(i.folded)
      BY <3>1, <2>a, Zenon
    <3>3. u.folded[x] = IF Erased(x) THEN Fence ELSE i.folded[x]
      BY <3>2, <1>6
    <3>4. m.folded[x] = IF Erased(x) THEN Fence ELSE c.folded[x]
      BY <3>1, <1>7
    <3>5. i.folded[x] = c.folded[x]
      BY <3>1, <1>1, Zenon
    <3> HIDE DEF Erased
    <3> QED
      BY <3>3, <3>4, <3>5
  <2>2. ASSUME NEW x \in (Len(c.folded) + 1)..Len(i.folded) PROVE u.folded[x] = i.folded[x]
    <3>1. x \in 1..Len(i.folded) /\ x \in Nat /\ x > Len(c.folded)
      BY <2>a
    <3>2. \A a, l, y, z \in Nat : a + l <= y /\ z > y => ~(z - 1 \in a..(a + l - 1))
      OBVIOUS
    <3>3. ~Erased(x)
      BY <3>1, <3>2, <1>3, Zenon
    <3> QED
      BY <3>1, <3>3, <1>6
  <2>4. m.folded # <<>>
    BY <1>5, <1>7
  <2> QED
    BY <2>1, <2>2, <2>a, <2>4, <1>1, Zenon
<1>15. /\ Len(u.folded) = off + Len(Folded[n]) + 1 /\ off = NewOff(Len(m.folded))
       /\ Len(u.names) = Len(m.names) + Len(Orig[n])
  BY <1>1, <1>6, <1>7, Zenon DEF off
<1> HIDE DEF d
<1>16. /\ Len(d.names) = Len(m.names) + Len(Orig[n])
       /\ \A x \in 1..Len(m.names) : d.names[x] = m.names[x]
       /\ \A j \in 1..Len(Orig[n]) : d.names[Len(m.names) + j] = Orig[n][j]
  <2>1. d.names = i.names /\ m.names = c.names
    BY <1>6, <1>7, <1>11
  <2> QED
    BY <1>1, <2>1, Zenon
<1>17. /\ Len(d.folded) = off + Len(Folded[n]) + 1
       /\ \A x \in 1..Len(m.folded) : d.folded[x] = m.folded[x]
       /\ m.folded = <<>> => d.folded[1] = Fence
       /\ \A j \in 1..Len(Folded[n]) : d.folded[off + j] = Folded[n][j]
       /\ d.folded[off + Len(Folded[n]) + 1] = Fence
  BY <1>11, <1>14, <1>15
<1>18. /\ d.name_off = SetRow(m.name_off, s, Len(m.names))
       /\ d.folded_off = SetRow(m.folded_off, s, off)
       /\ d.head = SetRow(m.head, s, HeadPair(n))
       /\ d.initials = SetRow(m.initials, s, Lane(n))
       /\ d.classes = SetRow(m.classes, s, Mask(Folded[n]))
  BY <1>6, <1>7, <1>9, <1>10, <1>11, <1>12, Zenon
<1>19. /\ d.grams = m.grams \cup Grams(Folded[n], IF m.tri THEN 3 ELSE 2)
       /\ d.lane_grams = m.lane_grams \cup Grams(Lane(n), 2)
       /\ d.recs = Append(m.recs, [off |-> off, slot |-> s])
       /\ d.tri = m.tri /\ d.dead_bytes = m.dead_bytes
  BY <1>6, <1>7, <1>10, <1>11, ZenonT(60)
<1>20. off = NewOff(Len(m.folded))
  BY <1>15
<1>21. Enters(m, d, s, n)
  BY <1>13, <1>16, <1>17, <1>18, <1>19, <1>20, Zenon DEF Enters, Blocks
<1> QED
  BY <1>11, <1>21 DEF d, u, m, i

-----------------------------------------------------------------------------
(* Sums.                                                                   *)

\* g[k] is the sum of the first k weights.
RunsTo(w, g) == /\ g \in [0..Len(w) -> Nat] /\ g[0] = 0
                /\ \A k \in 1..Len(w) : g[k] = g[k - 1] + w[k]

\* A total is the end of a running sum.
LEMMA TotalRuns ==
  ASSUME NEW w \in Seq(Nat)
  PROVE  \E g : RunsTo(w, g) /\ Total(w) = g[Len(w)]
<1> DEFINE m == Len(w)
           Turn == [k \in 1..m |-> [t \in Nat |-> t + w[k]]]
           Def(g) == [k \in 0..m |-> IF k = 0 THEN 0 ELSE g[k - 1] + w[k]]
           upto == CHOOSE h : h = Def(h)
<1>1. m \in Nat /\ \A k \in 1..m : w[k] \in Nat
  OBVIOUS
<1>2. Total(w) = upto[m]
  BY DEF Total
<1> HIDE DEF m
<1>3. Turn \in Turns(Nat, m)
  BY <1>1 DEF Turns
<1>4. PICK g \in [0..m -> Nat] : g[0] = 0 /\ \A k \in 1..m : g[k] = Turn[k][g[k - 1]]
  <2> HIDE DEF Turn
  <2>1. Reaches(Nat, 0, m, Turn)
    BY <1>1, <1>3, Iterates, Zenon
  <2> QED
    BY <2>1, Zenon DEF Reaches
<1>5. \A k \in 1..m : k - 1 \in 0..m /\ g[k - 1] \in Nat
  BY <1>1, <1>4
<1>6. \A k \in 1..m : g[k] = g[k - 1] + w[k]
  BY <1>4, <1>5, Zenon
<1>7. g = Def(g)
  <2>1. \A k \in 0..m : g[k] = Def(g)[k]
    BY <1>1, <1>4, <1>6
  <2> QED
    BY <1>4, <2>1
<1>8. upto = Def(upto)
  <2> HIDE DEF Def
  <2> QED
    BY <1>7
<1>9. \A k \in 0..m : upto[k] = g[k]
  <2> DEFINE T == {k \in 0..m : upto[k] = g[k]}
  <2>1. 0 \in T
    <3>1. 0 \in 0..m /\ Def(upto)[0] = 0
      BY <1>1
    <3>2. upto[0] = Def(upto)[0]
      <4> HIDE DEF Def, upto
      <4> QED
        BY <1>8
    <3> HIDE DEF upto, Def
    <3> QED
      BY <1>4, <3>1, <3>2
  <2>2. ASSUME NEW k \in 0..(m - 1), k \in T PROVE k + 1 \in T
    <3>1. k + 1 \in 1..m /\ k + 1 \in 0..m /\ k + 1 # 0 /\ (k + 1) - 1 = k
      BY <1>1
    <3>2. Def(upto)[k + 1] = upto[k] + w[k + 1]
      BY <3>1
    <3>3. upto[k + 1] = Def(upto)[k + 1]
      <4> HIDE DEF Def, upto
      <4> QED
        BY <1>8
    <3>4. g[k + 1] = g[k] + w[k + 1]
      BY <3>1, <1>6
    <3> HIDE DEF upto, Def
    <3> QED
      BY <2>2, <3>1, <3>2, <3>3, <3>4
  <2> HIDE DEF T
  <2>3. \A k \in 0..m : k \in T
    BY <1>1, <2>1, <2>2, InductionUpTo, Zenon
  <2> QED
    BY <2>3 DEF T
<1>10. RunsTo(w, g)
  BY <1>4, <1>6 DEF RunsTo, m
<1> HIDE DEF upto
<1>11. Total(w) = g[m]
  BY <1>1, <1>2, <1>9
<1> QED
  BY <1>10, <1>11 DEF m

\* Equal weights have equal sums, up to any point.
LEMMA RunsAgree ==
  ASSUME NEW w \in Seq(Nat), NEW v \in Seq(Nat), NEW g, NEW h, RunsTo(w, g), RunsTo(v, h),
         NEW k \in Nat, k <= Len(w), k <= Len(v), \A i \in 1..k : v[i] = w[i]
  PROVE  h[k] = g[k]
<1> DEFINE T == {i \in 0..k : h[i] = g[i]}
<1>1. 0 \in T
  BY DEF RunsTo
<1>2. ASSUME NEW i \in 0..(k - 1), i \in T PROVE i + 1 \in T
  <2>1. i + 1 \in 1..k /\ i + 1 \in 1..Len(w) /\ i + 1 \in 1..Len(v) /\ (i + 1) - 1 = i
    OBVIOUS
  <2>2. g[i + 1] = g[i] + w[i + 1] /\ h[i + 1] = h[i] + v[i + 1]
    BY <2>1, Zenon DEF RunsTo
  <2> QED
    BY <1>2, <2>1, <2>2
<1> HIDE DEF T
<1>3. \A i \in 0..k : i \in T
  BY <1>1, <1>2, InductionUpTo, Zenon
<1> QED
  BY <1>3 DEF T

\* One weight more, and one weight changed.
LEMMA TotalAppended ==
  ASSUME NEW w \in Seq(Nat), NEW v \in Seq(Nat), Len(v) = Len(w) + 1,
         \A i \in 1..Len(w) : v[i] = w[i]
  PROVE  Total(v) = Total(w) + v[Len(v)] /\ Total(w) \in Nat /\ v[Len(v)] \in Nat
<1>1. PICK g : RunsTo(w, g) /\ Total(w) = g[Len(w)]
  BY TotalRuns
<1>2. PICK h : RunsTo(v, h) /\ Total(v) = h[Len(v)]
  BY TotalRuns
<1>3. /\ Len(w) \in Nat /\ Len(w) <= Len(w) /\ Len(w) <= Len(v) /\ Len(w) \in 0..Len(w)
      /\ Len(v) \in 1..Len(v) /\ Len(v) - 1 = Len(w) /\ v[Len(v)] \in Nat
  OBVIOUS
<1>4. h[Len(w)] = g[Len(w)]
  <2> DEFINE k == Len(w)
  <2>1. /\ RunsTo(w, g) /\ RunsTo(v, h) /\ k \in Nat /\ k <= Len(w) /\ k <= Len(v)
        /\ \A i \in 1..k : v[i] = w[i]
    BY <1>1, <1>2, <1>3
  <2> HIDE DEF k
  <2>2. h[k] = g[k]
    BY <2>1, RunsAgree
  <2> QED
    BY <2>2 DEF k
<1>5. h[Len(v)] = h[Len(v) - 1] + v[Len(v)]
  BY <1>2, <1>3, Zenon DEF RunsTo
<1>6. g[Len(w)] \in Nat
  BY <1>1, <1>3, Zenon DEF RunsTo
<1> QED
  BY <1>1, <1>2, <1>3, <1>4, <1>5, <1>6

\* Changing one weight moves the total by the difference.
LEMMA TotalChanged ==
  ASSUME NEW w \in Seq(Nat), NEW v \in Seq(Nat), Len(v) = Len(w), NEW s \in 1..Len(w),
         \A i \in 1..Len(w) : i # s => v[i] = w[i]
  PROVE  /\ Total(v) + w[s] = Total(w) + v[s]
         /\ Total(v) \in Nat /\ Total(w) \in Nat /\ w[s] \in Nat /\ v[s] \in Nat
<1>1. PICK g : RunsTo(w, g) /\ Total(w) = g[Len(w)]
  BY TotalRuns
<1>2. PICK h : RunsTo(v, h) /\ Total(v) = h[Len(v)]
  BY TotalRuns
<1>3. Len(w) \in Nat /\ s \in Nat /\ \A i \in 1..Len(w) : w[i] \in Nat /\ v[i] \in Nat
  OBVIOUS
<1>4. /\ \A i \in 0..Len(w) : g[i] \in Nat /\ h[i] \in Nat
      /\ \A i \in 1..Len(w) : g[i] = g[i - 1] + w[i] /\ h[i] = h[i - 1] + v[i]
  BY <1>1, <1>2, Zenon DEF RunsTo
<1>5. h[s - 1] = g[s - 1]
  <2>1. s - 1 \in Nat /\ s - 1 <= Len(w) /\ \A i \in 1..(s - 1) : v[i] = w[i]
    BY <1>3
  <2> QED
    BY <1>1, <1>2, <2>1, RunsAgree, SMTT(30)
<1> DEFINE T == {i \in 0..(Len(w) - s) : h[s + i] + w[s] = g[s + i] + v[s]}
<1>6. 0 \in T
  <2>1. s - 1 \in 0..Len(w) /\ s \in 0..Len(w) /\ s + 0 = s
    BY <1>3
  <2>2. g[s] = g[s - 1] + w[s] /\ h[s] = h[s - 1] + v[s]
    BY <1>4
  <2>3. h[s] + w[s] = g[s] + v[s]
    <3>1. g[s - 1] \in Nat /\ w[s] \in Nat /\ v[s] \in Nat
      BY <1>3, <1>4, <2>1
    <3>2. \A a1, b1, c1 \in Nat : (a1 + c1) + b1 = (a1 + b1) + c1
      OBVIOUS
    <3> QED
      BY <1>5, <2>2, <3>1, <3>2
  <2> QED
    BY <1>3, <2>1, <2>3
<1>7. ASSUME NEW i \in 0..((Len(w) - s) - 1), i \in T PROVE i + 1 \in T
  <2>1. /\ i + 1 \in 0..(Len(w) - s) /\ s + (i + 1) \in 1..Len(w) /\ (s + (i + 1)) - 1 = s + i
        /\ s + i \in 0..Len(w) /\ s + (i + 1) # s /\ s + (i + 1) \in 0..Len(w)
    BY <1>3
  <2> DEFINE x == s + (i + 1)
             y == s + i
  <2>2. /\ g[x] = g[y] + w[x] /\ h[x] = h[y] + v[x] /\ v[x] = w[x]
        /\ g[x] \in Nat /\ h[x] \in Nat /\ g[y] \in Nat /\ h[y] \in Nat /\ w[x] \in Nat
    BY <1>3, <1>4, <2>1
  <2>3. h[y] + w[s] = g[y] + v[s]
    BY <1>7
  <2>a. v[s] \in Nat /\ w[s] \in Nat
    BY <1>3
  <2> HIDE DEF x, y
  <2>4. h[x] + w[s] = g[x] + v[s]
    <3> DEFINE a1 == h[y]
               b1 == w[s]
               c1 == g[y]
               d1 == v[s]
               e1 == w[x]
    <3>2. /\ a1 \in Nat /\ b1 \in Nat /\ c1 \in Nat /\ d1 \in Nat /\ e1 \in Nat
          /\ a1 + b1 = c1 + d1 /\ h[x] = a1 + e1 /\ g[x] = c1 + e1
      BY <2>a, <2>2, <2>3
    <3> HIDE DEF a1, b1, c1, d1, e1
    <3>4. (a1 + e1) + b1 = (c1 + e1) + d1
      BY <3>2
    <3>3. h[x] + b1 = g[x] + d1
      BY <3>2, <3>4
    <3> QED
      BY <3>3 DEF b1, d1
  <2> QED
    BY <2>1, <2>4 DEF x
<1> HIDE DEF T
<1>8. Len(w) - s \in Nat /\ Len(w) - s \in 0..(Len(w) - s) /\ s + (Len(w) - s) = Len(w)
  BY <1>3
<1>9. Len(w) - s \in T
  <2>1. \A i \in 0..(Len(w) - s) : i \in T
    BY <1>6, <1>7, <1>8, InductionUpTo, Zenon
  <2> QED
    BY <1>8, <2>1
<1>10. h[Len(w)] + w[s] = g[Len(w)] + v[s]
  BY <1>8, <1>9 DEF T
<1> QED
  BY <1>1, <1>2, <1>3, <1>4, <1>10

\* Nothing sums to nothing.
LEMMA TotalZero ==
  ASSUME NEW w \in Seq(Nat), \A i \in 1..Len(w) : w[i] = 0
  PROVE  Total(w) = 0
<1>1. PICK g : RunsTo(w, g) /\ Total(w) = g[Len(w)]
  BY TotalRuns
<1> DEFINE T == {i \in 0..Len(w) : g[i] = 0}
<1>2. 0 \in T
  BY <1>1 DEF RunsTo
<1>3. ASSUME NEW i \in 0..(Len(w) - 1), i \in T PROVE i + 1 \in T
  <2>1. i + 1 \in 1..Len(w) /\ (i + 1) - 1 = i
    OBVIOUS
  <2>2. g[i + 1] = g[i] + w[i + 1]
    BY <1>1, <2>1 DEF RunsTo
  <2> QED
    BY <1>3, <2>1, <2>2
<1> HIDE DEF T
<1>4. Len(w) \in Nat
  OBVIOUS
<1>5. \A i \in 0..Len(w) : i \in T
  BY <1>2, <1>3, <1>4, InductionUpTo, Zenon
<1> QED
  BY <1>1, <1>4, <1>5 DEF T

-----------------------------------------------------------------------------
(* What the arenas and the columns hold of a table.                        *)

\* The slots of a table that hold a file.
Living(es) == {s \in 1..Len(es) : ~es[s].dead}

\* No block's owner starts after the block does.
Owned(c) ==
  /\ Len(c.owner) = Blocks(Len(c.folded))
  /\ \A b \in 1..Len(c.owner) :
       /\ c.owner[b] \in 1..Len(c.recs)
       /\ c.owner[b] # 1 => c.recs[c.owner[b]].off <= (b - 1) * OwnerBlock

\* The columns read without the arenas: a live slot's are its name's, any other's inert.
Columned(c, es) ==
  /\ \A s \in Living(es) : /\ c.head[s] = HeadPair(es[s].name)
                          /\ c.initials[s] = Lane(es[s].name)
                          /\ c.classes[s] = Mask(Folded[es[s].name])
  /\ \A s \in 1..Len(es) : es[s].dead => /\ c.head[s] = <<Fence, Fence>>
                                         /\ c.initials[s] = Blank /\ c.classes[s] = {}

\* The presence sets lack no gram of a live name.
Seen(c, es) ==
  \A s \in Living(es) : /\ Grams(Folded[es[s].name], IF c.tri THEN 3 ELSE 2) \subseteq c.grams
                       /\ Grams(Lane(es[s].name), 2) \subseteq c.lane_grams

\* Each byte of the arenas is a live name's, a fence, or dead.
NameWeight(n) == Len(Orig[n]) + Len(Folded[n])
Weights(es) == [s \in 1..Len(es) |-> IF es[s].dead THEN 0 ELSE NameWeight(es[s].name)]
Accounted(c, es) ==
  Len(c.names) + Len(c.folded) =
    Total(Weights(es)) + c.dead_bytes + (IF c.folded = <<>> THEN 0 ELSE Len(c.recs) + 1)

\* What the columns c hold of the table es.
Kept(c, es) ==
  /\ c \in Cols /\ Rowed(c, Len(es))
  /\ \A r \in 1..Len(c.recs) : c.recs[r].slot \in 1..Len(es)
  /\ FoldedLaid(c.folded, Len(c.folded), c.folded_off, c.recs, Living(es), es)
  /\ NamesLaid(c.names, Len(c.names), c.name_off, c.folded_off, Living(es), es)
  /\ Owned(c) /\ Columned(c, es) /\ Seen(c, es) /\ Accounted(c, es)
  /\ Len(c.names) <= MaxArena /\ Len(c.folded) <= MaxArena

\* A name weighs its two spellings.
LEMMA WeightFacts ==
  ASSUME NEW n \in Name \ BadName
  PROVE  NameWeight(n) \in Nat /\ NameWeight(n) = Len(Orig[n]) + Len(Folded[n])
<1> DEFINE x == Len(Orig[n])
           y == Len(Folded[n])
<1>1. x \in Nat /\ y \in Nat
  BY NameBytes
<1> HIDE DEF x, y
<1>2. x + y \in Nat
  BY <1>1
<1> QED
  BY <1>2, Zenon DEF NameWeight, x, y

\* The weights of a table are those of its live names.
LEMMA WeightsFacts ==
  ASSUME NEW es \in Seq(Entry), \A s \in Living(es) : es[s].name \in Name \ BadName
  PROVE  /\ Weights(es) \in Seq(Nat) /\ Len(Weights(es)) = Len(es) /\ Len(es) \in Nat
         /\ \A s \in 1..Len(es) : Weights(es)[s] = IF s \in Living(es) THEN NameWeight(es[s].name) ELSE 0
<1> DEFINE m == Len(es)
<1>1. m \in Nat
  OBVIOUS
<1>2. \A s \in 1..m : es[s].dead \in BOOLEAN
  <2>1. \A s \in 1..m : es[s] \in Entry
    OBVIOUS
  <2> QED
    BY <2>1 DEF Entry
<1> HIDE DEF m
<1>3. Weights(es) = [s \in 1..m |-> IF es[s].dead THEN 0 ELSE NameWeight(es[s].name)]
  BY DEF Weights, m
<1>4. \A s \in 1..m : es[s].dead \/ s \in Living(es)
  BY DEF Living, m
<1>5. \A s \in 1..m : (IF es[s].dead THEN 0 ELSE NameWeight(es[s].name)) \in Nat
  BY <1>4, WeightFacts, Zenon
<1>6. Weights(es) \in [1..m -> Nat]
  BY <1>3, <1>5
<1>7. Weights(es) \in Seq(Nat) /\ Len(Weights(es)) = m
  BY <1>1, <1>6
<1>8. \A s \in 1..m : s \in Living(es) <=> ~es[s].dead
  BY DEF Living, m
<1> QED
  BY <1>1, <1>3, <1>7, <1>8 DEF m

\* The live names of a table that is kept are usable, and each has its bytes.
LEMMA KeptNames ==
  ASSUME NEW c, NEW es \in Seq(Entry), Kept(c, es)
  PROVE  /\ \A s \in Living(es) : /\ es[s].name \in Name \ BadName
                                 /\ Owns(c.folded, Len(c.folded), c.folded_off, c.recs, Living(es), es, s)
         /\ Records(c.folded, Len(c.folded), c.recs)
         /\ Len(c.folded) \in Nat /\ Len(c.names) \in Nat /\ Len(es) \in Nat
         /\ c.folded \in Seq(Nat) /\ c.names \in Seq(Nat) /\ c.recs \in Seq(Rec)
<1>1. c \in Cols /\ FoldedLaid(c.folded, Len(c.folded), c.folded_off, c.recs, Living(es), es)
  BY DEF Kept
<1>2. c.folded \in Seq(Nat) /\ c.names \in Seq(Nat) /\ c.recs \in Seq(Rec)
  BY <1>1, ColsFields
<1>3. Len(c.folded) \in Nat /\ Len(c.names) \in Nat /\ Len(es) \in Nat
  BY <1>2
<1>4. /\ \A s \in Living(es) : Owns(c.folded, Len(c.folded), c.folded_off, c.recs, Living(es), es, s)
      /\ Records(c.folded, Len(c.folded), c.recs)
  BY <1>1, <1>2, <1>3, OwnRecord, RecordFacts
<1>5. \A s \in Living(es) : es[s].name \in Name \ BadName
  BY <1>4 DEF Owns
<1> QED
  BY <1>2, <1>3, <1>4, <1>5

\* Bytes equal one by one are equal as a slice.
LEMMA BytesAre ==
  ASSUME NEW col \in Seq(Nat), NEW off \in Nat, NEW w \in Seq(Nat), off + Len(w) <= Len(col),
         \A j \in 1..Len(w) : col[off + j] = w[j]
  PROVE  Bytes(col, off, Len(w)) = w
<1> DEFINE m == Len(w)
<1>1. m \in Nat /\ Len(col) \in Nat /\ w = [j \in 1..m |-> w[j]]
  OBVIOUS
<1> HIDE DEF m
<1>a. off + m <= Len(col)
  BY DEF m
<1>2. Bytes(col, off, m) = [j \in 1..m |-> col[off + j]]
  BY <1>1, <1>a, BytesForm, Zenon
<1>3. \A j \in 1..m : col[off + j] = w[j]
  BY DEF m
<1>4. Bytes(col, off, m) = [j \in 1..m |-> w[j]]
  BY <1>2, <1>3, Zenon
<1> QED
  BY <1>1, <1>4 DEF m

\* es is the table with slot s a tombstone.
Leaves(s, es) ==
  /\ es \in Seq(Entry) /\ Len(es) = Len(entries) /\ es[s].dead
  /\ \A t \in 1..Len(entries) : t # s => es[t] = entries[t]

\* unregister_slot leaves what is right for the table without the slot.
LEMMA LeaveStep ==
  ASSUME entries \in Seq(Entry), NEW c, Kept(c, entries), NEW s \in Living(entries),
         NEW es, Leaves(s, es)
  PROVE  /\ Kept(Unregister(c, s), es) /\ Unregister(c, s).classes[s] = {}
         /\ Unregister(c, s).names = c.names /\ Len(Unregister(c, s).folded) = Len(c.folded)
<1> DEFINE d == Unregister(c, s)
           k == Len(entries)
           n == entries[s].name
           flen == Len(c.folded)
<1>1. /\ \A t \in Living(entries) :
           /\ entries[t].name \in Name \ BadName
           /\ Owns(c.folded, flen, c.folded_off, c.recs, Living(entries), entries, t)
      /\ flen \in Nat /\ Len(c.names) \in Nat /\ k \in Nat
      /\ c.folded \in Seq(Nat) /\ c.names \in Seq(Nat) /\ c.recs \in Seq(Rec)
  BY KeptNames
<1>2. /\ c \in Cols /\ Rowed(c, k)
      /\ \A r \in 1..Len(c.recs) : c.recs[r].slot \in 1..k
      /\ FoldedLaid(c.folded, flen, c.folded_off, c.recs, Living(entries), entries)
      /\ NamesLaid(c.names, Len(c.names), c.name_off, c.folded_off, Living(entries), entries)
      /\ Owned(c) /\ Columned(c, entries) /\ Seen(c, entries) /\ Accounted(c, entries)
      /\ Len(c.names) <= MaxArena /\ flen <= MaxArena
  BY DEF Kept
<1>3. s \in 1..k /\ n \in Name \ BadName /\ ~entries[s].dead
  BY <1>1, Zenon DEF Living
<1>4. /\ FoldedLen(s) = Len(Folded[n]) /\ OrigLen(s) = Len(Orig[n])
      /\ FoldedLen(s) \in Nat /\ OrigLen(s) \in Nat
  BY <1>3, NameBytes DEF FoldedLen, OrigLen
<1>5. es \in Seq(Entry) /\ Len(es) = k /\ es[s].dead /\ \A t \in 1..k : t # s => es[t] = entries[t]
  BY DEF Leaves
<1> HIDE DEF d, k, n, flen
<1>6. Living(es) = Living(entries) \ {s}
  <2>1. \A t \in 1..k : t \in Living(es) <=> t \in Living(entries) /\ t # s
    BY <1>3, <1>5 DEF Living, k
  <2>2. Living(es) \subseteq 1..k /\ Living(entries) \subseteq 1..k
    BY <1>5 DEF Living, k
  <2> QED
    BY <2>1, <2>2
<1>7. Unregistered(c, d, s, k)
  BY <1>1, <1>2, <1>3, <1>4, UnregisterFields DEF d
<1>8. /\ d \in Cols /\ Rowed(d, k) /\ d.names = c.names /\ Len(d.folded) = flen
      /\ \A i \in 1..flen : d.folded[i] =
           IF i - 1 \in c.folded_off[s]..(c.folded_off[s] + Len(Folded[entries[s].name]) - 1)
           THEN Fence ELSE c.folded[i]
      /\ d.name_off = c.name_off /\ d.folded_off = c.folded_off
      /\ d.head[s] = <<Fence, Fence>> /\ d.initials[s] = Blank
      /\ d.classes[s] = c.classes[s] \ Mask(Bytes(c.folded, c.folded_off[s], FoldedLen(s)))
      /\ \A t \in 1..k : t # s => /\ d.head[t] = c.head[t] /\ d.initials[t] = c.initials[t]
                                  /\ d.classes[t] = c.classes[t]
      /\ d.grams = c.grams /\ d.lane_grams = c.lane_grams /\ d.recs = c.recs
      /\ d.owner = c.owner /\ d.tri = c.tri
      /\ d.dead_bytes = c.dead_bytes + (OrigLen(s) + FoldedLen(s))
  BY <1>4, <1>7, Zenon DEF Unregistered, flen, n
<1>9. d.classes[s] = {}
  <2>1. /\ c.folded_off[s] \in Nat
        /\ c.folded_off[s] + Len(Folded[n]) + 1 <= flen
        /\ \A j \in 1..Len(Folded[n]) : c.folded[c.folded_off[s] + j] = Folded[n][j]
    BY <1>1 DEF Owns, n
  <2>2. Folded[n] \in Seq(Nat) /\ Len(Folded[n]) \in Nat
    BY <1>3, NameBytes
  <2>3. c.folded_off[s] + Len(Folded[n]) <= Len(c.folded)
    <3> DEFINE x == Len(Folded[n])
               y == c.folded_off[s]
    <3>1. x \in Nat /\ y \in Nat /\ y + x + 1 <= flen
      BY <2>1, <2>2
    <3> HIDE DEF x, y
    <3>2. y + x <= flen
      BY <1>1, <3>1
    <3> QED
      BY <3>2 DEF x, y, flen
  <2>4. Bytes(c.folded, c.folded_off[s], Len(Folded[n])) = Folded[n]
    BY <1>1, <2>1, <2>2, <2>3, BytesAre, Zenon
  <2>5. c.classes[s] = Mask(Folded[n])
    BY <1>2 DEF Columned, n
  <2> QED
    BY <1>4, <1>8, <2>4, <2>5
<1>10. \A t \in Living(entries) \ {s} : es[t].name = entries[t].name
  BY <1>5 DEF Living, k
<1>11. FoldedLaid(d.folded, flen, d.folded_off, d.recs, Living(es), es)
  <2> DEFINE fb == c.folded
             fb2 == d.folded
             fo == c.folded_off
             rs == c.recs
             live == Living(entries)
  <2>1. /\ FoldedLaid(fb, flen, fo, rs, live, entries) /\ flen \in Nat /\ rs \in Seq(Rec) /\ s \in live
        /\ Fenced(fb, fb2, flen, fo[s], Len(Folded[entries[s].name]))
        /\ \A t \in live \ {s} : es[t].name = entries[t].name
    BY <1>1, <1>2, <1>8, <1>10 DEF Fenced
  <2> HIDE DEF fb, fb2, fo, rs, live
  <2>2. FoldedLaid(fb2, flen, fo, rs, live \ {s}, es)
    BY <2>1, FoldedErased
  <2> QED
    BY <1>6, <1>8, <2>2 DEF fb2, fo, rs, live
<1>12. NamesLaid(d.names, Len(d.names), d.name_off, d.folded_off, Living(es), es)
  <2> DEFINE nb == c.names
             no == c.name_off
             fo == c.folded_off
             live == Living(entries)
  <2>1. /\ NamesLaid(nb, Len(nb), no, fo, live, entries)
        /\ \A t \in live \ {s} : es[t].name = entries[t].name
    BY <1>2, <1>10
  <2> HIDE DEF nb, no, fo, live
  <2>2. NamesLaid(nb, Len(nb), no, fo, live \ {s}, es)
    BY <2>1, NamesErased, Zenon
  <2> QED
    BY <1>6, <1>8, <2>2 DEF nb, no, fo, live
<1>13. Owned(d)
  BY <1>2, <1>8, Zenon DEF Owned, flen
<1>14. Columned(d, es)
  <2>1. ASSUME NEW t \in Living(es)
        PROVE  /\ d.head[t] = HeadPair(es[t].name) /\ d.initials[t] = Lane(es[t].name)
               /\ d.classes[t] = Mask(Folded[es[t].name])
    <3>1. t \in Living(entries) /\ t # s /\ t \in 1..k
      BY <1>6 DEF Living, k
    <3> QED
      BY <1>2, <1>8, <1>10, <3>1 DEF Columned
  <2>2. ASSUME NEW t \in 1..Len(es), es[t].dead
        PROVE  d.head[t] = <<Fence, Fence>> /\ d.initials[t] = Blank /\ d.classes[t] = {}
    <3>1. CASE t = s
      BY <1>8, <1>9, <3>1
    <3>2. CASE t # s
      <4>1. t \in 1..k /\ entries[t].dead
        BY <1>5, <2>2, <3>2
      <4> QED
        BY <1>2, <1>8, <3>2, <4>1 DEF Columned, k
    <3> QED
      BY <3>1, <3>2
  <2> QED
    BY <2>1, <2>2 DEF Columned
<1>15. Seen(d, es)
  BY <1>2, <1>6, <1>8, <1>10 DEF Seen
<1>16. Accounted(d, es)
  <2> DEFINE w == Weights(entries)
             v == Weights(es)
             nw == NameWeight(n)
  <2>1. /\ w \in Seq(Nat) /\ Len(w) = k
        /\ \A t \in 1..k : w[t] = IF t \in Living(entries) THEN NameWeight(entries[t].name) ELSE 0
    BY <1>1, WeightsFacts DEF k
  <2>2. /\ v \in Seq(Nat) /\ Len(v) = k
        /\ \A t \in 1..k : v[t] = IF t \in Living(es) THEN NameWeight(es[t].name) ELSE 0
    <3>1. \A t \in Living(es) : es[t].name \in Name \ BadName
      BY <1>1, <1>6, <1>10
    <3> QED
      BY <1>5, <3>1, WeightsFacts, Zenon
  <2>3. w[s] = nw /\ v[s] = 0
    BY <1>3, <1>6, <2>1, <2>2 DEF n
  <2>4. \A t \in 1..Len(w) : t # s => v[t] = w[t]
    BY <1>6, <1>10, <2>1, <2>2, Zenon
  <2> HIDE DEF w, v, nw
  <2>5. Total(v) + w[s] = Total(w) + v[s] /\ Total(v) \in Nat /\ Total(w) \in Nat
    BY <1>3, <2>1, <2>2, <2>4, TotalChanged, Zenon
  <2>6. nw \in Nat /\ nw = OrigLen(s) + FoldedLen(s)
    BY <1>3, <1>4, WeightFacts, Zenon DEF nw
  <2>7. Total(v) + nw = Total(w)
    BY <2>3, <2>5
  <2>8. d.dead_bytes = c.dead_bytes + nw /\ c.dead_bytes \in Nat
    BY <1>2, <1>8, <2>6, ColsFields
  <2>9. d.folded = <<>> <=> c.folded = <<>>
    <3>1. d.folded \in Seq(Nat) /\ Len(d.folded) = Len(c.folded)
      BY <1>8, ColsFields DEF flen
    <3> QED
      BY <1>1, <3>1
  <2> DEFINE rest == IF c.folded = <<>> THEN 0 ELSE Len(c.recs) + 1
  <2>10. rest \in Nat /\ rest = IF d.folded = <<>> THEN 0 ELSE Len(d.recs) + 1
    BY <1>1, <1>8, <2>9
  <2> HIDE DEF rest
  <2>11. Len(c.names) + flen = Total(w) + c.dead_bytes + rest
    BY <1>2, Zenon DEF Accounted, w, rest, flen
  <2>12. Len(c.names) + flen = Total(v) + d.dead_bytes + rest
    BY <2>5, <2>6, <2>7, <2>8, <2>10, <2>11
  <2> QED
    BY <1>8, <2>10, <2>12 DEF Accounted, v
<1>17. Kept(d, es)
  BY <1>2, <1>5, <1>8, <1>11, <1>12, <1>13, <1>14, <1>15, <1>16 DEF Kept
<1> QED
  BY <1>8, <1>9, <1>17 DEF d, flen

\* A block no owner is kept for starts beyond the arena.
LEMMA BeyondBlocks ==
  ASSUME NEW len \in Nat, NEW b \in Nat, ~(b <= Blocks(len)), b > 0
  PROVE  len <= (b - 1) * OwnerBlock
<1> DEFINE x == len + OwnerBlock - 1
<1>1. OwnerBlock \in Nat \ {0}
  BY ArenaAssumption
<1>2. x \in Nat /\ x = len + OwnerBlock - 1
  BY <1>1
<1> DEFINE y == x \div OwnerBlock
<1>3. y \in Nat /\ x < (y + 1) * OwnerBlock
  <2> HIDE DEF x
  <2> QED
    BY <1>1, <1>2
<1>4. b > y
  <2>1. y = Blocks(len)
    BY DEF Blocks
  <2> HIDE DEF y, x
  <2> QED
    BY <1>3, <2>1
<1> HIDE DEF x, y
<1> DEFINE z == b - 1
<1>5. z \in Nat /\ z >= y
  BY <1>3, <1>4
<1> HIDE DEF z
<1>6. x < z * OwnerBlock + OwnerBlock
  <2>1. (y + 1) * OwnerBlock = y * OwnerBlock + OwnerBlock
    BY <1>1, <1>3
  <2>2. y * OwnerBlock <= z * OwnerBlock
    BY <1>1, <1>3, <1>5
  <2>3. z * OwnerBlock \in Nat /\ y * OwnerBlock \in Nat
    BY <1>1, <1>3, <1>5
  <2> QED
    BY <1>1, <1>2, <1>3, <2>1, <2>2, <2>3
<1>7. z * OwnerBlock \in Nat
  BY <1>1, <1>5
<1>8. len <= z * OwnerBlock
  BY <1>1, <1>2, <1>6, <1>7
<1> QED
  BY <1>8 DEF z

\* es is the table old with a file of name n in slot s.
Enrols(old, s, n, es) ==
  /\ es \in Seq(Entry) /\ ~es[s].dead /\ es[s].name = n
  /\ Len(es) = (IF s = Len(old) + 1 THEN Len(old) + 1 ELSE Len(old))
  /\ \A t \in 1..Len(old) : t # s => es[t] = old[t]

\* A name in place for a slot that holds none is right for the table with the file.
LEMMA EnterStep ==
  ASSUME NEW c, NEW old \in Seq(Entry), Kept(c, old), NEW s \in 1..(Len(old) + 1), s \notin Living(old),
         NEW n \in Name \ BadName, NEW d \in Cols, Enters(c, d, s, n),
         Len(c.names) + Len(Orig[n]) <= MaxArena,
         NewOff(Len(c.folded)) + Len(Folded[n]) + 1 <= MaxArena,
         NEW es, Enrols(old, s, n, es)
  PROVE  Kept(d, es)
<1> DEFINE k == Len(old)
           flen == Len(c.folded)
           nlen == Len(c.names)
           fl == Len(Folded[n])
           nl == Len(Orig[n])
           off == NewOff(flen)
<1>1. /\ \A t \in Living(old) :
           /\ old[t].name \in Name \ BadName
           /\ Owns(c.folded, flen, c.folded_off, c.recs, Living(old), old, t)
      /\ flen \in Nat /\ nlen \in Nat /\ k \in Nat
      /\ c.folded \in Seq(Nat) /\ c.names \in Seq(Nat) /\ c.recs \in Seq(Rec)
  BY KeptNames
<1>2. /\ c \in Cols /\ Rowed(c, k)
      /\ \A r \in 1..Len(c.recs) : c.recs[r].slot \in 1..k
      /\ FoldedLaid(c.folded, flen, c.folded_off, c.recs, Living(old), old)
      /\ NamesLaid(c.names, nlen, c.name_off, c.folded_off, Living(old), old)
      /\ Owned(c) /\ Columned(c, old) /\ Seen(c, old) /\ Accounted(c, old)
  BY DEF Kept
<1>3. /\ es \in Seq(Entry) /\ ~es[s].dead /\ es[s].name = n
      /\ Len(es) = (IF s = k + 1 THEN k + 1 ELSE k)
      /\ \A t \in 1..k : t # s => es[t] = old[t]
  BY DEF Enrols
<1>4. fl \in Nat /\ fl > 0 /\ nl \in Nat
  BY NameBytes
<1>5. off \in Nat /\ off > 0 /\ flen <= off /\ (flen = 0 => off = 1) /\ (flen # 0 => off = flen)
  BY <1>1 DEF NewOff
<1>6. /\ Len(d.names) = nlen + nl
      /\ \A i \in 1..nlen : d.names[i] = c.names[i]
      /\ \A j \in 1..nl : d.names[nlen + j] = Orig[n][j]
      /\ Len(d.folded) = off + fl + 1
      /\ \A i \in 1..flen : d.folded[i] = c.folded[i]
      /\ c.folded = <<>> => d.folded[1] = Fence
      /\ \A j \in 1..fl : d.folded[off + j] = Folded[n][j]
      /\ d.folded[off + fl + 1] = Fence
      /\ d.name_off = SetRow(c.name_off, s, nlen)
      /\ d.folded_off = SetRow(c.folded_off, s, off)
      /\ d.head = SetRow(c.head, s, HeadPair(n))
      /\ d.initials = SetRow(c.initials, s, Lane(n))
      /\ d.classes = SetRow(c.classes, s, Mask(Folded[n]))
      /\ d.grams = c.grams \cup Grams(Folded[n], IF c.tri THEN 3 ELSE 2)
      /\ d.lane_grams = c.lane_grams \cup Grams(Lane(n), 2)
      /\ d.recs = Append(c.recs, [off |-> off, slot |-> s])
      /\ Len(d.owner) = Blocks(Len(d.folded))
      /\ \A b \in 1..Len(d.owner) : d.owner[b] = IF b <= Len(c.owner) THEN c.owner[b]
                                                  ELSE Len(c.recs) + 1
      /\ d.tri = c.tri /\ d.dead_bytes = c.dead_bytes
  BY DEF Enters, Blocks
<1>7. nlen + nl <= MaxArena /\ off + fl + 1 <= MaxArena
  BY Zenon
<1> HIDE DEF k, flen, nlen, fl, nl, off
<1>8. s \in Nat /\ s \in 1..Len(es) /\ 1..k \subseteq 1..Len(es) /\ s \in 1..(k + 1)
      /\ Len(es) \in Nat /\ \A t \in 1..Len(es) : t # s => t \in 1..k
  <2>1. s \in 1..(k + 1)
    BY DEF k
  <2> QED
    BY <1>1, <1>3, <2>1
<1>9. /\ Living(es) = Living(old) \cup {s} /\ Living(old) \subseteq 1..k
      /\ \A t \in Living(old) : t # s /\ es[t] = old[t] /\ es[t].name = old[t].name
  <2>1. Living(old) \subseteq 1..k /\ \A t \in Living(old) : t # s
    BY DEF Living, k
  <2>2. \A t \in Living(old) : es[t] = old[t]
    BY <1>3, <2>1, Zenon
  <2>3. \A t \in 1..Len(es) : t \in Living(es) <=> t \in Living(old) \cup {s}
    BY <1>3, <1>8, <2>2 DEF Living, k
  <2>4. Living(es) \subseteq 1..Len(es)
    BY DEF Living
  <2>5. Living(es) = Living(old) \cup {s}
    BY <1>8, <2>1, <2>3, <2>4
  <2> QED
    BY <2>1, <2>2, <2>5
\* The rows.
<1>10. /\ d.name_off[s] = nlen /\ d.folded_off[s] = off /\ d.head[s] = HeadPair(n)
       /\ d.initials[s] = Lane(n) /\ d.classes[s] = Mask(Folded[n])
       /\ \A t \in 1..k : t # s =>
            /\ d.name_off[t] = c.name_off[t] /\ d.folded_off[t] = c.folded_off[t]
            /\ d.head[t] = c.head[t] /\ d.initials[t] = c.initials[t] /\ d.classes[t] = c.classes[t]
       /\ Rowed(d, Len(es))
  <2>1. /\ Len(c.name_off) = k /\ Len(c.folded_off) = k /\ Len(c.head) = k
        /\ Len(c.initials) = k /\ Len(c.classes) = k
    BY <1>2 DEF Rowed
  <2>2. /\ c.name_off \in Seq(Nat) /\ c.folded_off \in Seq(Nat) /\ c.head \in Seq(Nat \X Nat)
        /\ c.initials \in Seq([1..LaneWidth -> Nat]) /\ c.classes \in Seq(SUBSET Nat)
    BY <1>2, ColsFields, Zenon
  <2>3. HeadPair(n) \in Nat \X Nat /\ Lane(n) \in [1..LaneWidth -> Nat] /\ Mask(Folded[n]) \in SUBSET Nat
    BY NameColumns
  <2>4. /\ s \in 1..(Len(c.name_off) + 1) /\ s \in 1..(Len(c.folded_off) + 1)
        /\ s \in 1..(Len(c.head) + 1) /\ s \in 1..(Len(c.initials) + 1) /\ s \in 1..(Len(c.classes) + 1)
    BY <1>8, <2>1
  <2>5. RowSet(c.name_off, d.name_off, s, nlen)
    <3> DEFINE col == c.name_off
               v == nlen
    <3>1. col \in Seq(Nat) /\ s \in 1..(Len(col) + 1) /\ v \in Nat
      BY <1>1, <2>2, <2>4, Zenon
    <3> HIDE DEF col, v
    <3>2. RowSet(col, SetRow(col, s, v), s, v)
      BY <3>1, SetRowFacts
    <3> QED
      BY <1>6, <3>2 DEF col, v
  <2>6. RowSet(c.folded_off, d.folded_off, s, off)
    <3> DEFINE col == c.folded_off
               v == off
    <3>1. col \in Seq(Nat) /\ s \in 1..(Len(col) + 1) /\ v \in Nat
      BY <1>5, <2>2, <2>4, Zenon
    <3> HIDE DEF col, v
    <3>2. RowSet(col, SetRow(col, s, v), s, v)
      BY <3>1, SetRowFacts
    <3> QED
      BY <1>6, <3>2 DEF col, v
  <2>7. RowSet(c.head, d.head, s, HeadPair(n))
    <3> DEFINE col == c.head
               v == HeadPair(n)
    <3>1. col \in Seq((Nat \X Nat)) /\ s \in 1..(Len(col) + 1) /\ v \in (Nat \X Nat)
      BY <2>2, <2>3, <2>4, Zenon
    <3> HIDE DEF col, v
    <3>2. RowSet(col, SetRow(col, s, v), s, v)
      BY <3>1, SetRowFacts
    <3> QED
      BY <1>6, <3>2 DEF col, v
  <2>8. RowSet(c.initials, d.initials, s, Lane(n))
    <3> DEFINE col == c.initials
               v == Lane(n)
    <3>1. col \in Seq(([1..LaneWidth -> Nat])) /\ s \in 1..(Len(col) + 1) /\ v \in ([1..LaneWidth -> Nat])
      BY <2>2, <2>3, <2>4, Zenon
    <3> HIDE DEF col, v
    <3>2. RowSet(col, SetRow(col, s, v), s, v)
      BY <3>1, SetRowFacts
    <3> QED
      BY <1>6, <3>2 DEF col, v
  <2>9. RowSet(c.classes, d.classes, s, Mask(Folded[n]))
    <3> DEFINE col == c.classes
               v == Mask(Folded[n])
    <3>1. col \in Seq((SUBSET Nat)) /\ s \in 1..(Len(col) + 1) /\ v \in (SUBSET Nat)
      BY <2>2, <2>3, <2>4, Zenon
    <3> HIDE DEF col, v
    <3>2. RowSet(col, SetRow(col, s, v), s, v)
      BY <3>1, SetRowFacts, Zenon
    <3> QED
      BY <1>6, <3>2 DEF col, v
  <2> QED
    BY <1>3, <2>1, <2>5, <2>6, <2>7, <2>8, <2>9 DEF Rowed, RowSet
<1>11. /\ Len(c.recs) \in Nat /\ Len(d.recs) = Len(c.recs) + 1
       /\ \A r \in 1..Len(c.recs) : d.recs[r] = c.recs[r]
       /\ d.recs[Len(c.recs) + 1] = [off |-> off, slot |-> s]
  <2> DEFINE x == [off |-> off, slot |-> s]
  <2>1. x \in Rec
    BY <1>5, <1>8 DEF Rec
  <2>2. d.recs = Append(c.recs, x) /\ c.recs \in Seq(Rec)
    BY <1>1, <1>6
  <2> HIDE DEF x
  <2> QED
    BY <2>1, <2>2, AppendProperties DEF x
<1>12. \A r \in 1..Len(d.recs) : d.recs[r].slot \in 1..Len(es)
  <2> TAKE r \in 1..Len(d.recs)
  <2>1. CASE r = Len(c.recs) + 1
    BY <1>8, <1>11, <2>1
  <2>2. CASE r # Len(c.recs) + 1
    <3>1. r \in 1..Len(c.recs)
      BY <1>11, <2>2
    <3> QED
      BY <1>2, <1>8, <1>11, <3>1, Zenon
  <2> QED
    BY <2>1, <2>2
<1>13. FoldedLaid(d.folded, Len(d.folded), d.folded_off, d.recs, Living(es), es)
  <2> DEFINE fb == c.folded
             fb2 == d.folded
             fo == c.folded_off
             fo2 == d.folded_off
             rs == c.recs
             live == Living(old)
  <2>1. fb2[1] = Fence
    <3>1. CASE flen = 0
      <4>1. c.folded = <<>>
        BY <1>1, <3>1 DEF flen
      <4> QED
        BY <1>6, <4>1
    <3>2. CASE flen # 0
      <4>1. 1 \in 1..flen
        BY <1>1, <3>2
      <4>2. c.folded[1] = Fence
        BY <1>2, <3>2 DEF FoldedLaid
      <4> QED
        BY <1>6, <4>1, <4>2
    <3> QED
      BY <3>1, <3>2
  <2>2. /\ FoldedLaid(fb, flen, fo, rs, live, old) /\ flen \in Nat /\ rs \in Seq(Rec) /\ s \notin live
        /\ s \in Nat
        /\ FoldedAdded(fb, fb2, flen, n) /\ fo2[s] = NewOff(flen) /\ es[s].name = n
        /\ Stays(live, fo, fo2) /\ Named(live, old, es)
    BY <1>1, <1>2, <1>3, <1>6, <1>8, <1>9, <1>10, <2>1, Zenon DEF off, fl, FoldedAdded, Stays, Named
  <2> HIDE DEF fb, fb2, fo, fo2, rs, live
  <2>3. FoldedLaid(fb2, NewOff(flen) + Len(Folded[n]) + 1, fo2,
                   Append(rs, [off |-> NewOff(flen), slot |-> s]), live \cup {s}, es)
    BY <2>2, FoldedExtends, Zenon
  <2> QED
    BY <1>6, <1>9, <2>3 DEF fb2, fo2, rs, live, off, fl
<1>14. NamesLaid(d.names, Len(d.names), d.name_off, d.folded_off, Living(es), es)
  <2> DEFINE nb == c.names
             nb2 == d.names
             no == c.name_off
             no2 == d.name_off
             fo == c.folded_off
             fo2 == d.folded_off
             live == Living(old)
  <2>1. ASSUME NEW t \in live PROVE old[t].name \in Name \ BadName /\ fo[t] \in Nat /\ fo[t] < off
    <3>1. /\ old[t].name \in Name \ BadName /\ fo[t] \in Nat
          /\ fo[t] + Len(Folded[old[t].name]) + 1 <= flen
      BY <1>1 DEF Owns
    <3> DEFINE x == Len(Folded[old[t].name])
               y == fo[t]
    <3>2. x \in Nat /\ y \in Nat /\ y + x + 1 <= flen
      BY <3>1, NameBytes
    <3> HIDE DEF x, y
    <3>3. y < off
      BY <1>1, <1>5, <3>2
    <3> QED
      BY <3>1, <3>3 DEF y
  <2>2. /\ NamesLaid(nb, nlen, no, fo, live, old) /\ nlen \in Nat /\ s \notin live
        /\ \A t \in live : old[t].name \in Name \ BadName
        /\ \A t \in live : fo[t] \in Nat /\ fo[t] < fo2[s]
        /\ NamesAdded(nb, nb2, nlen, n)
        /\ no2[s] = nlen /\ fo2[s] \in Nat /\ es[s].name = n
        /\ Stays(live, fo, fo2) /\ Stays(live, no, no2) /\ Named(live, old, es)
    BY <1>1, <1>2, <1>3, <1>5, <1>6, <1>9, <1>10, <2>1, Zenon DEF nl, NamesAdded, Stays, Named
  <2> HIDE DEF nb, nb2, no, no2, fo, fo2, live
  <2>3. NamesLaid(nb2, nlen + Len(Orig[n]), no2, fo2, live \cup {s}, es)
    BY <2>2, NamesExtend, Zenon
  <2> QED
    BY <1>6, <1>9, <2>3 DEF nb2, no2, fo2, live, nl
<1>15. Owned(d)
  <2>1. Len(d.owner) = Blocks(Len(d.folded)) /\ Len(c.owner) = Blocks(flen)
    BY <1>2, <1>6 DEF Owned, flen
  <2>2. ASSUME NEW b \in 1..Len(d.owner)
        PROVE  /\ d.owner[b] \in 1..Len(d.recs)
               /\ d.owner[b] # 1 => d.recs[d.owner[b]].off <= (b - 1) * OwnerBlock
    <3>0. b \in Nat /\ b > 0
      <4>1. d.owner \in Seq(Nat)
        BY ColsFields
      <4>2. Len(d.owner) \in Nat
        BY <4>1
      <4> QED
        BY <4>2
    <3>1. CASE b <= Len(c.owner)
      <4>1. b \in 1..Len(c.owner)
        <5>1. c.owner \in Seq(Nat)
          BY <1>2, ColsFields
        <5>2. Len(c.owner) \in Nat
          BY <5>1
        <5> QED
          BY <3>0, <3>1, <5>2
      <4>2. d.owner[b] = c.owner[b]
        BY <1>6, <3>1
      <4>3. /\ c.owner[b] \in 1..Len(c.recs)
            /\ c.owner[b] # 1 => c.recs[c.owner[b]].off <= (b - 1) * OwnerBlock
        BY <1>2, <4>1 DEF Owned
      <4>4. d.recs[c.owner[b]] = c.recs[c.owner[b]] /\ c.owner[b] \in 1..Len(d.recs)
        <5> DEFINE o == c.owner[b]
        <5>1. o \in 1..Len(c.recs)
          BY <4>3
        <5> HIDE DEF o
        <5>2. d.recs[o] = c.recs[o] /\ o \in 1..Len(d.recs)
          BY <1>11, <5>1
        <5> QED
          BY <5>2 DEF o
      <4> QED
        BY <4>2, <4>3, <4>4
    <3>2. CASE ~(b <= Len(c.owner))
      <4>1. d.owner[b] = Len(c.recs) + 1
        BY <1>6, <3>2
      <4>2. d.recs[d.owner[b]].off = off
        BY <1>11, <4>1
      <4>3. d.owner[b] # 1 => flen # 0
        <5>1. c.recs = <<>> <=> flen = 0
          BY <1>2 DEF FoldedLaid
        <5>2. c.recs = <<>> => Len(c.recs) = 0
          OBVIOUS
        <5> QED
          BY <4>1, <1>11, <5>1, <5>2
      <4>4. d.owner[b] # 1 => off <= (b - 1) * OwnerBlock
        <5>1. OwnerBlock \in Nat \ {0} /\ ~(b <= Blocks(flen))
          BY <2>1, <3>2, ArenaAssumption
        <5>2. flen <= (b - 1) * OwnerBlock
          BY <5>1, <3>0, <1>1, BeyondBlocks
        <5> QED
          BY <4>3, <5>2, <1>5
      <4> QED
        BY <1>11, <4>1, <4>2, <4>4
    <3> QED
      BY <3>1, <3>2
  <2> QED
    BY <2>1, <2>2 DEF Owned
<1>16. Columned(d, es)
  <2>1. ASSUME NEW t \in Living(es)
        PROVE  /\ d.head[t] = HeadPair(es[t].name) /\ d.initials[t] = Lane(es[t].name)
               /\ d.classes[t] = Mask(Folded[es[t].name])
    <3>1. CASE t = s
      BY <1>3, <1>10, <3>1, Zenon
    <3>2. CASE t # s
      <4>1. t \in Living(old) /\ t \in 1..k
        BY <1>9, <3>2
      <4> QED
        BY <1>2, <1>9, <1>10, <3>2, <4>1 DEF Columned
    <3> QED
      BY <3>1, <3>2
  <2>2. ASSUME NEW t \in 1..Len(es), es[t].dead
        PROVE  d.head[t] = <<Fence, Fence>> /\ d.initials[t] = Blank /\ d.classes[t] = {}
    <3>1. t # s
      BY <1>3, <2>2
    <3>2. t \in 1..k
      BY <1>8, <3>1
    <3>3. old[t].dead
      BY <1>3, <2>2, <3>1, <3>2
    <3> QED
      BY <1>2, <1>10, <3>1, <3>2, <3>3 DEF Columned, k
  <2> QED
    BY <2>1, <2>2 DEF Columned
<1>17. Seen(d, es)
  <2>1. ASSUME NEW t \in Living(es)
        PROVE  /\ Grams(Folded[es[t].name], IF d.tri THEN 3 ELSE 2) \subseteq d.grams
               /\ Grams(Lane(es[t].name), 2) \subseteq d.lane_grams
    <3>1. CASE t = s
      BY <1>3, <1>6, <3>1, Zenon
    <3>2. CASE t # s
      <4>1. t \in Living(old) /\ es[t].name = old[t].name
        BY <1>9, <3>2
      <4> QED
        BY <1>2, <1>6, <4>1, Zenon DEF Seen
    <3> QED
      BY <3>1, <3>2
  <2> QED
    BY <2>1 DEF Seen
<1>18. Accounted(d, es)
  <2> DEFINE w == Weights(old)
             v == Weights(es)
             nw == NameWeight(n)
  <2>1. /\ w \in Seq(Nat) /\ Len(w) = k
        /\ \A t \in 1..k : w[t] = IF t \in Living(old) THEN NameWeight(old[t].name) ELSE 0
    BY <1>1, WeightsFacts DEF k
  <2>2. /\ v \in Seq(Nat) /\ Len(v) = Len(es)
        /\ \A t \in 1..Len(es) : v[t] = IF t \in Living(es) THEN NameWeight(es[t].name) ELSE 0
    <3>1. \A t \in Living(es) : es[t].name \in Name \ BadName
      BY <1>1, <1>3, <1>9, Zenon
    <3> QED
      BY <1>3, <3>1, WeightsFacts, Zenon
  <2>3. v[s] = nw /\ \A t \in 1..k : t # s => v[t] = w[t]
    <3>1. s \in Living(es)
      BY <1>9
    <3>2. v[s] = nw
      BY <1>3, <1>8, <2>2, <3>1, Zenon
    <3>3. \A t \in 1..k : t # s => v[t] = w[t]
      BY <1>8, <1>9, <2>1, <2>2, Zenon
    <3> QED
      BY <3>2, <3>3
  <2>4. s \in 1..k => w[s] = 0
    BY <2>1
  <2>5. nw \in Nat /\ nw = nl + fl
    BY WeightFacts, Zenon DEF nl, fl
  <2> HIDE DEF w, v, nw
  <2>6. Total(v) = Total(w) + nw /\ Total(v) \in Nat /\ Total(w) \in Nat
    <3>1. CASE s = k + 1
      <4>1. Len(v) = Len(w) + 1 /\ \A t \in 1..Len(w) : v[t] = w[t]
        BY <1>1, <1>3, <2>1, <2>2, <2>3, <3>1
      <4>2. Total(v) = Total(w) + v[Len(v)] /\ Total(w) \in Nat
        BY <2>1, <2>2, <4>1, TotalAppended, Zenon
      <4>3. v[Len(v)] = nw
        BY <2>1, <2>3, <3>1, <4>1
      <4> QED
        BY <2>5, <4>2, <4>3
    <3>2. CASE s # k + 1
      <4>1. Len(v) = Len(w) /\ s \in 1..Len(w) /\ \A t \in 1..Len(w) : t # s => v[t] = w[t]
        BY <1>1, <1>3, <1>8, <2>1, <2>2, <2>3, <3>2
      <4>2. Total(v) + w[s] = Total(w) + v[s] /\ Total(v) \in Nat /\ Total(w) \in Nat
        BY <2>1, <2>2, <4>1, TotalChanged, ZenonT(60)
      <4>3. w[s] = 0 /\ v[s] = nw
        BY <2>1, <2>3, <2>4, <4>1
      <4> QED
        BY <2>5, <4>2, <4>3
    <3> QED
      BY <3>1, <3>2
  <2>7. Len(d.names) + Len(d.folded) = (nlen + nl) + (off + fl + 1) /\ Len(d.recs) = Len(c.recs) + 1
    BY <1>6, <1>11
  <2>8. d.folded # <<>>
    <3>1. Len(d.folded) # 0
      BY <1>4, <1>5, <1>6
    <3>2. d.folded = <<>> => Len(d.folded) = 0
      OBVIOUS
    <3> QED
      BY <3>1, <3>2
  <2>9. c.dead_bytes \in Nat /\ d.dead_bytes = c.dead_bytes
    BY <1>2, <1>6, ColsFields
  <2>10. c.folded = <<>> <=> flen = 0
    BY <1>1 DEF flen
  <2>11. flen = 0 => Len(c.recs) = 0
    <3>1. c.recs = <<>> <=> flen = 0
      BY <1>2 DEF FoldedLaid
    <3>2. c.recs = <<>> => Len(c.recs) = 0
      OBVIOUS
    <3> QED
      BY <3>1, <3>2
  <2>12. nlen + flen = Total(w) + c.dead_bytes + (IF c.folded = <<>> THEN 0 ELSE Len(c.recs) + 1)
    BY <1>2, Zenon DEF Accounted, w, flen, nlen
  <2>13. (nlen + nl) + (off + fl + 1) = (Total(w) + nw) + c.dead_bytes + ((Len(c.recs) + 1) + 1)
    <3> DEFINE tw == Total(w)
               lr == Len(c.recs)
               db == c.dead_bytes
    <3>1. tw \in Nat /\ lr \in Nat /\ db \in Nat /\ (flen = 0 => lr = 0)
          /\ nlen + flen = tw + db + (IF flen = 0 THEN 0 ELSE lr + 1)
      BY <1>11, <2>6, <2>9, <2>10, <2>11, <2>12
    <3> HIDE DEF tw, lr, db
    <3>2. (nlen + nl) + (off + fl + 1) = (tw + nw) + db + ((lr + 1) + 1)
      <4>1. CASE flen = 0
        BY <1>1, <1>4, <1>5, <2>5, <3>1, <4>1
      <4>2. CASE flen # 0
        BY <1>1, <1>4, <1>5, <2>5, <3>1, <4>2
      <4> QED
        BY <4>1, <4>2
    <3> QED
      BY <3>2 DEF tw, lr, db
  <2>14. Len(d.names) + Len(d.folded) = Total(v) + d.dead_bytes + (Len(d.recs) + 1)
    BY <2>6, <2>7, <2>9, <2>13, Zenon
  <2> QED
    BY <2>8, <2>14, Zenon DEF Accounted, v
<1>19. Len(d.names) <= MaxArena /\ Len(d.folded) <= MaxArena
  BY <1>6, <1>7
<1> QED
  BY <1>10, <1>12, <1>13, <1>14, <1>15, <1>16, <1>17, <1>18, <1>19, Zenon DEF Kept

\* `intern` accepts a name only if both arenas have room for it.
LEMMA FitsFacts ==
  ASSUME NEW c \in Cols, NEW n \in Name \ BadName, Fits(c, n)
  PROVE  /\ Len(c.names) + Len(Orig[n]) <= MaxArena
         /\ NewOff(Len(c.folded)) + Len(Folded[n]) + 1 <= MaxArena
<1> DEFINE x == Len(c.folded)
           y == Len(Folded[n])
<1>1. /\ x + y + (IF c.folded = <<>> THEN 2 ELSE 1) <= MaxArena
      /\ Len(c.names) + Len(Orig[n]) <= MaxArena
  BY Zenon DEF Fits
<1>2. c.folded = <<>> <=> x = 0
  <2>1. c.folded \in Seq(Nat)
    BY ColsFields
  <2> QED
    BY <2>1
<1>3. x \in Nat /\ y \in Nat /\ MaxArena \in Nat
  <2>1. c.folded \in Seq(Nat)
    BY ColsFields
  <2> QED
    BY <2>1, NameBytes, ArenaAssumption
<1> HIDE DEF x, y
<1>4. (IF x = 0 THEN 1 ELSE x) + y + 1 <= MaxArena
  BY <1>1, <1>2, <1>3
<1> QED
  BY <1>1, <1>4, Zenon DEF NewOff, x, y

\* A name for a slot that has none.
LEMMA NewStep ==
  ASSUME entries \in Seq(Entry), NEW c, Kept(c, entries),
         NEW s \in 1..(Len(entries) + 1), s \notin Living(entries),
         NEW n \in Name \ BadName, Fits(c, n), NEW es, Enrols(entries, s, n, es)
  PROVE  Kept(Register(Intern(c, n), s, n), es)
<1> DEFINE d == Register(Intern(c, n), s, n)
           k == Len(entries)
<1>1. c \in Cols /\ Rowed(c, k) /\ Columned(c, entries) /\ k \in Nat
  BY DEF Kept
<1>2. s <= k => c.classes[s] = {}
  <2>1. s <= k => s \in 1..Len(entries) /\ entries[s].dead
    BY DEF Living
  <2> QED
    BY <1>1, <2>1 DEF Columned
<1>3. d \in Cols /\ Enters(c, d, s, n)
  BY <1>1, <1>2, Entered
<1>4. /\ Len(c.names) + Len(Orig[n]) <= MaxArena
      /\ NewOff(Len(c.folded)) + Len(Folded[n]) + 1 <= MaxArena
  BY <1>1, FitsFacts, Zenon
<1> HIDE DEF d
<1>5. Kept(d, es)
  BY <1>3, <1>4, EnterStep, Zenon
<1> QED
  BY <1>5 DEF d

\* Another name for a slot that has one.
LEMMA RenameStep ==
  ASSUME entries \in Seq(Entry), NEW c, Kept(c, entries), NEW s \in Living(entries),
         NEW n \in Name \ BadName, Fits(c, n), NEW es, Enrols(entries, s, n, es)
  PROVE  Kept(Register(Unregister(Intern(c, n), s), s, n), es)
<1> DEFINE d == Register(Unregister(Intern(c, n), s), s, n)
           m == Unregister(c, s)
           k == Len(entries)
           old == [entries EXCEPT ![s] = Tombstone(entries[s])]
<1>1. c \in Cols /\ Rowed(c, k) /\ k \in Nat /\ s \in 1..k
  BY DEF Kept, Living
<1>2. /\ entries[s].name \in Name \ BadName
      /\ Owns(c.folded, Len(c.folded), c.folded_off, c.recs, Living(entries), entries, s)
      /\ c.folded \in Seq(Nat) /\ Len(c.folded) \in Nat
  BY KeptNames
<1>3. /\ FoldedLen(s) \in Nat /\ OrigLen(s) \in Nat /\ FoldedLen(s) > 0
      /\ FoldedLen(s) = Len(Folded[entries[s].name])
  BY <1>2, NameBytes DEF FoldedLen, OrigLen
<1>4. c.folded_off[s] \in Nat /\ c.folded_off[s] + FoldedLen(s) <= Len(c.folded)
  <2> DEFINE x == c.folded_off[s]
             y == FoldedLen(s)
             z == Len(c.folded)
  <2>1. x \in Nat /\ y \in Nat /\ z \in Nat /\ x + y + 1 <= z
    BY <1>2, <1>3 DEF Owns
  <2> HIDE DEF x, y, z
  <2>2. x \in Nat /\ x + y <= z
    BY <2>1
  <2> QED
    BY <2>2 DEF x, y, z
<1>5. old \in Seq(Entry) /\ Len(old) = k /\ Leaves(s, old)
  <2>1. entries[s] \in Entry
    BY <1>1
  <2>2. Tombstone(entries[s]) \in Entry /\ Tombstone(entries[s]).dead
    BY <2>1 DEF Entry, Tombstone
  <2> QED
    BY <1>1, <2>2 DEF Leaves
<1> HIDE DEF old
<1>6. /\ Kept(m, old) /\ m.classes[s] = {} /\ m.names = c.names /\ Len(m.folded) = Len(c.folded)
  BY <1>5, LeaveStep
<1>7. d \in Cols /\ Enters(m, d, s, n)
  BY <1>1, <1>3, <1>4, <1>6, Reentered, Zenon
<1>8. /\ Len(m.names) + Len(Orig[n]) <= MaxArena
      /\ NewOff(Len(m.folded)) + Len(Folded[n]) + 1 <= MaxArena
  BY <1>1, <1>6, FitsFacts, Zenon
<1>9. s \in 1..(Len(old) + 1) /\ s \notin Living(old)
  BY <1>1, <1>5 DEF Leaves, Living
<1>10. Enrols(old, s, n, es)
  BY <1>1, <1>5 DEF Leaves, Enrols
<1> HIDE DEF d, m
<1>11. Kept(d, es)
  BY <1>5, <1>6, <1>7, <1>8, <1>9, <1>10, EnterStep, Zenon
<1> QED
  BY <1>11 DEF d

\* The windows of a sequence, and the grams of up to two and of up to three.
LEMMA WindowFacts ==
  ASSUME NEW s \in Seq(Nat), NEW k \in Nat, NEW w \in Windows(s, k)
  PROVE  w \in Seq(Nat) /\ Len(w) = k
<1>1. PICK i \in 1..(Len(s) + 1 - k) : w = SubSeq(s, i, i + k - 1)
  BY Zenon DEF Windows
<1>2. Len(s) \in Nat
  OBVIOUS
<1>3. i \in Nat /\ i >= 1 /\ i + k - 1 <= Len(s) /\ i + k - 1 \in Nat /\ i - 1 \in Nat
  BY <1>2
<1> DEFINE off == i - 1
<1>4. off \in Nat /\ off + k <= Len(s) /\ off + 1 = i /\ off + k = i + k - 1
  BY <1>2, <1>3
<1> HIDE DEF off
<1>5. w = Bytes(s, off, k)
  BY <1>1, <1>4, Zenon DEF Bytes
<1> QED
  BY <1>4, <1>5, BytesForm

\* The grams of three bytes are those of two and the windows of three.
LEMMA GramFacts ==
  ASSUME NEW s \in Seq(Nat)
  PROVE  /\ Grams(s, 3) = Grams(s, 2) \cup Windows(s, 3)
         /\ \A g \in Grams(s, 2) : g \in Seq(Nat) /\ Len(g) < 3
         /\ \A g \in Windows(s, 3) : g \in Seq(Nat) /\ Len(g) = 3
<1>1. 1..3 = {1, 2, 3} /\ 1..2 = {1, 2}
  OBVIOUS
<1>2. Grams(s, 3) = Windows(s, 1) \cup Windows(s, 2) \cup Windows(s, 3)
  BY <1>1 DEF Grams
<1>3. Grams(s, 2) = Windows(s, 1) \cup Windows(s, 2)
  BY <1>1 DEF Grams
<1>4. \A k \in Nat : \A w \in Windows(s, k) : w \in Seq(Nat) /\ Len(w) = k
  BY WindowFacts
<1>5. /\ \A w \in Windows(s, 1) : w \in Seq(Nat) /\ Len(w) = 1
      /\ \A w \in Windows(s, 2) : w \in Seq(Nat) /\ Len(w) = 2
      /\ \A w \in Windows(s, 3) : w \in Seq(Nat) /\ Len(w) = 3
  BY <1>4, Zenon
<1>6. \A g \in Grams(s, 2) : g \in Seq(Nat) /\ Len(g) < 3
  <2> TAKE g \in Grams(s, 2)
  <2>1. g \in Windows(s, 1) \/ g \in Windows(s, 2)
    BY <1>3
  <2> DEFINE l == Len(g)
  <2>2. g \in Seq(Nat) /\ l \in {1, 2}
    BY <1>5, <2>1
  <2> HIDE DEF l
  <2>3. l < 3
    BY <2>2
  <2> QED
    BY <2>2, <2>3 DEF l
<1>7. Grams(s, 3) = Grams(s, 2) \cup Windows(s, 3)
  BY <1>2, <1>3
<1> QED
  BY <1>5, <1>6, <1>7

\* Building or dropping the trigram set.
LEMMA ResizeStep ==
  ASSUME NEW es \in Seq(Entry), NEW c, Kept(c, es)
  PROVE  Kept(ResizeTri(c, {es[s].name : s \in Living(es)}), es)
<1> DEFINE live == {es[s].name : s \in Living(es)}
           want == Len(c.folded) >= TriMin
           thin == {g \in c.grams : Len(g) < 3}
           grams2 == IF want THEN thin \cup UNION {Windows(Folded[n], 3) : n \in live} ELSE thin
           d == ResizeTri(c, live)
<1>1. CASE want = c.tri
  BY <1>1 DEF ResizeTri
<1>2. CASE want # c.tri
  <2>1. c \in Cols /\ Seen(c, es)
    BY DEF Kept
  <2>2. d = [c EXCEPT !.tri = want, !.grams = grams2]
    BY <1>2 DEF ResizeTri
  <2>3. \A n \in live : n \in Name \ BadName /\ Folded[n] \in Seq(Nat)
    BY KeptNames, NameBytes
  <2>4. \A n \in live : Windows(Folded[n], 3) \subseteq Seq(Nat)
    BY <2>3, GramFacts
  <2> HIDE DEF live
  <2>5. grams2 \in SUBSET Seq(Nat) /\ want \in BOOLEAN
    BY <2>1, <2>4, ColsFields
  <2> HIDE DEF want, grams2, d
  <2>6. d = [names |-> c.names, folded |-> c.folded, name_off |-> c.name_off, folded_off |-> c.folded_off,
             recs |-> c.recs, owner |-> c.owner, head |-> c.head, initials |-> c.initials,
             classes |-> c.classes, grams |-> grams2, lane_grams |-> c.lane_grams, tri |-> want,
             dead_bytes |-> c.dead_bytes]
    BY <2>1, <2>2, Zenon DEF Cols
  <2>7. /\ d \in Cols /\ d.names = c.names /\ d.folded = c.folded /\ d.name_off = c.name_off
        /\ d.folded_off = c.folded_off /\ d.recs = c.recs /\ d.owner = c.owner /\ d.head = c.head
        /\ d.initials = c.initials /\ d.classes = c.classes /\ d.grams = grams2
        /\ d.lane_grams = c.lane_grams /\ d.tri = want /\ d.dead_bytes = c.dead_bytes
    BY <2>1, <2>5, <2>6, ColsFields, Zenon DEF Cols
  <2>8. ASSUME NEW s \in Living(es)
        PROVE  /\ Grams(Folded[es[s].name], IF d.tri THEN 3 ELSE 2) \subseteq d.grams
               /\ Grams(Lane(es[s].name), 2) \subseteq d.lane_grams
    <3> DEFINE w == Folded[es[s].name]
    <3>1. es[s].name \in live /\ w \in Seq(Nat)
      BY <2>3 DEF live
    <3>2. Grams(w, IF c.tri THEN 3 ELSE 2) \subseteq c.grams /\ Grams(Lane(es[s].name), 2) \subseteq c.lane_grams
      BY <2>1 DEF Seen
    <3>3. want => Windows(w, 3) \subseteq d.grams
      BY <2>7, <3>1 DEF grams2
    <3> HIDE DEF w
    <3>4. /\ Grams(w, 3) = Grams(w, 2) \cup Windows(w, 3)
          /\ \A g \in Grams(w, 2) : Len(g) < 3
      BY <3>1, GramFacts
    <3>5. Grams(w, 2) \subseteq c.grams
      <4>1. CASE c.tri
        BY <3>2, <3>4, <4>1
      <4>2. CASE ~c.tri
        BY <3>2, <4>2
      <4> QED
        BY <4>1, <4>2
    <3>6. Grams(w, 2) \subseteq d.grams
      <4>1. Grams(w, 2) \subseteq thin
        BY <3>4, <3>5
      <4>2. thin \subseteq grams2
        BY DEF grams2
      <4> QED
        BY <2>7, <4>1, <4>2
    <3>7. Grams(w, IF d.tri THEN 3 ELSE 2) \subseteq d.grams
      <4>1. CASE want
        BY <2>7, <3>3, <3>4, <3>6, <4>1
      <4>2. CASE ~want
        BY <2>7, <3>6, <4>2
      <4> QED
        BY <4>1, <4>2
    <3> QED
      BY <2>7, <3>2, <3>7 DEF w
  <2>9. Seen(d, es)
    BY <2>8 DEF Seen
  <2>10. Rowed(d, Len(es)) /\ Owned(d) /\ Columned(d, es) /\ Accounted(d, es)
    BY <2>7, Zenon DEF Kept, Rowed, Owned, Columned, Accounted
  <2>11. Kept(d, es)
    BY <2>7, <2>9, <2>10 DEF Kept
  <2> QED
    BY <2>11 DEF d, live
<1> QED
  BY <1>1, <1>2

\* After every handler the columns hold what they should of the table.
ArenaInv == SlotInv /\ arena_settled \in BOOLEAN /\ Kept(cols, entries)

\* Empty arenas are those of an empty table.
LEMMA ArenaStarts == ArenaInit => ArenaInv
<1> SUFFICES ASSUME ArenaInit PROVE ArenaInv
  OBVIOUS
<1>1. SlotInv /\ arena_settled \in BOOLEAN /\ entries = <<>>
  BY InitSlotInv, Zenon DEF ArenaInit, SlotInit
<1>2. /\ cols.names = <<>> /\ cols.folded = <<>> /\ cols.name_off = <<>> /\ cols.folded_off = <<>>
      /\ cols.recs = <<>> /\ cols.owner = <<>> /\ cols.head = <<>> /\ cols.initials = <<>>
      /\ cols.classes = <<>> /\ cols.grams = {} /\ cols.lane_grams = {} /\ cols.tri = TRUE
      /\ cols.dead_bytes = 0
  BY DEF ArenaInit
<1>3. cols \in Cols
  BY DEF ArenaInit, Cols
<1>4. Living(entries) = {} /\ Len(entries) = 0
  BY <1>1 DEF Living
<1>5. Rowed(cols, Len(entries)) /\ Len(cols.recs) = 0
  BY <1>2, <1>4 DEF Rowed
<1>6. /\ FoldedLaid(cols.folded, Len(cols.folded), cols.folded_off, cols.recs, Living(entries), entries)
      /\ NamesLaid(cols.names, Len(cols.names), cols.name_off, cols.folded_off, Living(entries), entries)
  BY <1>2, <1>4 DEF FoldedLaid, NamesLaid
<1>7. Owned(cols)
  <2>1. OwnerBlock \in Nat \ {0}
    BY ArenaAssumption
  <2>2. \A x \in Nat \ {0} : (0 + x - 1) \div x = 0
    OBVIOUS
  <2>3. Blocks(0) = 0
    BY <2>1, <2>2 DEF Blocks
  <2> QED
    BY <1>2, <2>3 DEF Owned
<1>8. Columned(cols, entries) /\ Seen(cols, entries)
  BY <1>4 DEF Columned, Seen
<1>9. Accounted(cols, entries)
  <2> DEFINE w == Weights(entries)
  <2>1. w = <<>>
    BY <1>4 DEF Weights
  <2>2. w \in Seq(Nat) /\ Len(w) = 0
    BY <2>1
  <2> HIDE DEF w
  <2>3. Total(w) = 0
    <3>1. \A i \in 1..Len(w) : w[i] = 0
      BY <2>2
    <3> QED
      BY <2>2, <3>1, TotalZero, Zenon
  <2> QED
    BY <1>2, <2>3 DEF Accounted, w
<1>10. Len(cols.names) <= MaxArena /\ Len(cols.folded) <= MaxArena
  BY <1>2, ArenaAssumption
<1> QED
  BY <1>1, <1>3, <1>5, <1>6, <1>7, <1>8, <1>9, <1>10 DEF ArenaInv, Kept

\* add_entry, for a file it has and for one it has not.
LEMMA AddStep ==
  ASSUME ArenaInv, NEW f \in Frn, NEW p \in Parent, NEW n \in Name, AddEntry(f, p, n), SlotInv'
  PROVE  ArenaInv'
<1> DEFINE s == SlotFor(f)
           e == LiveEntry(f, p, n, f \in DirFrn)
<1>1. /\ SlotInv /\ arena_settled \in BOOLEAN /\ Kept(cols, entries) /\ entries \in Seq(Entry)
  BY DEF ArenaInv, SlotInv, SlotTypeOK
<1>2. /\ n \in Name \ BadName /\ Fits(cols, n) /\ entries' = Bound(s, e)
      /\ cols' = Register(IF Known(f) THEN Unregister(Intern(cols, n), frn_map[f]) ELSE Intern(cols, n),
                          s, n)
      /\ arena_settled' = arena_settled
  BY DEF AddEntry, SlotAdd, Usable
<1>3. /\ s \in 1..(Len(entries) + 1)
      /\ Known(f) => s = frn_map[f] /\ s \in LiveSlot
      /\ Recycles(f) => s \in Slot /\ entries[s].dead
      /\ (~Known(f) /\ ~Recycles(f)) => s = Len(entries) + 1
  BY <1>1, SlotForFacts
<1>4. LiveSlot = Living(entries) /\ Slot = 1..Len(entries)
  BY DEF LiveSlot, Living, Slot
<1>5. e \in Entry /\ e.name = n /\ ~e.dead
  BY DEF LiveEntry, Entry
<1> HIDE DEF s, e
<1>6. Enrols(entries, s, n, entries')
  <2>1. /\ entries' \in Seq(Entry) /\ entries'[s] = e
        /\ \A t \in 1..Len(entries) : t # s => entries'[t] = entries[t]
    <3>1. /\ Bound(s, e) \in Seq(Entry) /\ Bound(s, e)[s] = e
          /\ \A t \in Slot : t # s => Bound(s, e)[t] = entries[t]
      BY <1>1, <1>3, <1>5, BoundFacts
    <3> QED
      BY <1>2, <1>4, <3>1
  <2>2. Len(entries') = IF s = Len(entries) + 1 THEN Len(entries) + 1 ELSE Len(entries)
    BY <1>1, <1>2, <1>5 DEF Bound
  <2> QED
    BY <1>5, <2>1, <2>2 DEF Enrols
<1>7. Kept(cols', entries')
  <2>1. CASE Known(f)
    <3>1. s \in Living(entries) /\ cols' = Register(Unregister(Intern(cols, n), s), s, n)
      BY <1>2, <1>3, <1>4, <2>1
    <3> QED
      BY <1>1, <1>2, <1>6, <3>1, RenameStep
  <2>2. CASE ~Known(f)
    <3>1. cols' = Register(Intern(cols, n), s, n)
      BY <1>2, <2>2
    <3>2. s \notin Living(entries)
      BY <1>1, <1>3, <2>2 DEF Living, Slot
    <3> QED
      BY <1>1, <1>2, <1>3, <1>6, <3>1, <3>2, NewStep
  <2> QED
    BY <2>1, <2>2
<1> QED
  BY <1>1, <1>2, <1>7 DEF ArenaInv

\* A delete, of a known reference or not.
LEMMA DeleteKeeps ==
  ASSUME ArenaInv, NEW f \in Frn, ArenaDelete(f), SlotInv'
  PROVE  ArenaInv'
<1> DEFINE s == frn_map[f]
<1>1. /\ SlotInv /\ arena_settled \in BOOLEAN /\ Kept(cols, entries) /\ entries \in Seq(Entry)
      /\ FrnMapExact /\ entries' \in Seq(Entry)
  BY DEF ArenaInv, SlotInv, SlotTypeOK
<1>2. /\ Known(f) /\ entries' = [entries EXCEPT ![s] = Tombstone(entries[s])]
      /\ cols' = Unregister(cols, s) /\ arena_settled' = arena_settled
  BY DEF ArenaDelete, SlotRemove
<1>3. s \in Living(entries)
  BY <1>1, <1>2 DEF FrnMapExact, LiveSlot, Living, Slot
<1> HIDE DEF s
<1>4. Leaves(s, entries')
  BY <1>1, <1>2, <1>3 DEF Leaves, Living, Tombstone
<1>5. Kept(cols', entries')
  BY <1>1, <1>2, <1>3, <1>4, LeaveStep
<1> QED
  BY <1>1, <1>2, <1>5 DEF ArenaInv

\* A rename: the old name is given up after the new one is in.
LEMMA RenameKeeps ==
  ASSUME ArenaInv, NEW f \in Frn, NEW p \in Parent, NEW n \in Name, ArenaRename(f, p, n), SlotInv'
  PROVE  ArenaInv'
<1> DEFINE s == frn_map[f]
           e == LiveEntry(f, p, n, entries[s].dir)
<1>1. /\ SlotInv /\ arena_settled \in BOOLEAN /\ Kept(cols, entries) /\ entries \in Seq(Entry)
      /\ FrnMapExact /\ entries' \in Seq(Entry)
  BY DEF ArenaInv, SlotInv, SlotTypeOK
<1>2. /\ Known(f) /\ n \in Name \ BadName /\ Fits(cols, n) /\ entries' = [entries EXCEPT ![s] = e]
      /\ cols' = Register(Unregister(Intern(cols, n), s), s, n) /\ arena_settled' = arena_settled
  BY DEF ArenaRename, SlotRename, Usable
<1>3. s \in Living(entries)
  BY <1>1, <1>2 DEF FrnMapExact, LiveSlot, Living, Slot
<1>4. e.name = n /\ ~e.dead
  BY DEF LiveEntry
<1> HIDE DEF s, e
<1>5. Enrols(entries, s, n, entries')
  BY <1>1, <1>2, <1>3, <1>4 DEF Enrols, Living
<1>6. Kept(cols', entries')
  BY <1>1, <1>2, <1>3, <1>5, RenameStep
<1> QED
  BY <1>1, <1>2, <1>6 DEF ArenaInv

\* The end of the enumeration rebuilds the presence sets only.
LEMMA FinalizeKeeps ==
  ASSUME ArenaInv, ArenaFinalize, SlotInv'
  PROVE  ArenaInv'
<1>1. /\ SlotInv /\ Kept(cols, entries) /\ entries \in Seq(Entry) /\ entries' = entries
      /\ arena_settled' = TRUE /\ cols' = ResizeTri(cols, {entries[s].name : s \in LiveSlot})
  BY DEF ArenaInv, SlotInv, SlotTypeOK, ArenaFinalize, slotVars
<1>2. LiveSlot = Living(entries)
  BY DEF LiveSlot, Living, Slot
<1>3. Kept(cols', entries)
  BY <1>1, <1>2, ResizeStep
<1> QED
  BY <1>1, <1>3 DEF ArenaInv

-----------------------------------------------------------------------------
(* Compaction in place.                                                    *)

\* new is col with len bytes after from copied to after to.
Copied(col, new, from, len, to) ==
  /\ new \in Seq(Nat) /\ Len(new) = Len(col)
  /\ \A j \in 1..len : new[to + j] = col[from + j]
  /\ \A x \in 1..to : new[x] = col[x]
  /\ \A x \in (to + len + 1)..Len(col) : new[x] = col[x]

\* A move to the left reads every byte before it is overwritten.
LEMMA CopyFacts ==
  ASSUME NEW col \in Seq(Nat), NEW from \in Nat, NEW len \in Nat, NEW to \in Nat,
         to <= from, from + len <= Len(col)
  PROVE  Copied(col, CopyWithin(col, from, len, to), from, len, to)
<1> DEFINE m == Len(col)
           In(i) == i - 1 \in to..(to + len - 1)
           new == CopyWithin(col, from, len, to)
<1>1. m \in Nat /\ DOMAIN col = 1..m /\ \A i \in 1..m : col[i] \in Nat
  OBVIOUS
<1>2. new = [i \in 1..m |-> IF In(i) THEN col[from + i - to] ELSE col[i]]
  BY <1>1 DEF CopyWithin
<1> HIDE DEF new, m
<1>a. from + len <= m
  BY DEF m
<1>3. \A i \in 1..m : In(i) => from + i - to \in 1..m
  BY <1>1, <1>a
<1>4. \A i \in 1..m : (IF In(i) THEN col[from + i - to] ELSE col[i]) \in Nat
  <2> HIDE DEF In
  <2> QED
    BY <1>1, <1>3
<1>5. new \in Seq(Nat) /\ Len(new) = m
  <2> HIDE DEF In
  <2>1. new \in [1..m -> Nat]
    BY <1>2, <1>4, Zenon
  <2> QED
    BY <1>1, <2>1
<1>6. ASSUME NEW j \in 1..len PROVE new[to + j] = col[from + j]
  <2>1. to + j \in 1..m /\ In(to + j) /\ from + (to + j) - to = from + j
    BY <1>1, <1>a
  <2> HIDE DEF In
  <2>2. new[to + j] = col[from + (to + j) - to]
    BY <1>2, <2>1
  <2> QED
    BY <2>1, <2>2
<1>7. ASSUME NEW x \in 1..to PROVE new[x] = col[x]
  <2>1. x \in 1..m /\ ~In(x)
    BY <1>1, <1>a
  <2> HIDE DEF In
  <2> QED
    BY <1>2, <2>1
<1>8. ASSUME NEW x \in (to + len + 1)..m PROVE new[x] = col[x]
  <2>1. x \in 1..m /\ ~In(x)
    BY <1>1, <1>a
  <2> HIDE DEF In
  <2> QED
    BY <1>2, <2>1
<1> QED
  BY <1>5, <1>6, <1>7, <1>8 DEF Copied, new, m

\* The table after compaction: keep[i] is renumbered to i.
Renumbers(keep, es) ==
  /\ es \in Seq(Entry) /\ Len(es) \in Nat /\ DOMAIN keep = 1..Len(es)
  /\ \A i \in 1..Len(es) : keep[i] \in Living(entries) /\ es[i] = entries[keep[i]]
  /\ \A i, j \in 1..Len(es) : keep[i] = keep[j] => i = j
  /\ \A s \in Living(entries) : \E i \in 1..Len(es) : keep[i] = s

\* The renumbered slots whose record is among the first k, and the bytes written.
MovedBy(c, keep, k) ==
  {i \in DOMAIN keep : \E r \in 1..k : /\ c.recs[r].slot = keep[i]
                                       /\ c.recs[r].off = c.folded_off[keep[i]]}
Written(st) == IF st.recs = <<>> THEN 0 ELSE st.fw
MovedWeights(es, gone) == [i \in 1..Len(es) |-> IF i \in gone THEN NameWeight(es[i].name) ELSE 0]

\* After k records the first fw and nw bytes hold the names moved, and whatever is
\* still to be moved is further on, as it was.
MoveOK(c, keep, es, st, k) ==
  /\ st.folded \in Seq(Nat) /\ Len(st.folded) = Len(c.folded)
  /\ st.names \in Seq(Nat) /\ Len(st.names) = Len(c.names)
  /\ st.folded_off \in Seq(Nat) /\ Len(st.folded_off) = Len(es)
  /\ st.name_off \in Seq(Nat) /\ Len(st.name_off) = Len(es)
  /\ st.recs \in Seq(Rec) /\ \A r \in 1..Len(st.recs) : st.recs[r].slot \in 1..Len(es)
  /\ st.fw \in Nat /\ st.nw \in Nat /\ st.fw > 0 /\ st.nw <= Len(c.names)
  /\ st.recs = <<>> => st.fw = 1
  /\ st.recs # <<>> => st.fw <= Len(c.folded)
  /\ c.folded # <<>> => st.folded[1] = Fence
  /\ FoldedLaid(st.folded, Written(st), st.folded_off, st.recs, MovedBy(c, keep, k), es)
  /\ NamesLaid(st.names, st.nw, st.name_off, st.folded_off, MovedBy(c, keep, k), es)
  /\ \A i \in (1..Len(es)) \ MovedBy(c, keep, k) :
       /\ st.folded_off[i] = c.folded_off[keep[i]] /\ st.name_off[i] = c.name_off[keep[i]]
       /\ st.nw <= c.name_off[keep[i]]
  /\ \A x \in (st.fw + 1)..Len(c.folded) : st.folded[x] = c.folded[x]
  /\ \A x \in (st.nw + 1)..Len(c.names) : st.names[x] = c.names[x]
  /\ \A r \in (k + 1)..Len(c.recs) : st.fw <= c.recs[r].off
  /\ st.nw + st.fw = 1 + Len(st.recs) + Total(MovedWeights(es, MovedBy(c, keep, k)))

\* The state of the pass after each record, which depends on no type.
MoveStart(c, keep) ==
  [folded |-> c.folded, names |-> c.names,
   folded_off |-> [i \in DOMAIN keep |-> c.folded_off[keep[i]]],
   name_off |-> [i \in DOMAIN keep |-> c.name_off[keep[i]]],
   recs |-> <<>>, fw |-> 1, nw |-> 0]

\* The moves of a compaction, record by record.
LEMMA MovesStep ==
  ASSUME NEW c, NEW keep, Len(c.recs) \in Nat
  PROVE  \E g : /\ g[0] = MoveStart(c, keep)
                /\ \A k \in 1..Len(c.recs) : g[k] = MoveRecord(g[k - 1], c.recs[k], keep)
                /\ MoveRecords(c, keep) = g[Len(c.recs)]
<1> DEFINE n == Len(c.recs)
           start == MoveStart(c, keep)
           Step(t, k) == MoveRecord(t, c.recs[k], keep)
           Def(g) == [k \in 0..n |-> IF k = 0 THEN start ELSE Step(g[k - 1], k)]
           moved == CHOOSE h : h = Def(h)
           Upto(g, k) == g[0] = start /\ \A i \in 1..k : g[i] = Step(g[i - 1], i)
           T == {k \in 0..n : \E g : Upto(g, k)}
<1>1. MoveRecords(c, keep) = moved[n]
  BY DEF MoveRecords, MoveStart
<1> HIDE DEF start, Step, n
<1>a. n \in Nat
  BY DEF n
<1>2. 0 \in T
  <2> DEFINE h == [i \in 0..0 |-> start]
  <2>1. Upto(h, 0)
    OBVIOUS
  <2> HIDE DEF Upto, h
  <2> QED
    BY <1>a, <2>1
<1>3. ASSUME NEW k \in 0..(n - 1), k \in T PROVE k + 1 \in T
  <2>1. PICK g : Upto(g, k)
    BY <1>3
  <2> DEFINE h == [i \in 0..(k + 1) |-> IF i <= k THEN g[i] ELSE Step(g[k], k + 1)]
  <2>2. h[0] = start
    BY <1>a, <2>1
  <2>3. ASSUME NEW i \in 1..(k + 1) PROVE h[i] = Step(h[i - 1], i)
    <3>1. CASE i <= k
      <4>1. h[i] = g[i] /\ h[i - 1] = g[i - 1] /\ i \in 1..k
        BY <1>a, <3>1
      <4> QED
        BY <2>1, <4>1
    <3>2. CASE i = k + 1
      <4>1. h[i] = Step(g[k], k + 1) /\ h[i - 1] = g[k]
        BY <1>a, <3>2
      <4> QED
        BY <3>2, <4>1
    <3> QED
      BY <1>a, <3>1, <3>2
  <2>4. Upto(h, k + 1)
    BY <2>2, <2>3, Zenon
  <2> HIDE DEF Upto
  <2> QED
    BY <1>a, <2>4
<1>4. n \in T
  <2> HIDE DEF T
  <2>1. \A k \in 0..n : k \in T
    BY <1>a, <1>2, <1>3, InductionUpTo, Zenon
  <2> QED
    BY <1>a, <2>1
<1>5. PICK g0 : Upto(g0, n)
  BY <1>4
<1> DEFINE g == [k \in 0..n |-> g0[k]]
<1>6. g = Def(g)
  <2>1. \A k \in 0..n : g[k] = Def(g)[k]
    <3> TAKE k \in 0..n
    <3>1. CASE k = 0
      BY <1>a, <1>5, <3>1
    <3>2. CASE k # 0
      <4>1. k \in 1..n /\ k - 1 \in 0..n
        BY <1>a, <3>2
      <4>2. g[k] = g0[k] /\ g[k - 1] = g0[k - 1] /\ g0[k] = Step(g0[k - 1], k)
        BY <1>5, <4>1
      <4>3. Def(g)[k] = Step(g[k - 1], k)
        BY <3>2
      <4> QED
        BY <4>2, <4>3
    <3> QED
      BY <3>1, <3>2
  <2> QED
    BY <2>1
<1>7. moved = Def(moved)
  <2> HIDE DEF Def, g
  <2> QED
    BY <1>6
<1>8. moved[0] = start /\ \A k \in 1..n : moved[k] = Step(moved[k - 1], k)
  <2> HIDE DEF moved
  <2>1. \A k \in 0..n : moved[k] = Def(moved)[k]
    <3> HIDE DEF Def
    <3> QED
      BY <1>7
  <2>2. Def(moved)[0] = start
    BY <1>a
  <2>3. \A k \in 1..n : Def(moved)[k] = Step(moved[k - 1], k)
    BY <1>a
  <2> HIDE DEF Def
  <2> QED
    BY <1>a, <2>1, <2>2, <2>3
<1> HIDE DEF moved
<1> QED
  BY <1>1, <1>8 DEF start, Step, n

\* A slot that is kept is live, has a usable name and is in bounds of every column.
Survives(c, keep, es, i) ==
  /\ keep[i] \in Living(entries) /\ keep[i] \in 1..Len(entries)
  /\ es[i] = entries[keep[i]] /\ es[i].name \in Name \ BadName /\ ~es[i].dead
  /\ c.folded_off[keep[i]] \in Nat /\ c.name_off[keep[i]] \in Nat
  /\ Owns(c.folded, Len(c.folded), c.folded_off, c.recs, Living(entries), entries, keep[i])

\* What a kept slot is in the table before and after it.
LEMMA SurvivorFacts ==
  ASSUME entries \in Seq(Entry), NEW c, Kept(c, entries), NEW keep, NEW es, Renumbers(keep, es)
  PROVE  /\ \A i \in 1..Len(es) : Survives(c, keep, es, i)
         /\ Living(es) = 1..Len(es)
<1>1. \A i \in 1..Len(es) : keep[i] \in Living(entries) /\ es[i] = entries[keep[i]]
  BY DEF Renumbers
<1>2. c.folded_off \in Seq(Nat) /\ c.name_off \in Seq(Nat) /\ Len(c.folded_off) = Len(entries)
      /\ Len(c.name_off) = Len(entries)
  BY ColsFields DEF Kept, Rowed
<1>3. \A s \in Living(entries) :
         /\ entries[s].name \in Name \ BadName
         /\ Owns(c.folded, Len(c.folded), c.folded_off, c.recs, Living(entries), entries, s)
  BY KeptNames
<1>4. \A s \in Living(entries) : s \in 1..Len(entries) /\ ~entries[s].dead
  BY DEF Living
<1>5. \A s \in Living(entries) : c.folded_off[s] \in Nat /\ c.name_off[s] \in Nat
  BY <1>2, <1>4
<1>6. \A i \in 1..Len(es) : Survives(c, keep, es, i)
  BY <1>1, <1>3, <1>4, <1>5 DEF Survives
<1>7. Living(es) = 1..Len(es)
  BY <1>6, Zenon DEF Survives, Living
<1> QED
  BY <1>6, <1>7

\* What has been moved of names of no weight, and of one name more.
LEMMA MovedWeightFacts ==
  ASSUME NEW es \in Seq(Entry), NEW gone, \A i \in 1..Len(es) : es[i].name \in Name \ BadName
  PROVE  /\ MovedWeights(es, gone) \in Seq(Nat) /\ Len(MovedWeights(es, gone)) = Len(es)
         /\ \A i \in 1..Len(es) : MovedWeights(es, gone)[i] = IF i \in gone THEN NameWeight(es[i].name) ELSE 0
<1> DEFINE m == Len(es)
<1>1. m \in Nat
  OBVIOUS
<1>2. MovedWeights(es, gone) = [i \in 1..m |-> IF i \in gone THEN NameWeight(es[i].name) ELSE 0]
  BY DEF MovedWeights
<1>3. \A i \in 1..m : NameWeight(es[i].name) \in Nat
  BY WeightFacts, Zenon
<1> HIDE DEF m
<1>4. MovedWeights(es, gone) \in [1..m -> Nat]
  BY <1>2, <1>3
<1>5. MovedWeights(es, gone) \in Seq(Nat) /\ Len(MovedWeights(es, gone)) = m
  BY <1>1, <1>4
<1> QED
  BY <1>2, <1>5 DEF m

\* Before the first record moves the loop's invariant holds.
LEMMA MoveStarts ==
  ASSUME entries \in Seq(Entry), NEW c, Kept(c, entries), NEW keep, NEW es, Renumbers(keep, es)
  PROVE  MoveOK(c, keep, es, MoveStart(c, keep), 0)
<1> DEFINE st == MoveStart(c, keep)
           k == Len(es)
<1>1. /\ \A i \in 1..k : Survives(c, keep, es, i)
  BY SurvivorFacts
<1>2. /\ k \in Nat /\ DOMAIN keep = 1..k /\ es \in Seq(Entry)
  BY DEF Renumbers
<1>3. /\ st.folded = c.folded /\ st.names = c.names /\ st.recs = <<>> /\ st.fw = 1 /\ st.nw = 0
      /\ st.folded_off = [i \in 1..k |-> c.folded_off[keep[i]]]
      /\ st.name_off = [i \in 1..k |-> c.name_off[keep[i]]]
  BY <1>2 DEF MoveStart
<1>4. c.folded \in Seq(Nat) /\ c.names \in Seq(Nat) /\ c.recs \in Seq(Rec) /\ Len(c.names) \in Nat
  BY KeptNames
<1>5. MovedBy(c, keep, 0) = {}
  BY DEF MovedBy
<1> HIDE DEF st, k
<1>6. /\ st.folded_off \in Seq(Nat) /\ Len(st.folded_off) = k
      /\ st.name_off \in Seq(Nat) /\ Len(st.name_off) = k
  <2>1. \A i \in 1..k : c.folded_off[keep[i]] \in Nat /\ c.name_off[keep[i]] \in Nat
    BY <1>1 DEF Survives
  <2>2. st.folded_off \in [1..k -> Nat] /\ st.name_off \in [1..k -> Nat]
    BY <1>3, <2>1
  <2>3. k \in Nat
    BY <1>2 DEF k
  <2>4. \A f \in [1..k -> Nat] : f \in Seq(Nat) /\ Len(f) = k
    BY <2>3
  <2> QED
    BY <2>2, <2>4
<1>7. c.folded # <<>> => c.folded[1] = Fence
  <2>1. /\ c.recs = <<>> <=> Len(c.folded) = 0
        /\ c.recs # <<>> => c.folded[1] = Fence
    BY DEF Kept, FoldedLaid
  <2>2. c.folded # <<>> => Len(c.folded) # 0
    BY <1>4
  <2> QED
    BY <2>1, <2>2
<1>8. FoldedLaid(st.folded, Written(st), st.folded_off, st.recs, {}, es)
  BY <1>3 DEF FoldedLaid, Written
<1>9. NamesLaid(st.names, st.nw, st.name_off, st.folded_off, {}, es)
  BY DEF NamesLaid
<1>10. \A i \in 1..k : st.folded_off[i] = c.folded_off[keep[i]] /\ st.name_off[i] = c.name_off[keep[i]]
                       /\ st.nw <= c.name_off[keep[i]]
  <2>1. \A i \in 1..k : c.name_off[keep[i]] \in Nat
    BY <1>1 DEF Survives
  <2>2. \A x \in Nat : 0 <= x
    OBVIOUS
  <2> QED
    BY <1>3, <2>1, <2>2
<1>11. \A r \in 1..Len(c.recs) : st.fw <= c.recs[r].off
  <2>1. Records(c.folded, Len(c.folded), c.recs)
    BY KeptNames
  <2>2. \A r \in 1..Len(c.recs) : c.recs[r].off \in Nat /\ c.recs[r].off > 0
    BY <2>1 DEF Records
  <2>3. \A x \in Nat : x > 0 => 1 <= x
    OBVIOUS
  <2> QED
    BY <1>3, <2>2, <2>3
<1>12. Total(MovedWeights(es, {})) = 0
  <2>1. \A i \in 1..k : es[i].name \in Name \ BadName
    BY <1>1 DEF Survives
  <2> DEFINE w == MovedWeights(es, {})
  <2>2. w \in Seq(Nat) /\ \A i \in 1..Len(w) : w[i] = 0
    BY <1>2, <2>1, MovedWeightFacts DEF k
  <2> HIDE DEF w
  <2>3. Total(w) = 0
    BY <2>2, TotalZero
  <2> QED
    BY <2>3 DEF w
<1>13. MoveOK(c, keep, es, st, 0)
  <2>1. st.nw + st.fw = 1 + Len(st.recs) + Total(MovedWeights(es, {}))
    BY <1>3, <1>12
  <2>2. st.nw <= Len(c.names)
    BY <1>3, <1>4
  <2>3. st.recs \in Seq(Rec) /\ \A r \in 1..Len(st.recs) : st.recs[r].slot \in 1..k
    BY <1>3
  <2>4. \A r \in (0 + 1)..Len(c.recs) : st.fw <= c.recs[r].off
    BY <1>11
  <2>5. /\ \A x \in (st.fw + 1)..Len(c.folded) : st.folded[x] = c.folded[x]
        /\ \A x \in (st.nw + 1)..Len(c.names) : st.names[x] = c.names[x]
    BY <1>3
  <2>6. st.fw \in Nat /\ st.nw \in Nat /\ st.fw > 0
    BY <1>3
  <2>7. c.folded # <<>> => st.folded[1] = Fence
    BY <1>3, <1>7
  <2> QED
    BY <1>3, <1>4, <1>5, <1>6, <1>8, <1>9, <1>10, <2>1, <2>2, <2>3, <2>4, <2>5, <2>6, <2>7, Zenon DEF MoveOK, k
<1> QED
  BY <1>13 DEF st

\* A folded name copied left to fw, and the fence put after it.
FoldedMoved(fb, new, wl, fw, n) ==
  /\ new \in Seq(Nat) /\ Len(new) = Len(fb) /\ new[1] = Fence /\ FoldedAdded(fb, new, wl, n)
  /\ \A x \in (fw + Len(Folded[n]) + 2)..Len(fb) : new[x] = fb[x]

\* A folded name moved left is whole, and so are those moved before it.
LEMMA FoldedMove ==
  ASSUME NEW fb \in Seq(Nat), NEW n \in Name \ BadName, NEW off \in Nat, NEW fw \in Nat, NEW wl \in Nat,
         fw > 0, fw <= off, off + Len(Folded[n]) + 1 <= Len(fb), fb[1] = Fence, NewOff(wl) = fw,
         \A j \in 1..Len(Folded[n]) : fb[off + j] = Folded[n][j]
  PROVE  FoldedMoved(fb, [CopyWithin(fb, off, Len(Folded[n]), fw) EXCEPT ![fw + Len(Folded[n]) + 1] = Fence],
                     wl, fw, n)
<1> DEFINE l == Len(Folded[n])
           m == Len(fb)
           at == fw + l + 1
           cp == CopyWithin(fb, off, l, fw)
           new == [cp EXCEPT ![at] = Fence]
<1>1. l \in Nat /\ l > 0 /\ m \in Nat /\ off + l + 1 <= m
  BY NameBytes
<1>2. Copied(fb, cp, off, l, fw)
  <2> HIDE DEF cp, m
  <2>1. off + l <= m
    BY <1>1
  <2> HIDE DEF l
  <2>2. Copied(fb, CopyWithin(fb, off, l, fw), off, l, fw)
    BY <1>1, <2>1, CopyFacts DEF m
  <2> QED
    BY <2>2 DEF cp
<1>3. \A j \in 1..l : fb[off + j] = Folded[n][j]
  OBVIOUS
<1> HIDE DEF cp, l
<1>4. /\ cp \in Seq(Nat) /\ Len(cp) = m
      /\ \A j \in 1..l : cp[fw + j] = fb[off + j]
      /\ \A x \in 1..fw : cp[x] = fb[x]
      /\ \A x \in (fw + l + 1)..m : cp[x] = fb[x]
  BY <1>2 DEF Copied
<1> HIDE DEF m
<1>5. at \in 1..m /\ fw + l + 1 = at /\ at \in Nat
  BY <1>1
<1> HIDE DEF at
<1>6. /\ new \in Seq(Nat) /\ Len(new) = m /\ new[at] = Fence
      /\ \A x \in 1..m : x # at => new[x] = cp[x]
  BY <1>4, <1>5 DEF Fence
<1> HIDE DEF new
<1>7. new[1] = Fence
  <2>1. 1 \in 1..fw /\ 1 \in 1..m /\ 1 # at
    BY <1>1, <1>5
  <2> QED
    BY <1>4, <1>6, <2>1, Zenon
<1>8. wl <= fw
  BY DEF NewOff
<1>9. ASSUME NEW i \in 1..wl PROVE new[i] = fb[i]
  <2>1. i \in 1..fw /\ i \in 1..m /\ i # at
    BY <1>1, <1>5, <1>8
  <2> QED
    BY <1>4, <1>6, <2>1, Zenon
<1>10. ASSUME NEW j \in 1..l PROVE new[fw + j] = Folded[n][j]
  <2>1. fw + j \in 1..m /\ fw + j # at
    BY <1>1, <1>5
  <2> QED
    BY <1>3, <1>4, <1>6, <2>1, Zenon
<1>11. ASSUME NEW x \in (fw + l + 2)..m PROVE new[x] = fb[x]
  <2>1. x \in 1..m /\ x # at /\ x \in (fw + l + 1)..m
    BY <1>1, <1>5
  <2> QED
    BY <1>4, <1>6, <2>1, Zenon
<1>12. FoldedAdded(fb, new, wl, n)
  BY <1>5, <1>6, <1>7, <1>9, <1>10, Zenon DEF FoldedAdded, l
<1>13. FoldedMoved(fb, new, wl, fw, n)
  BY <1>6, <1>7, <1>11, <1>12 DEF FoldedMoved, l, m
<1> QED
  BY <1>13 DEF new, cp, at, l

\* A name copied left to nw.
NamesMoved(nb, new, nw, n) ==
  /\ new \in Seq(Nat) /\ Len(new) = Len(nb) /\ NamesAdded(nb, new, nw, n)
  /\ \A x \in (nw + Len(Orig[n]) + 1)..Len(nb) : new[x] = nb[x]

\* A spelling moved left is whole, and so are those moved before it.
LEMMA NamesMove ==
  ASSUME NEW nb \in Seq(Nat), NEW n \in Name \ BadName, NEW off \in Nat, NEW nw \in Nat,
         nw <= off, off + Len(Orig[n]) <= Len(nb),
         \A j \in 1..Len(Orig[n]) : nb[off + j] = Orig[n][j]
  PROVE  NamesMoved(nb, CopyWithin(nb, off, Len(Orig[n]), nw), nw, n)
<1> DEFINE l == Len(Orig[n])
           cp == CopyWithin(nb, off, l, nw)
<1>1. l \in Nat /\ off + l <= Len(nb)
  BY NameBytes
<1>2. \A j \in 1..l : nb[off + j] = Orig[n][j]
  BY Zenon
<1> HIDE DEF l
<1>3. Copied(nb, cp, off, l, nw)
  BY <1>1, CopyFacts
<1> HIDE DEF cp
<1>4. /\ cp \in Seq(Nat) /\ Len(cp) = Len(nb)
      /\ \A j \in 1..l : cp[nw + j] = nb[off + j]
      /\ \A x \in 1..nw : cp[x] = nb[x]
      /\ \A x \in (nw + l + 1)..Len(nb) : cp[x] = nb[x]
  BY <1>3 DEF Copied
<1>5. \A j \in 1..l : cp[nw + j] = Orig[n][j]
  BY <1>2, <1>4
<1>6. NamesMoved(nb, cp, nw, n)
  BY <1>4, <1>5, SMTT(30) DEF NamesMoved, NamesAdded, l
<1> QED
  BY <1>6 DEF cp, l

\* What one move leaves, of the name n that is slot ns's after compaction.
MovedOne(st, d, ns, n) ==
  /\ FoldedMoved(st.folded, d.folded, Written(st), st.fw, n)
  /\ NamesMoved(st.names, d.names, st.nw, n)
  /\ d.folded_off \in Seq(Nat) /\ d.name_off \in Seq(Nat)
  /\ RowSet(st.folded_off, d.folded_off, ns, st.fw) /\ RowSet(st.name_off, d.name_off, ns, st.nw)
  /\ d.recs = Append(st.recs, [off |-> st.fw, slot |-> ns])
  /\ d.fw = st.fw + Len(Folded[n]) + 1 /\ d.nw = st.nw + Len(Orig[n])

\* The record the pass is at is that of slot ns of the table after.
AtRecord(c, keep, es, st, k, ns) ==
  /\ k \in 0..(Len(c.recs) - 1) /\ ns \in DOMAIN keep
  /\ keep[ns] = c.recs[k + 1].slot /\ st.folded_off[ns] = c.recs[k + 1].off

\* Where it lies: a slot the pass has not moved, whose name is where it was.
Movable(c, keep, es, st, k, ns) ==
  /\ ns \in 1..Len(es) /\ ns \notin MovedBy(c, keep, k)
  /\ c.recs[k + 1].off = c.folded_off[keep[ns]] /\ st.name_off[ns] = c.name_off[keep[ns]]
  /\ st.fw <= c.folded_off[keep[ns]] /\ st.nw <= c.name_off[keep[ns]]
  /\ EndOf(c.recs, Len(c.folded), k + 1) = c.folded_off[keep[ns]] + Len(Folded[es[ns].name]) + 1
  /\ c.folded_off[keep[ns]] + Len(Folded[es[ns].name]) + 1 <= Len(c.folded)
  /\ c.name_off[keep[ns]] + Len(Orig[es[ns].name]) <= Len(c.names)
  /\ \A j \in 1..Len(Folded[es[ns].name]) :
       st.folded[c.folded_off[keep[ns]] + j] = Folded[es[ns].name][j]
  /\ \A j \in 1..Len(Orig[es[ns].name]) :
       st.names[c.name_off[keep[ns]] + j] = Orig[es[ns].name][j]

\* A record about to move still has its bytes: the write cursors are behind.
LEMMA MovableRecord ==
  ASSUME entries \in Seq(Entry), NEW c, Kept(c, entries), NEW keep, NEW es, Renumbers(keep, es),
         NEW st, NEW k, MoveOK(c, keep, es, st, k), NEW ns, AtRecord(c, keep, es, st, k, ns)
  PROVE  Movable(c, keep, es, st, k, ns)
<1> DEFINE s == keep[ns]
           n == es[ns].name
           off == c.recs[k + 1].off
           M == MovedBy(c, keep, k)
           flen == Len(c.folded)
           nlen == Len(c.names)
           rlen == Len(c.recs)
<1>1. /\ k \in 0..(rlen - 1) /\ ns \in 1..Len(es) /\ c.recs[k + 1].slot = s
      /\ st.folded_off[ns] = off
  BY DEF AtRecord, Renumbers
<1>2. /\ s \in Living(entries) /\ n = entries[s].name /\ n \in Name \ BadName /\ c.name_off[s] \in Nat
      /\ c.folded_off[s] \in Nat
      /\ Owns(c.folded, Len(c.folded), c.folded_off, c.recs, Living(entries), entries, s)
  BY <1>1, SurvivorFacts DEF Survives
<1>3. /\ Records(c.folded, flen, c.recs) /\ flen \in Nat /\ nlen \in Nat /\ rlen \in Nat
  BY KeptNames
<1>4. /\ st.fw \in Nat /\ st.nw \in Nat /\ st.recs \in Seq(Rec) /\ (st.recs # <<>> => st.fw <= Len(c.folded))
      /\ FoldedLaid(st.folded, Written(st), st.folded_off, st.recs, M, es)
      /\ \A i \in (1..Len(es)) \ M :
           /\ st.folded_off[i] = c.folded_off[keep[i]] /\ st.name_off[i] = c.name_off[keep[i]]
           /\ st.nw <= c.name_off[keep[i]]
      /\ \A x \in (st.fw + 1)..flen : st.folded[x] = c.folded[x]
      /\ \A x \in (st.nw + 1)..nlen : st.names[x] = c.names[x]
      /\ \A r \in (k + 1)..rlen : st.fw <= c.recs[r].off
  BY DEF MoveOK
<1>5. k + 1 \in 1..rlen /\ k + 1 \in (k + 1)..rlen
  BY <1>1, <1>3
<1>6. st.fw <= off /\ off \in Nat
  BY <1>3, <1>4, <1>5, Zenon DEF Records
<1> HIDE DEF M
\* A slot moved already starts before where the pass writes.
<1>7. ns \notin M
  <2> SUFFICES ASSUME ns \in M PROVE FALSE
    OBVIOUS
  <2> DEFINE wl == Written(st)
             x == st.folded_off[ns]
             l == Len(Folded[n])
  <2>1. wl \in Nat /\ wl <= st.fw
    BY <1>4 DEF Written
  <2>2. Owns(st.folded, wl, st.folded_off, st.recs, M, es, ns)
    <3> HIDE DEF wl
    <3>1. FoldedLaid(st.folded, wl, st.folded_off, st.recs, M, es)
      BY <1>4 DEF wl
    <3> QED
      BY <1>4, <2>1, <3>1, OwnRecord
  <2>3. x \in Nat /\ x + l + 1 <= wl
    BY <2>2 DEF Owns
  <2>4. l \in Nat /\ x = off
    BY <1>1, <1>2, NameBytes, Zenon
  <2> HIDE DEF wl, x, l, n, off
  <2> QED
    BY <1>4, <1>6, <2>1, <2>3, <2>4
<1>8. off = c.folded_off[s] /\ st.name_off[ns] = c.name_off[s] /\ st.nw <= c.name_off[s]
  BY <1>1, <1>4, <1>7
<1>9. PICK r \in 1..rlen :
         /\ c.recs[r].off = c.folded_off[s]
         /\ EndOf(c.recs, flen, r) = c.folded_off[s] + Len(Folded[n]) + 1
  BY <1>2 DEF Owns
<1>10. r = k + 1
  BY <1>3, <1>5, <1>8, <1>9, Zenon DEF Records
<1>11. /\ c.folded_off[s] + Len(Folded[n]) + 1 <= flen
       /\ \A j \in 1..Len(Folded[n]) : c.folded[c.folded_off[s] + j] = Folded[n][j]
  BY <1>2 DEF Owns
<1>12. /\ c.name_off[s] + Len(Orig[n]) <= nlen
       /\ \A j \in 1..Len(Orig[n]) : c.names[c.name_off[s] + j] = Orig[n][j]
  <2> DEFINE w == Orig[entries[s].name]
  <2>1. /\ c.name_off[s] + Len(w) <= nlen
        /\ \A j \in 1..Len(w) : c.names[c.name_off[s] + j] = w[j]
    BY <1>2, Zenon DEF Kept, NamesLaid
  <2>2. w = Orig[n]
    BY <1>2
  <2> HIDE DEF w, n, nlen, s
  <2> QED
    BY <2>1, <2>2
<1>13. ASSUME NEW j \in 1..Len(Folded[n]) PROVE st.folded[c.folded_off[s] + j] = Folded[n][j]
  <2> DEFINE x == c.folded_off[s]
             l == Len(Folded[n])
  <2>1. x \in Nat /\ l \in Nat /\ st.fw <= x /\ x + l + 1 <= flen /\ j \in 1..l
    BY <1>2, <1>6, <1>8, <1>11, NameBytes, Zenon
  <2> HIDE DEF x, l, flen, n, s
  <2>2. x + j \in (st.fw + 1)..flen
    BY <1>3, <1>4, <2>1
  <2>3. c.folded[x + j] = Folded[n][j]
    BY <1>11 DEF x, l
  <2> QED
    BY <1>4, <2>2, <2>3 DEF x
<1>14. ASSUME NEW j \in 1..Len(Orig[n]) PROVE st.names[c.name_off[s] + j] = Orig[n][j]
  <2> DEFINE x == c.name_off[s]
             l == Len(Orig[n])
  <2>1. x \in Nat /\ l \in Nat /\ st.nw <= x /\ x + l <= nlen /\ j \in 1..l
    BY <1>2, <1>8, <1>12, NameBytes, Zenon
  <2> HIDE DEF x, l, nlen, n, s
  <2>2. x + j \in (st.nw + 1)..nlen
    BY <1>3, <1>4, <2>1, SMTT(30)
  <2>3. c.names[x + j] = Orig[n][j]
    BY <1>12 DEF x, l
  <2> QED
    BY <1>4, <2>2, <2>3 DEF x
<1> QED
  BY <1>1, <1>6, <1>7, <1>8, <1>9, <1>10, <1>11, <1>12, <1>13, <1>14 DEF Movable, M

\* What one move writes.
LEMMA MovedFields ==
  ASSUME entries \in Seq(Entry), NEW c, Kept(c, entries), NEW keep, NEW es, Renumbers(keep, es),
         NEW st, NEW k, MoveOK(c, keep, es, st, k), NEW ns, AtRecord(c, keep, es, st, k, ns)
  PROVE  MovedOne(st, MoveOne(st, c.recs[k + 1], ns), ns, es[ns].name)
<1> DEFINE rec == c.recs[k + 1]
           n == es[ns].name
           off == c.folded_off[keep[ns]]
           noff == c.name_off[keep[ns]]
           fl == Len(Folded[n])
           nl == Len(Orig[n])
           wl == Written(st)
           d == MoveOne(st, rec, ns)
<1>1. Movable(c, keep, es, st, k, ns)
  BY MovableRecord
<1>2. /\ ns \in 1..Len(es) /\ rec.off = off /\ st.name_off[ns] = noff
      /\ st.fw <= off /\ st.nw <= noff
      /\ off + fl + 1 <= Len(c.folded) /\ noff + nl <= Len(c.names)
      /\ \A j \in 1..fl : st.folded[off + j] = Folded[n][j]
      /\ \A j \in 1..nl : st.names[noff + j] = Orig[n][j]
  BY <1>1 DEF Movable
<1>3. /\ n \in Name \ BadName /\ n = entries[keep[ns]].name /\ off \in Nat /\ noff \in Nat
  BY <1>2, SurvivorFacts, SMTT(30) DEF Survives
<1>4. rec.slot = keep[ns]
  BY DEF AtRecord
<1>5. FoldedLen(rec.slot) = fl /\ OrigLen(rec.slot) = nl
  BY <1>3, <1>4 DEF FoldedLen, OrigLen
<1>6. /\ st.folded \in Seq(Nat) /\ Len(st.folded) = Len(c.folded)
      /\ st.names \in Seq(Nat) /\ Len(st.names) = Len(c.names)
      /\ st.folded_off \in Seq(Nat) /\ Len(st.folded_off) = Len(es)
      /\ st.name_off \in Seq(Nat) /\ Len(st.name_off) = Len(es)
      /\ st.recs \in Seq(Rec) /\ st.fw \in Nat /\ st.nw \in Nat /\ st.fw > 0
      /\ st.recs = <<>> => st.fw = 1
      /\ c.folded # <<>> => st.folded[1] = Fence
  BY DEF MoveOK
<1>7. st.folded[1] = Fence
  <2>1. c.folded # <<>>
    <3> DEFINE m == Len(c.folded)
    <3>1. m # 0
      <4>1. fl \in Nat /\ m \in Nat /\ off + fl + 1 <= m
        BY <1>2, <1>3, NameBytes, KeptNames, Zenon
      <4> HIDE DEF fl, m, off
      <4> QED
        BY <1>3, <4>1
    <3> QED
      BY <3>1
  <2> QED
    BY <1>6, <2>1
<1>8. wl \in Nat /\ NewOff(wl) = st.fw
  BY <1>6 DEF Written, NewOff
<1> DEFINE fb2 == [CopyWithin(st.folded, off, fl, st.fw) EXCEPT ![st.fw + fl + 1] = Fence]
           nb2 == CopyWithin(st.names, noff, nl, st.nw)
<1>9. d = [folded |-> fb2, names |-> nb2,
           folded_off |-> [st.folded_off EXCEPT ![ns] = st.fw],
           name_off |-> [st.name_off EXCEPT ![ns] = st.nw],
           recs |-> Append(st.recs, [off |-> st.fw, slot |-> ns]),
           fw |-> st.fw + fl + 1, nw |-> st.nw + nl]
  <2> HIDE DEF fl, nl, off, noff, rec
  <2> QED
    BY <1>2, <1>5 DEF MoveOne
<1>10. FoldedMoved(st.folded, fb2, wl, st.fw, n)
  <2> DEFINE fb == st.folded
             fw == st.fw
  <2>1. /\ fb \in Seq(Nat) /\ off \in Nat /\ fw \in Nat /\ wl \in Nat /\ fw > 0 /\ fw <= off
        /\ off + Len(Folded[n]) + 1 <= Len(fb) /\ fb[1] = Fence /\ NewOff(wl) = fw
        /\ \A j \in 1..Len(Folded[n]) : fb[off + j] = Folded[n][j]
    BY <1>2, <1>3, <1>6, <1>7, <1>8
  <2> HIDE DEF fb, fw, wl, n, off
  <2>2. FoldedMoved(fb, [CopyWithin(fb, off, Len(Folded[n]), fw) EXCEPT ![fw + Len(Folded[n]) + 1] = Fence],
                    wl, fw, n)
    BY <1>3, <2>1, FoldedMove, Zenon
  <2> QED
    BY <2>2 DEF fb, fw, wl
<1>11. NamesMoved(st.names, nb2, st.nw, n)
  <2> DEFINE nb == st.names
             nw == st.nw
  <2>1. /\ nb \in Seq(Nat) /\ noff \in Nat /\ nw \in Nat /\ nw <= noff
        /\ noff + Len(Orig[n]) <= Len(nb)
        /\ \A j \in 1..Len(Orig[n]) : nb[noff + j] = Orig[n][j]
    BY <1>2, <1>3, <1>6
  <2> HIDE DEF nb, nw, n, noff
  <2>2. NamesMoved(nb, CopyWithin(nb, noff, Len(Orig[n]), nw), nw, n)
    BY <1>3, <2>1, NamesMove, Zenon
  <2> QED
    BY <2>2 DEF nb, nw
<1> HIDE DEF fb2, nb2, wl
<1>12. /\ d.folded = fb2 /\ d.names = nb2 /\ d.folded_off = [st.folded_off EXCEPT ![ns] = st.fw]
       /\ d.name_off = [st.name_off EXCEPT ![ns] = st.nw]
       /\ d.recs = Append(st.recs, [off |-> st.fw, slot |-> ns])
       /\ d.fw = st.fw + fl + 1 /\ d.nw = st.nw + nl
  <2> HIDE DEF d, fl, nl
  <2> QED
    BY <1>9
<1> HIDE DEF d
<1>13. /\ d.folded_off \in Seq(Nat) /\ RowSet(st.folded_off, d.folded_off, ns, st.fw)
       /\ d.name_off \in Seq(Nat) /\ RowSet(st.name_off, d.name_off, ns, st.nw)
  <2> DEFINE fo == st.folded_off
             no == st.name_off
             fw == st.fw
             nw == st.nw
  <2>1. /\ fo \in Seq(Nat) /\ no \in Seq(Nat) /\ fw \in Nat /\ nw \in Nat /\ ns \in 1..Len(fo)
        /\ ns \in 1..Len(no)
    BY <1>2, <1>6
  <2>2. d.folded_off = [fo EXCEPT ![ns] = fw] /\ d.name_off = [no EXCEPT ![ns] = nw]
    BY <1>12
  <2> HIDE DEF fo, no, fw, nw
  <2>3. \A a \in Seq(Nat) : \A v \in Nat : \A i \in 1..Len(a) :
           [a EXCEPT ![i] = v] \in Seq(Nat) /\ RowSet(a, [a EXCEPT ![i] = v], i, v)
    BY DEF RowSet
  <2>4. d.folded_off \in Seq(Nat) /\ RowSet(fo, d.folded_off, ns, fw)
    BY <2>1, <2>2, <2>3
  <2>5. d.name_off \in Seq(Nat) /\ RowSet(no, d.name_off, ns, nw)
    BY <2>1, <2>2, <2>3
  <2> QED
    BY <2>4, <2>5 DEF fo, no, fw, nw
<1>14. MovedOne(st, d, ns, n)
  <2> HIDE DEF n
  <2> QED
    BY <1>10, <1>11, <1>12, <1>13 DEF MovedOne, wl, fl, nl
<1> QED
  BY <1>14 DEF d, rec, n

\* The record at k + 1 is moved, so its slot has been.
LEMMA MovedGrows ==
  ASSUME entries \in Seq(Entry), NEW c, Kept(c, entries), NEW keep, NEW es, Renumbers(keep, es),
         NEW k \in 0..(Len(c.recs) - 1), NEW ns \in DOMAIN keep,
         c.recs[k + 1].slot = keep[ns], c.recs[k + 1].off = c.folded_off[keep[ns]]
  PROVE  MovedBy(c, keep, k + 1) = MovedBy(c, keep, k) \cup {ns}
<1> DEFINE Had(r, i) == c.recs[r].slot = keep[i] /\ c.recs[r].off = c.folded_off[keep[i]]
<1>1. k \in Nat /\ \A r : r \in 1..(k + 1) <=> (r \in 1..k \/ r = k + 1)
  <2>1. Len(c.recs) \in Nat
    BY KeptNames
  <2> QED
    BY <2>1
<1>2. \A i \in DOMAIN keep : i = ns <=> keep[i] = keep[ns]
  BY DEF Renumbers
<1>3. MovedBy(c, keep, k) = {i \in DOMAIN keep : \E r \in 1..k : Had(r, i)}
  BY DEF MovedBy
<1>4. MovedBy(c, keep, k + 1) = {i \in DOMAIN keep : \E r \in 1..(k + 1) : Had(r, i)}
  BY DEF MovedBy
<1>5. \A i \in DOMAIN keep : Had(k + 1, i) <=> i = ns
  BY <1>2
<1> HIDE DEF Had
<1> QED
  BY <1>1, <1>3, <1>4, <1>5

\* No other record moves one.
LEMMA MovedStays ==
  ASSUME NEW c, NEW keep, NEW k \in Nat,
         \A i \in DOMAIN keep : ~(c.recs[k + 1].slot = keep[i] /\ c.recs[k + 1].off = c.folded_off[keep[i]])
  PROVE  MovedBy(c, keep, k + 1) = MovedBy(c, keep, k)
<1> DEFINE Had(r, i) == c.recs[r].slot = keep[i] /\ c.recs[r].off = c.folded_off[keep[i]]
<1>1. \A r : r \in 1..(k + 1) <=> (r \in 1..k \/ r = k + 1)
  OBVIOUS
<1>2. \A i \in DOMAIN keep : ~Had(k + 1, i)
  OBVIOUS
<1>3. MovedBy(c, keep, k) = {i \in DOMAIN keep : \E r \in 1..k : Had(r, i)}
  BY DEF MovedBy
<1>4. MovedBy(c, keep, k + 1) = {i \in DOMAIN keep : \E r \in 1..(k + 1) : Had(r, i)}
  BY DEF MovedBy
<1> HIDE DEF Had
<1> QED
  BY <1>1, <1>2, <1>3, <1>4

\* What is still to be moved lies beyond the name just moved, in both arenas.
LEMMA UnmovedBeyond ==
  ASSUME entries \in Seq(Entry), NEW c, Kept(c, entries), NEW keep, NEW es, Renumbers(keep, es),
         NEW st, NEW k, MoveOK(c, keep, es, st, k), NEW ns, AtRecord(c, keep, es, st, k, ns),
         NEW i \in 1..Len(es), i \notin MovedBy(c, keep, k + 1)
  PROVE  c.name_off[keep[ns]] + Len(Orig[es[ns].name]) <= c.name_off[keep[i]]
<1> DEFINE s == keep[ns]
           t == keep[i]
           rlen == Len(c.recs)
<1>1. Movable(c, keep, es, st, k, ns)
  BY MovableRecord
<1>3. Records(c.folded, Len(c.folded), c.recs)
  BY KeptNames
<1>2. k \in 0..(rlen - 1) /\ rlen \in Nat /\ ns \in 1..Len(es) /\ c.recs[k + 1].off = c.folded_off[s]
  <2>1. rlen \in Nat
    BY <1>3 DEF Records
  <2>2. k \in 0..(rlen - 1)
    BY DEF AtRecord
  <2>3. ns \in 1..Len(es) /\ c.recs[k + 1].off = c.folded_off[s]
    BY <1>1 DEF Movable
  <2> QED
    BY <2>1, <2>2, <2>3
<1>4. /\ s \in Living(entries) /\ t \in Living(entries) /\ es[ns].name = entries[s].name
      /\ Owns(c.folded, Len(c.folded), c.folded_off, c.recs, Living(entries), entries, t)
  BY <1>2, SurvivorFacts DEF Survives
<1>5. PICK r \in 1..rlen : c.recs[r].slot = t /\ c.recs[r].off = c.folded_off[t]
  BY <1>4, Zenon DEF Owns
<1>6. ~(r \in 1..(k + 1))
  BY <1>5 DEF MovedBy, Renumbers
<1>7. k + 1 \in 1..rlen /\ k + 1 < r
  BY <1>2, <1>6
<1>8. c.recs[k + 1].off < c.recs[r].off
  BY <1>3, <1>7, Zenon DEF Records
<1>9. c.folded_off[s] < c.folded_off[t]
  BY <1>2, <1>5, <1>8
<1>10. NamesLaid(c.names, Len(c.names), c.name_off, c.folded_off, Living(entries), entries)
  BY DEF Kept
<1>11. c.name_off[s] + Len(Orig[entries[s].name]) <= c.name_off[t]
  BY <1>4, <1>9, <1>10, Zenon DEF NamesLaid
<1> QED
  BY <1>4, <1>11

\* The record is moved.
LEMMA MoveOneKeeps ==
  ASSUME entries \in Seq(Entry), NEW c, Kept(c, entries), NEW keep, NEW es, Renumbers(keep, es),
         NEW st, NEW k, MoveOK(c, keep, es, st, k), NEW ns, AtRecord(c, keep, es, st, k, ns)
  PROVE  MoveOK(c, keep, es, MoveOne(st, c.recs[k + 1], ns), k + 1)
<1> DEFINE d == MoveOne(st, c.recs[k + 1], ns)
           n == es[ns].name
           off == c.folded_off[keep[ns]]
           noff == c.name_off[keep[ns]]
           fl == Len(Folded[n])
           nl == Len(Orig[n])
           M == MovedBy(c, keep, k)
           M2 == MovedBy(c, keep, k + 1)
           wl == Written(st)
           flen == Len(c.folded)
           nlen == Len(c.names)
<1>1. Movable(c, keep, es, st, k, ns) /\ MovedOne(st, d, ns, n)
  BY MovableRecord, MovedFields
<1> HIDE DEF d
<1>2. /\ ns \in 1..Len(es) /\ ns \notin M /\ st.fw <= off /\ st.nw <= noff
      /\ EndOf(c.recs, flen, k + 1) = off + fl + 1
      /\ off + fl + 1 <= flen /\ noff + nl <= nlen
      /\ c.recs[k + 1].off = off
  BY <1>1 DEF Movable
<1>3. /\ k \in 0..(Len(c.recs) - 1) /\ Len(c.recs) \in Nat /\ ns \in DOMAIN keep
      /\ c.recs[k + 1].slot = keep[ns] /\ flen \in Nat /\ nlen \in Nat
      /\ Records(c.folded, flen, c.recs)
  BY KeptNames DEF AtRecord
<1>4. M2 = M \cup {ns}
  BY <1>2, <1>3, MovedGrows
<1>5. /\ n \in Name \ BadName /\ off \in Nat /\ noff \in Nat /\ fl \in Nat /\ nl \in Nat /\ fl > 0
      /\ es \in Seq(Entry) /\ \A i \in 1..Len(es) : es[i].name \in Name \ BadName
  <2>1. \A i \in 1..Len(es) : Survives(c, keep, es, i)
    BY SurvivorFacts
  <2>2. n \in Name \ BadName
    BY <1>2, <2>1 DEF Survives
  <2> HIDE DEF n
  <2> QED
    BY <1>2, <2>1, <2>2, NameBytes DEF Survives, Renumbers
<1>6. /\ FoldedMoved(st.folded, d.folded, wl, st.fw, n) /\ NamesMoved(st.names, d.names, st.nw, n)
      /\ d.folded_off \in Seq(Nat) /\ d.name_off \in Seq(Nat)
      /\ RowSet(st.folded_off, d.folded_off, ns, st.fw) /\ RowSet(st.name_off, d.name_off, ns, st.nw)
      /\ d.recs = Append(st.recs, [off |-> st.fw, slot |-> ns])
      /\ d.fw = st.fw + fl + 1 /\ d.nw = st.nw + nl
  BY <1>1 DEF MovedOne
<1>7. /\ st.folded \in Seq(Nat) /\ Len(st.folded) = flen
      /\ st.names \in Seq(Nat) /\ Len(st.names) = nlen
      /\ st.folded_off \in Seq(Nat) /\ Len(st.folded_off) = Len(es)
      /\ st.name_off \in Seq(Nat) /\ Len(st.name_off) = Len(es)
      /\ st.recs \in Seq(Rec) /\ \A r \in 1..Len(st.recs) : st.recs[r].slot \in 1..Len(es)
  BY DEF MoveOK
<1>8. /\ st.fw \in Nat /\ st.nw \in Nat /\ st.fw > 0
      /\ st.recs = <<>> => st.fw = 1
  BY DEF MoveOK
<1>9. /\ FoldedLaid(st.folded, wl, st.folded_off, st.recs, M, es)
      /\ NamesLaid(st.names, st.nw, st.name_off, st.folded_off, M, es)
  BY DEF MoveOK
<1>10. /\ \A i \in (1..Len(es)) \ M :
            /\ st.folded_off[i] = c.folded_off[keep[i]] /\ st.name_off[i] = c.name_off[keep[i]]
            /\ st.nw <= c.name_off[keep[i]]
       /\ \A x \in (st.fw + 1)..flen : st.folded[x] = c.folded[x]
       /\ \A x \in (st.nw + 1)..nlen : st.names[x] = c.names[x]
       /\ st.nw + st.fw = 1 + Len(st.recs) + Total(MovedWeights(es, M))
  BY DEF MoveOK
<1> HIDE DEF off, noff, fl, nl, n, M, M2, wl, flen, nlen
<1>11. /\ d.fw \in Nat /\ d.nw \in Nat /\ d.fw > 0 /\ d.nw <= nlen /\ d.fw <= flen
       /\ d.fw = st.fw + fl + 1 /\ d.nw = st.nw + nl /\ d.fw > st.fw /\ d.nw >= st.nw
       /\ d.fw <= off + fl + 1 /\ d.nw <= noff + nl
  <2> DEFINE fw == st.fw
             nw == st.nw
             dfw == d.fw
             dnw == d.nw
  <2>1. /\ fw \in Nat /\ nw \in Nat /\ fw > 0 /\ fw <= off /\ nw <= noff /\ dfw = fw + fl + 1 /\ dnw = nw + nl
        /\ off + fl + 1 <= flen /\ noff + nl <= nlen
    BY <1>2, <1>6, <1>8
  <2> HIDE DEF fw, nw, dfw, dnw
  <2>2. /\ dfw \in Nat /\ dnw \in Nat /\ dfw > 0 /\ dnw <= nlen /\ dfw <= flen /\ dfw > fw /\ dnw >= nw
        /\ dfw <= off + fl + 1 /\ dnw <= noff + nl
    BY <1>3, <1>5, <2>1
  <2> QED
    BY <2>1, <2>2 DEF fw, nw, dfw, dnw
<1>12. /\ d.recs \in Seq(Rec) /\ d.recs # <<>> /\ Len(d.recs) = Len(st.recs) + 1
       /\ \A r \in 1..Len(d.recs) : d.recs[r].slot \in 1..Len(es)
  <2> DEFINE x == [off |-> st.fw, slot |-> ns]
             rs == st.recs
             rs2 == d.recs
             m == Len(es)
  <2>1. x \in Rec /\ x.slot \in 1..m
    BY <1>2, <1>8 DEF Rec
  <2>2. rs \in Seq(Rec) /\ rs2 = Append(rs, x) /\ \A r \in 1..Len(rs) : rs[r].slot \in 1..m
    BY <1>6, <1>7, Zenon
  <2> HIDE DEF x, rs, rs2, m, Rec
  <2>3. rs2 \in Seq(Rec) /\ rs2 # <<>> /\ Len(rs2) = Len(rs) + 1 /\ Len(rs) \in Nat
        /\ rs2[Len(rs) + 1] = x /\ \A r \in 1..Len(rs) : rs2[r] = rs[r]
    BY <2>1, <2>2, AppendProperties
  <2>4. \A r \in 1..Len(rs2) : rs2[r].slot \in 1..m
    <3> TAKE r \in 1..Len(rs2)
    <3>1. CASE r = Len(rs) + 1
      BY <2>1, <2>3, <3>1
    <3>2. CASE r # Len(rs) + 1
      <4>1. r \in 1..Len(rs)
        BY <2>3, <3>2
      <4> QED
        BY <2>2, <2>3, <4>1
    <3> QED
      BY <3>1, <3>2
  <2> QED
    BY <2>3, <2>4 DEF rs, rs2, m
<1>13. Written(d) = d.fw /\ wl \in Nat /\ NewOff(wl) = st.fw /\ wl <= st.fw
  BY <1>8, <1>12 DEF Written, NewOff, wl
<1>14. /\ d.folded_off[ns] = st.fw /\ \A i \in 1..Len(es) : i # ns => d.folded_off[i] = st.folded_off[i]
       /\ d.name_off[ns] = st.nw /\ \A i \in 1..Len(es) : i # ns => d.name_off[i] = st.name_off[i]
       /\ Len(d.folded_off) = Len(es) /\ Len(d.name_off) = Len(es)
  <2> DEFINE fo == st.folded_off
             fo2 == d.folded_off
             no == st.name_off
             no2 == d.name_off
             m == Len(es)
  <2>1. /\ RowSet(fo, fo2, ns, st.fw) /\ RowSet(no, no2, ns, st.nw) /\ Len(fo) = m /\ Len(no) = m
        /\ ns \in 1..m /\ m \in Nat
    BY <1>2, <1>5, <1>6, <1>7
  <2> HIDE DEF fo, fo2, no, no2, m
  <2>2. fo2[ns] = st.fw /\ (\A i \in 1..m : i # ns => fo2[i] = fo[i]) /\ Len(fo2) = m
    BY <2>1 DEF RowSet
  <2>3. no2[ns] = st.nw /\ (\A i \in 1..m : i # ns => no2[i] = no[i]) /\ Len(no2) = m
    BY <2>1 DEF RowSet
  <2> QED
    BY <2>2, <2>3 DEF fo, fo2, no, no2, m
<1>15. M \subseteq 1..Len(es) /\ \A i \in M : i # ns
  <2>1. M \subseteq 1..Len(es)
    BY DEF M, MovedBy, Renumbers
  <2> QED
    BY <1>2, <2>1
<1>16. Stays(M, st.folded_off, d.folded_off) /\ Stays(M, st.name_off, d.name_off) /\ Named(M, es, es)
  BY <1>14, <1>15 DEF Stays, Named
<1>17. FoldedLaid(d.folded, d.fw, d.folded_off, d.recs, M2, es)
  <2> DEFINE fb == st.folded
             fb2 == d.folded
             fo == st.folded_off
             fo2 == d.folded_off
             rs == st.recs
  <2>1. /\ FoldedLaid(fb, wl, fo, rs, M, es) /\ FoldedAdded(fb, fb2, wl, n) /\ fo2[ns] = NewOff(wl)
        /\ es[ns].name = n /\ Stays(M, fo, fo2) /\ Named(M, es, es) /\ ns \notin M /\ ns \in Nat
        /\ rs \in Seq(Rec)
    BY <1>2, <1>6, <1>7, <1>9, <1>13, <1>14, <1>16 DEF FoldedMoved, n
  <2> HIDE DEF fb, fb2, fo, fo2, rs
  <2>2. FoldedLaid(fb2, NewOff(wl) + Len(Folded[n]) + 1, fo2,
                   Append(rs, [off |-> NewOff(wl), slot |-> ns]), M \cup {ns}, es)
    BY <1>5, <1>13, <2>1, FoldedExtends, Zenon
  <2>3. NewOff(wl) + Len(Folded[n]) + 1 = d.fw /\ Append(rs, [off |-> NewOff(wl), slot |-> ns]) = d.recs
    BY <1>6, <1>13 DEF fl, rs
  <2> QED
    BY <1>4, <2>2, <2>3, Zenon DEF fb2, fo2
<1>18. \A t \in M : st.folded_off[t] \in Nat /\ st.folded_off[t] < st.fw
  <2> TAKE t \in M
  <2>1. Owns(st.folded, wl, st.folded_off, st.recs, M, es, t)
    BY <1>7, <1>9, <1>13, OwnRecord
  <2> DEFINE x == st.folded_off[t]
             l == Len(Folded[es[t].name])
  <2>2. x \in Nat /\ x + l + 1 <= wl
    BY <2>1 DEF Owns
  <2>3. l \in Nat
    BY <1>5, <1>15, NameBytes
  <2> HIDE DEF x, l
  <2>4. x < st.fw
    BY <1>8, <1>13, <2>2, <2>3
  <2> QED
    BY <2>2, <2>4 DEF x
<1>19. NamesLaid(d.names, d.nw, d.name_off, d.folded_off, M2, es)
  <2> DEFINE nb == st.names
             nb2 == d.names
             no == st.name_off
             no2 == d.name_off
             fo == st.folded_off
             fo2 == d.folded_off
             nw == st.nw
  <2>1. /\ NamesLaid(nb, nw, no, fo, M, es) /\ nw \in Nat /\ ns \notin M
        /\ \A t \in M : es[t].name \in Name \ BadName
        /\ \A t \in M : fo[t] \in Nat /\ fo[t] < fo2[ns]
        /\ NamesAdded(nb, nb2, nw, n) /\ no2[ns] = nw /\ fo2[ns] \in Nat /\ es[ns].name = n
        /\ Stays(M, fo, fo2) /\ Stays(M, no, no2) /\ Named(M, es, es)
    BY <1>2, <1>5, <1>6, <1>8, <1>9, <1>14, <1>15, <1>16, <1>18 DEF NamesMoved, n
  <2> HIDE DEF nb, nb2, no, no2, fo, fo2, nw
  <2>2. NamesLaid(nb2, nw + Len(Orig[n]), no2, fo2, M \cup {ns}, es)
    BY <1>5, <2>1, NamesExtend, Zenon
  <2>3. nw + Len(Orig[n]) = d.nw
    BY <1>6 DEF nl, nw
  <2> QED
    BY <1>4, <2>2, <2>3 DEF nb2, no2, fo2
<1>20. ASSUME NEW i \in (1..Len(es)) \ M2
       PROVE  /\ d.folded_off[i] = c.folded_off[keep[i]] /\ d.name_off[i] = c.name_off[keep[i]]
              /\ d.nw <= c.name_off[keep[i]]
  <2>1. i \in 1..Len(es) /\ i # ns /\ i \in (1..Len(es)) \ M
    BY <1>4, <1>20
  <2>2. noff + nl <= c.name_off[keep[i]]
    BY <2>1, <1>20, UnmovedBeyond DEF M2, noff, nl, n
  <2>3. c.name_off[keep[i]] \in Nat
    BY <2>1, SurvivorFacts DEF Survives
  <2> DEFINE y == c.name_off[keep[i]]
  <2>4. d.nw <= y
    <3> HIDE DEF y
    <3> QED
      <4> DEFINE dnw == d.nw
      <4>1. dnw \in Nat /\ dnw <= noff + nl /\ noff + nl <= y /\ y \in Nat
        BY <1>11, <2>2, <2>3 DEF y
      <4> HIDE DEF dnw
      <4>2. dnw <= y
        BY <1>5, <4>1
      <4> QED
        BY <4>2 DEF dnw
  <2> QED
    BY <1>10, <1>14, <2>1, <2>4
<1>21. /\ d.folded \in Seq(Nat) /\ Len(d.folded) = flen /\ d.folded[1] = Fence
       /\ \A x \in (st.fw + fl + 2)..flen : d.folded[x] = st.folded[x]
       /\ d.names \in Seq(Nat) /\ Len(d.names) = nlen
       /\ \A x \in (st.nw + nl + 1)..nlen : d.names[x] = st.names[x]
  BY <1>6, <1>7 DEF FoldedMoved, NamesMoved, fl, nl
<1>22. ASSUME NEW x \in (d.fw + 1)..flen PROVE d.folded[x] = c.folded[x]
  <2>1. x \in (st.fw + fl + 2)..flen /\ x \in (st.fw + 1)..flen
    <3> DEFINE fw == st.fw
               dfw == d.fw
    <3>1. fw \in Nat /\ dfw = fw + fl + 1 /\ x \in (dfw + 1)..flen
      BY <1>8, <1>11
    <3> HIDE DEF fw, dfw
    <3>2. x \in (fw + fl + 2)..flen /\ x \in (fw + 1)..flen
      BY <1>3, <1>5, <3>1
    <3> QED
      BY <3>2 DEF fw
  <2> QED
    BY <1>10, <1>21, <2>1
<1>23. ASSUME NEW x \in (d.nw + 1)..nlen PROVE d.names[x] = c.names[x]
  <2>1. x \in (st.nw + nl + 1)..nlen /\ x \in (st.nw + 1)..nlen
    <3> DEFINE nw == st.nw
               dnw == d.nw
    <3>1. nw \in Nat /\ dnw = nw + nl /\ x \in (dnw + 1)..nlen
      BY <1>8, <1>11
    <3> HIDE DEF nw, dnw
    <3>2. x \in (nw + nl + 1)..nlen /\ x \in (nw + 1)..nlen
      BY <1>3, <1>5, <3>1
    <3> QED
      BY <3>2 DEF nw
  <2> QED
    BY <1>10, <1>21, <2>1
<1>24. ASSUME NEW r \in ((k + 1) + 1)..Len(c.recs) PROVE d.fw <= c.recs[r].off
  <2>1. k + 1 \in 1..Len(c.recs) /\ r \in 1..Len(c.recs) /\ k + 1 < r
    BY <1>3
  <2>2. off + fl + 1 <= c.recs[r].off /\ c.recs[r].off \in Nat
    BY <1>2, <1>3, <2>1 DEF Records
  <2> DEFINE y == c.recs[r].off
  <2>3. d.fw <= y
    <3> HIDE DEF y
    <3> QED
      <4> DEFINE dfw == d.fw
      <4>1. dfw \in Nat /\ dfw <= off + fl + 1 /\ off + fl + 1 <= y /\ y \in Nat
        BY <1>11, <2>2 DEF y
      <4> HIDE DEF dfw
      <4>2. dfw <= y
        BY <1>5, <4>1
      <4> QED
        BY <4>2 DEF dfw
  <2> QED
    BY <2>3
<1>25. d.nw + d.fw = 1 + Len(d.recs) + Total(MovedWeights(es, M2))
  <2> DEFINE w == MovedWeights(es, M)
             v == MovedWeights(es, M2)
  <2>1. /\ w \in Seq(Nat) /\ v \in Seq(Nat) /\ Len(w) = Len(es) /\ Len(v) = Len(es)
        /\ \A i \in 1..Len(es) : w[i] = IF i \in M THEN NameWeight(es[i].name) ELSE 0
        /\ \A i \in 1..Len(es) : v[i] = IF i \in M2 THEN NameWeight(es[i].name) ELSE 0
    BY <1>5, MovedWeightFacts
  <2> HIDE DEF w, v
  <2>2. w[ns] = 0 /\ v[ns] = NameWeight(n) /\ \A i \in 1..Len(es) : i # ns => v[i] = w[i]
    BY <1>2, <1>4, <2>1, Zenon DEF n
  <2>3. Total(v) + w[ns] = Total(w) + v[ns] /\ Total(v) \in Nat /\ Total(w) \in Nat
    <3>1. Len(v) = Len(w) /\ ns \in 1..Len(w) /\ \A i \in 1..Len(w) : i # ns => v[i] = w[i]
      BY <1>2, <2>1, <2>2
    <3> QED
      BY <2>1, <3>1, TotalChanged
  <2>4. NameWeight(n) = nl + fl
    BY <1>5, WeightFacts, Zenon DEF nl, fl
  <2> DEFINE m == Len(st.recs)
  <2>5. m \in Nat /\ Len(d.recs) = m + 1 /\ st.nw + st.fw = 1 + m + Total(w)
    BY <1>7, <1>10, <1>12 DEF w
  <2> DEFINE a == Total(w)
             b == Total(v)
  <2>6. b = a + (nl + fl) /\ a \in Nat /\ b \in Nat
    <3> HIDE DEF a, b
    <3>1. b + 0 = a + (nl + fl) /\ a \in Nat /\ b \in Nat
      BY <2>2, <2>3, <2>4 DEF a, b
    <3> QED
      BY <1>5, <3>1
  <2>7. st.nw + st.fw = 1 + m + a
    BY <2>5
  <2> HIDE DEF m, a, b
  <2>8. d.nw + d.fw = 1 + (m + 1) + b
    <3> DEFINE fw == st.fw
               nw == st.nw
               dfw == d.fw
               dnw == d.nw
    <3>1. /\ fw \in Nat /\ nw \in Nat /\ dfw = fw + fl + 1 /\ dnw = nw + nl /\ nw + fw = 1 + m + a
      BY <1>8, <1>11, <2>7
    <3> HIDE DEF fw, nw, dfw, dnw
    <3>2. dnw + dfw = 1 + (m + 1) + b
      BY <1>5, <2>5, <2>6, <3>1
    <3> QED
      BY <3>2 DEF dfw, dnw
  <2> QED
    BY <2>5, <2>8 DEF b, v
<1>26. MoveOK(c, keep, es, d, k + 1)
  <2>1. Written(d) = d.fw
    BY <1>13
  <2>2. d.recs = <<>> => d.fw = 1
    BY <1>12
  <2> QED
    BY <1>6, <1>11, <1>12, <1>14, <1>17, <1>19, <1>20, <1>21, <1>22, <1>23, <1>24, <1>25, <2>1, <2>2,
       Zenon DEF MoveOK, M2, flen, nlen
<1> QED
  BY <1>26 DEF d

\* Each record of the arena, moved or passed over.
LEMMA MoveRecordKeeps ==
  ASSUME entries \in Seq(Entry), NEW c, Kept(c, entries), NEW keep, NEW es, Renumbers(keep, es),
         NEW st, NEW k \in 0..(Len(c.recs) - 1), MoveOK(c, keep, es, st, k)
  PROVE  MoveOK(c, keep, es, MoveRecord(st, c.recs[k + 1], keep), k + 1)
<1> DEFINE rec == c.recs[k + 1]
           ns == CHOOSE i \in DOMAIN keep : keep[i] = rec.slot
           Its == (\E i \in DOMAIN keep : keep[i] = rec.slot) /\ st.folded_off[ns] = rec.off
<1>1. CASE Its
  <2>1. ns \in DOMAIN keep /\ keep[ns] = rec.slot /\ st.folded_off[ns] = rec.off
    BY <1>1
  <2>2. MoveRecord(st, rec, keep) = MoveOne(st, rec, ns)
    BY <1>1 DEF MoveRecord
  <2> HIDE DEF ns
  <2>3. AtRecord(c, keep, es, st, k, ns)
    BY <2>1 DEF AtRecord
  <2>4. MoveOK(c, keep, es, MoveOne(st, c.recs[k + 1], ns), k + 1)
    BY <2>3, MoveOneKeeps
  <2> QED
    BY <2>2, <2>4
<1>2. CASE ~Its
  <2>1. MoveRecord(st, rec, keep) = st
    BY <1>2 DEF MoveRecord
  <2>2. /\ DOMAIN keep = 1..Len(es) /\ \A i, j \in DOMAIN keep : keep[i] = keep[j] => i = j
    BY DEF Renumbers
  <2>3. Len(c.recs) \in Nat /\ Records(c.folded, Len(c.folded), c.recs)
    BY KeptNames DEF Records
  <2>4. ASSUME NEW i \in DOMAIN keep, rec.slot = keep[i], rec.off = c.folded_off[keep[i]] PROVE FALSE
    <3>1. ns = i
      BY <2>2, <2>4
    <3>2. st.folded_off[i] # rec.off
      BY <1>2, <2>4, <3>1, Zenon
    <3> HIDE DEF ns, Its
    <3>3. i \in MovedBy(c, keep, k)
      BY <2>2, <2>4, <3>2 DEF MoveOK
    <3>4. PICK r \in 1..k : c.recs[r].off = c.folded_off[keep[i]]
      BY <3>3 DEF MovedBy
    <3>5. r \in 1..Len(c.recs) /\ k + 1 \in 1..Len(c.recs) /\ r # k + 1
      BY <2>3
    <3> QED
      BY <2>3, <2>4, <3>4, <3>5 DEF Records
  <2> HIDE DEF ns, Its
  <2>5. MovedBy(c, keep, k + 1) = MovedBy(c, keep, k)
    BY <2>4, MovedStays
  <2>6. \A r \in ((k + 1) + 1)..Len(c.recs) : r \in (k + 1)..Len(c.recs)
    BY <2>3
  <2>7. MoveOK(c, keep, es, st, k + 1)
    BY <2>5, <2>6, Zenon DEF MoveOK
  <2> QED
    BY <2>1, <2>7
<1> QED
  BY <1>1, <1>2

\* Pass 3 of compaction.
LEMMA AllMoved ==
  ASSUME entries \in Seq(Entry), NEW c, Kept(c, entries), NEW keep, NEW es, Renumbers(keep, es)
  PROVE  MoveOK(c, keep, es, MoveRecords(c, keep), Len(c.recs))
<1> DEFINE n == Len(c.recs)
<1>1. n \in Nat
  BY KeptNames DEF Records
<1>2. PICK g : /\ g[0] = MoveStart(c, keep)
               /\ \A k \in 1..Len(c.recs) : g[k] = MoveRecord(g[k - 1], c.recs[k], keep)
               /\ MoveRecords(c, keep) = g[Len(c.recs)]
  BY <1>1, MovesStep
<1> DEFINE T == {k \in 0..n : MoveOK(c, keep, es, g[k], k)}
<1>3. 0 \in T
  <2>1. MoveOK(c, keep, es, g[0], 0)
    BY <1>2, MoveStarts
  <2> QED
    BY <1>1, <2>1
<1>4. ASSUME NEW k \in 0..(n - 1), k \in T PROVE k + 1 \in T
  <2>1. k + 1 \in 1..n /\ (k + 1) - 1 = k /\ k + 1 \in 0..n
    BY <1>1
  <2>2. g[k + 1] = MoveRecord(g[k], c.recs[k + 1], keep)
    BY <1>2, <2>1
  <2>3. MoveOK(c, keep, es, g[k], k)
    BY <1>4
  <2>4. MoveOK(c, keep, es, g[k + 1], k + 1)
    BY <2>2, <2>3, MoveRecordKeeps
  <2> QED
    BY <2>1, <2>4
<1> HIDE DEF T
<1>5. \A k \in 0..n : k \in T
  <2> HIDE DEF n
  <2> QED
    BY <1>1, <1>3, <1>4, InductionUpTo
<1>6. n \in T
  BY <1>1, <1>5
<1> QED
  BY <1>2, <1>6 DEF T

\* After the last record every survivor has moved.
LEMMA MovedAll ==
  ASSUME entries \in Seq(Entry), NEW c, Kept(c, entries), NEW keep, NEW es, Renumbers(keep, es)
  PROVE  MovedBy(c, keep, Len(c.recs)) = 1..Len(es)
<1>1. DOMAIN keep = 1..Len(es)
  BY DEF Renumbers
<1>2. ASSUME NEW i \in 1..Len(es)
      PROVE  \E r \in 1..Len(c.recs) : /\ c.recs[r].slot = keep[i]
                                       /\ c.recs[r].off = c.folded_off[keep[i]]
  BY SurvivorFacts DEF Survives, Owns
<1> QED
  BY <1>1, <1>2, Zenon DEF MovedBy

\* Only the first bytes count.
LEMMA FoldedSame ==
  ASSUME NEW fb, NEW fb2, NEW flen \in Nat, NEW fo, NEW rs \in Seq(Rec), NEW live, NEW es,
         FoldedLaid(fb, flen, fo, rs, live, es), \A i \in 1..flen : fb2[i] = fb[i]
  PROVE  FoldedLaid(fb2, flen, fo, rs, live, es)
<1>1. Records(fb, flen, rs) /\ \A t \in live : Owns(fb, flen, fo, rs, live, es, t)
  BY RecordFacts, OwnRecord
<1>2. /\ rs = <<>> <=> flen = 0
      /\ rs # <<>> => rs[1].off = 1 /\ fb[1] = Fence
      /\ \A r \in 1..Len(rs) : ~Mine(fo, live, rs[r]) =>
           \A i \in (rs[r].off + 1)..(EndOf(rs, flen, r) - 1) : fb[i] = Fence
  BY DEF FoldedLaid
<1>3. rs # <<>> => rs[1].off = 1 /\ fb2[1] = Fence
  <2>1. flen # 0 => 1 \in 1..flen
    OBVIOUS
  <2> QED
    BY <1>2, <2>1
<1>4. ASSUME NEW r \in 1..Len(rs)
      PROVE  LET end == EndOf(rs, flen, r)
             IN  /\ rs[r].off + 1 < end /\ end <= flen /\ fb2[end] = Fence
                 /\ ~Mine(fo, live, rs[r]) => \A i \in (rs[r].off + 1)..(end - 1) : fb2[i] = Fence
  <2> DEFINE end == EndOf(rs, flen, r)
             off == rs[r].off
  <2>1. off \in Nat /\ end \in Nat /\ off + 1 < end /\ end <= flen /\ fb[end] = Fence
    BY <1>1 DEF Records
  <2>2. ~Mine(fo, live, rs[r]) => \A i \in (off + 1)..(end - 1) : fb[i] = Fence
    BY <1>2
  <2> HIDE DEF end, off
  <2>3. end \in 1..flen /\ \A i \in (off + 1)..(end - 1) : i \in 1..flen
    BY <2>1
  <2>4. fb2[end] = Fence /\ (~Mine(fo, live, rs[r]) => \A i \in (off + 1)..(end - 1) : fb2[i] = Fence)
    BY <2>1, <2>2, <2>3
  <2> QED
    BY <2>1, <2>4 DEF end, off
<1>5. \A r, q \in 1..Len(rs) : r < q => EndOf(rs, flen, r) <= rs[q].off
  BY DEF FoldedLaid
<1>6. ASSUME NEW s \in live
      PROVE  \E r \in 1..Len(rs) :
               /\ rs[r].slot = s /\ rs[r].off = fo[s] /\ es[s].name \in Name \ BadName
               /\ EndOf(rs, flen, r) = fo[s] + Len(Folded[es[s].name]) + 1
               /\ \A j \in 1..Len(Folded[es[s].name]) : fb2[fo[s] + j] = Folded[es[s].name][j]
  <2> DEFINE x == fo[s]
             n == es[s].name
             l == Len(Folded[n])
  <2>1. /\ x \in Nat /\ n \in Name \ BadName /\ x + l + 1 <= flen
        /\ \A j \in 1..l : fb[x + j] = Folded[n][j]
        /\ \E r \in 1..Len(rs) : rs[r].slot = s /\ rs[r].off = x /\ EndOf(rs, flen, r) = x + l + 1
    BY <1>1 DEF Owns
  <2>2. l \in Nat
    BY <2>1, NameBytes
  <2> HIDE DEF x, n, l
  <2>3. \A j \in 1..l : x + j \in 1..flen
    BY <2>1, <2>2
  <2>4. \A j \in 1..l : fb2[x + j] = Folded[n][j]
    BY <2>1, <2>3
  <2> QED
    BY <2>1, <2>4, Zenon DEF x, n, l
<1> HIDE DEF Mine, EndOf
<1> QED
  BY <1>2, <1>3, <1>4, <1>5, <1>6, Zenon DEF FoldedLaid

\* Spellings stay laid in an arena that agrees with the old one.
LEMMA NamesSame ==
  ASSUME NEW nb, NEW nb2, NEW nlen \in Nat, NEW no, NEW fo, NEW live, NEW es,
         NamesLaid(nb, nlen, no, fo, live, es), \A i \in 1..nlen : nb2[i] = nb[i],
         \A s \in live : es[s].name \in Name \ BadName
  PROVE  NamesLaid(nb2, nlen, no, fo, live, es)
<1>1. ASSUME NEW s \in live, NEW j \in 1..Len(Orig[es[s].name])
      PROVE  nb2[no[s] + j] = Orig[es[s].name][j]
  <2> DEFINE x == no[s]
             l == Len(Orig[es[s].name])
  <2>1. x \in Nat /\ l \in Nat /\ x + l <= nlen /\ j \in 1..l
    BY <1>1, NameBytes DEF NamesLaid
  <2>2. nb[x + j] = Orig[es[s].name][j]
    BY <1>1 DEF NamesLaid
  <2> HIDE DEF x, l
  <2>3. x + j \in 1..nlen
    BY <2>1
  <2> QED
    BY <2>2, <2>3 DEF x
<1> QED
  BY <1>1 DEF NamesLaid

\* The least of a set of naturals, and the greatest of one that is bounded.
LEMMA MinFacts ==
  ASSUME NEW T \in SUBSET Nat, T # {}
  PROVE  Min(T) \in T /\ \A m \in T : Min(T) <= m
<1>1. PICK n \in T : \A m \in T : n <= m
  BY LeastElement
<1> QED
  BY <1>1, Zenon DEF Min

\* A set of naturals with a bound has a greatest element.
LEMMA MaxFacts ==
  ASSUME NEW b \in Nat, NEW T \in SUBSET (0..b), T # {}
  PROVE  Max(T) \in T /\ \A m \in T : m <= Max(T)
<1> DEFINE U == {x \in 0..b : b - x \in T}
<1>1. U \in SUBSET Nat
  OBVIOUS
<1>2. U # {}
  <2>1. PICK t \in T : TRUE
    BY Zenon
  <2>2. b - t \in 0..b /\ b - (b - t) = t
    OBVIOUS
  <2> QED
    BY <2>1, <2>2, Zenon
<1>3. PICK x \in U : \A y \in U : x <= y
  <2> HIDE DEF U
  <2> QED
    BY <1>1, <1>2, LeastElement
<1>4. b - x \in T /\ x \in 0..b
  OBVIOUS
<1>5. ASSUME NEW m \in T PROVE m <= b - x
  <2>1. m \in 0..b /\ b - m \in 0..b /\ b - (b - m) = m
    OBVIOUS
  <2>2. b - m \in U
    BY <2>1
  <2>3. x <= b - m
    BY <1>3, <2>2
  <2> QED
    BY <1>4, <2>1, <2>3
<1> DEFINE n == b - x
<1>6. n \in T /\ \A m \in T : m <= n
  BY <1>4, <1>5
<1> HIDE DEF n
<1>7. \A m \in T : n >= m
  BY <1>6
<1>8. Max(T) \in T /\ \A y \in T : Max(T) >= y
  BY <1>6, <1>7, Zenon DEF Max
<1>9. Max(T) \in 0..b
  BY <1>8, Zenon
<1> QED
  BY <1>8, <1>9

\* The number of owner blocks is a natural number.
LEMMA BlocksNat ==
  ASSUME NEW len \in Nat
  PROVE  Blocks(len) \in Nat /\ (len = 0 => Blocks(len) = 0)
<1>1. OwnerBlock \in Nat \ {0}
  BY ArenaAssumption
<1>2. len + OwnerBlock - 1 \in Nat
  BY <1>1
<1>3. \A x \in Nat : \A y \in Nat \ {0} : x \div y \in Nat
  OBVIOUS
<1>4. \A y \in Nat \ {0} : (0 + y - 1) \div y = 0
  OBVIOUS
<1> QED
  BY <1>1, <1>2, <1>3, <1>4 DEF Blocks

\* The owners compaction lays over the blocks anew.
OwnersOf(rs, len, o) ==
  /\ o \in Seq(Nat) /\ Len(o) = Blocks(len)
  /\ \A b \in 1..Len(o) : /\ o[b] \in 1..Len(rs)
                          /\ o[b] # 1 => rs[o[b]].off <= (b - 1) * OwnerBlock

\* The owners rebuilt are what `push_arena_rec` would have made of them.
LEMMA RebuildFacts ==
  ASSUME NEW rs \in Seq(Rec), NEW len \in Nat, len # 0 => rs # <<>>
  PROVE  OwnersOf(rs, len, RebuildOwners(rs, len))
<1> DEFINE m == Blocks(len)
           n == Len(rs)
           Later(b) == {r \in DOMAIN rs : rs[r].off > (b - 1) * OwnerBlock}
           Owner(b) == IF Later(b) = {} THEN Len(rs) ELSE Max({Min(Later(b)) - 1, 1})
           o == RebuildOwners(rs, len)
<1>1. m \in Nat /\ n \in Nat /\ DOMAIN rs = 1..n /\ OwnerBlock \in Nat \ {0}
  <2>1. m \in Nat /\ OwnerBlock \in Nat \ {0}
    BY BlocksNat, ArenaAssumption, Zenon
  <2>2. n \in Nat /\ DOMAIN rs = 1..n
    OBVIOUS
  <2> QED
    BY <2>1, <2>2
<1>2. \A r \in 1..n : rs[r].off \in Nat
  <2>1. \A r \in 1..n : rs[r] \in Rec
    OBVIOUS
  <2> QED
    BY <2>1 DEF Rec
<1>3. o = [b \in 1..m |-> Owner(b)]
  BY DEF RebuildOwners, Blocks
<1>4. m # 0 => n # 0
  <2>1. rs # <<>> => n # 0
    OBVIOUS
  <2> QED
    BY <2>1, BlocksNat
<1> HIDE DEF o, m, n
<1>5. ASSUME NEW b \in 1..m
      PROVE  Owner(b) \in 1..n /\ (Owner(b) # 1 => rs[Owner(b)].off <= (b - 1) * OwnerBlock)
  <2> DEFINE at == (b - 1) * OwnerBlock
             L == Later(b)
  <2>1. at \in Nat
    <3>1. b - 1 \in Nat
      BY <1>1
    <3>2. \A x, y \in Nat : x * y \in Nat
      OBVIOUS
    <3> QED
      BY <1>1, <3>1, <3>2
  <2>2. L = {r \in 1..n : rs[r].off > at}
    BY <1>1
  <2>3. n # 0
    BY <1>1, <1>4
  <2>4. Owner(b) = IF L = {} THEN n ELSE Max({Min(L) - 1, 1})
    BY DEF n
  <2> HIDE DEF at, L, Owner
  <2>5. CASE L = {}
    <3>1. n \in 1..n
      BY <1>1, <2>3
    <3>2. ~(rs[n].off > at) /\ rs[n].off \in Nat
      BY <1>2, <2>2, <2>5, <3>1
    <3>3. rs[n].off <= at
      BY <2>1, <3>2
    <3> QED
      BY <2>4, <2>5, <3>1, <3>3 DEF at
  <2>6. CASE L # {}
    <3> DEFINE f == Min(L)
    <3>1. f \in L /\ \A r \in L : f <= r
      <4>1. L \in SUBSET Nat
        BY <1>1, <2>2
      <4> QED
        BY <2>6, <4>1, MinFacts
    <3> HIDE DEF f
    <3>2. f \in 1..n
      BY <2>2, <3>1
    <3> DEFINE T == {f - 1, 1}
               g == Max(T)
    <3>3. Owner(b) = g
      BY <2>4, <2>6 DEF f
    <3>4. g \in T /\ \A r \in T : r <= g
      <4>1. T \in SUBSET (0..n) /\ T # {}
        BY <1>1, <3>2
      <4> HIDE DEF T
      <4> QED
        BY <1>1, <4>1, MaxFacts, Zenon
    <3> HIDE DEF g
    <3>5. g \in 1..n
      BY <1>1, <2>3, <3>2, <3>4
    <3>6. ASSUME g # 1 PROVE rs[g].off <= at
      <4>1. g = f - 1
        BY <3>4, <3>6
      <4>2. g \notin L
        BY <1>1, <3>1, <3>2, <4>1
      <4>3. ~(rs[g].off > at) /\ rs[g].off \in Nat
        BY <1>2, <2>2, <3>5, <4>2
      <4> QED
        BY <2>1, <4>3
    <3> QED
      BY <3>3, <3>5, <3>6 DEF at
  <2> QED
    BY <2>5, <2>6
<1> HIDE DEF Owner, Later
<1>6. o \in [1..m -> Nat]
  <2>1. \A b \in 1..m : Owner(b) \in Nat
    BY <1>1, <1>5
  <2> QED
    BY <1>3, <2>1
<1>7. o \in Seq(Nat) /\ Len(o) = m
  BY <1>1, <1>6
<1>8. \A b \in 1..m : o[b] = Owner(b)
  BY <1>3
<1> QED
  BY <1>5, <1>7, <1>8 DEF OwnersOf, o, m, n

\* The first bytes of a sequence.
LEMMA FirstBytes ==
  ASSUME NEW s \in Seq(Nat), NEW k \in Nat, k <= Len(s)
  PROVE  /\ SubSeq(s, 1, k) \in Seq(Nat) /\ Len(SubSeq(s, 1, k)) = k
         /\ \A i \in 1..k : SubSeq(s, 1, k)[i] = s[i]
<1>1. SubSeq(s, 1, k) = Bytes(s, 0, k)
  BY DEF Bytes
<1>2. /\ Bytes(s, 0, k) = [x \in 1..k |-> s[0 + x]]
      /\ Bytes(s, 0, k) \in Seq(Nat) /\ Len(Bytes(s, 0, k)) = k
  BY BytesForm
<1>3. \A i \in 1..k : Bytes(s, 0, k)[i] = s[i]
  BY <1>2
<1> QED
  BY <1>1, <1>2, <1>3, Zenon

\* Once all records have been moved.
MovedOut(c, es, st) ==
  /\ st.folded \in Seq(Nat) /\ st.names \in Seq(Nat)
  /\ st.folded_off \in Seq(Nat) /\ Len(st.folded_off) = Len(es)
  /\ st.name_off \in Seq(Nat) /\ Len(st.name_off) = Len(es)
  /\ st.recs \in Seq(Rec) /\ \A r \in 1..Len(st.recs) : st.recs[r].slot \in 1..Len(es)
  /\ Written(st) \in Nat /\ Written(st) <= Len(st.folded) /\ Written(st) <= MaxArena
  /\ st.nw \in Nat /\ st.nw <= Len(st.names) /\ st.nw <= MaxArena
  /\ Written(st) = 0 <=> st.recs = <<>>
  /\ FoldedLaid(st.folded, Written(st), st.folded_off, st.recs, Living(es), es)
  /\ NamesLaid(st.names, st.nw, st.name_off, st.folded_off, Living(es), es)
  /\ st.nw + Written(st) = Total(Weights(es)) + (IF Written(st) = 0 THEN 0 ELSE Len(st.recs) + 1)

\* What the arenas hold once every record has moved.
LEMMA MovedOutFacts ==
  ASSUME entries \in Seq(Entry), NEW c, Kept(c, entries), NEW keep, NEW es, Renumbers(keep, es)
  PROVE  MovedOut(c, es, MoveRecords(c, keep))
<1> DEFINE st == MoveRecords(c, keep)
           k == Len(c.recs)
           M == MovedBy(c, keep, k)
           wl == Written(st)
           fw == st.fw
           nw == st.nw
           m == Len(st.recs)
           t == Total(Weights(es))
<1>1. MoveOK(c, keep, es, st, k) /\ M = 1..Len(es) /\ Living(es) = 1..Len(es)
  BY AllMoved, MovedAll, SurvivorFacts
<1>2. es \in Seq(Entry) /\ \A i \in 1..Len(es) : es[i].name \in Name \ BadName /\ ~es[i].dead
  BY SurvivorFacts DEF Survives, Renumbers
<1> HIDE DEF st, k
<1>3. /\ st.folded \in Seq(Nat) /\ Len(st.folded) = Len(c.folded)
      /\ st.names \in Seq(Nat) /\ Len(st.names) = Len(c.names)
      /\ st.folded_off \in Seq(Nat) /\ Len(st.folded_off) = Len(es)
      /\ st.name_off \in Seq(Nat) /\ Len(st.name_off) = Len(es)
      /\ st.recs \in Seq(Rec) /\ \A r \in 1..Len(st.recs) : st.recs[r].slot \in 1..Len(es)
  BY <1>1 DEF MoveOK
<1>4. /\ fw \in Nat /\ nw \in Nat /\ fw > 0 /\ nw <= Len(c.names)
      /\ (st.recs = <<>> => fw = 1)
      /\ (st.recs # <<>> => fw <= Len(c.folded))
      /\ nw + fw = 1 + m + Total(MovedWeights(es, M))
  BY <1>1 DEF MoveOK
<1>5. /\ FoldedLaid(st.folded, wl, st.folded_off, st.recs, M, es)
      /\ NamesLaid(st.names, nw, st.name_off, st.folded_off, M, es)
  BY <1>1 DEF MoveOK
<1>6. /\ Len(c.names) <= MaxArena /\ Len(c.folded) <= MaxArena /\ MaxArena \in Nat
      /\ Len(c.names) \in Nat /\ Len(c.folded) \in Nat
  BY KeptNames, ArenaAssumption, Zenon DEF Kept
<1>7. MovedWeights(es, M) = Weights(es)
  BY <1>1, <1>2 DEF MovedWeights, Weights
<1>8. t \in Nat /\ m \in Nat
  <2> DEFINE w == Weights(es)
  <2>1. w \in Seq(Nat)
    BY <1>1, <1>2, WeightsFacts
  <2> HIDE DEF w
  <2>2. Total(w) \in Nat
    <3>1. PICK g : RunsTo(w, g) /\ Total(w) = g[Len(w)]
      BY <2>1, TotalRuns
    <3>2. g[Len(w)] \in Nat
      BY <2>1, <3>1 DEF RunsTo
    <3> QED
      BY <3>1, <3>2
  <2> QED
    BY <1>3, <2>2 DEF w
<1>9. nw + fw = 1 + m + t
  BY <1>4, <1>7
<1>10. wl = IF st.recs = <<>> THEN 0 ELSE fw
  BY DEF Written
<1>11. st.recs = <<>> <=> m = 0
  <2> DEFINE rs == st.recs
  <2>1. rs \in Seq(Rec)
    BY <1>3
  <2> HIDE DEF rs
  <2>2. rs = <<>> <=> Len(rs) = 0
    BY <2>1
  <2> QED
    BY <2>2 DEF rs
<1> DEFINE fl == Len(c.folded)
           nl == Len(c.names)
<1> HIDE DEF M, wl, fw, nw, m, t, fl, nl
<1>12. /\ wl \in Nat /\ (wl = 0 <=> m = 0) /\ wl <= fl /\ wl <= MaxArena /\ nw <= nl /\ nw <= MaxArena
       /\ nw + wl = t + (IF wl = 0 THEN 0 ELSE m + 1)
  <2>1. fl \in Nat /\ nl \in Nat /\ fl <= MaxArena /\ nl <= MaxArena /\ nw <= nl
        /\ (m # 0 => fw <= fl) /\ (m = 0 => fw = 1) /\ wl = IF m = 0 THEN 0 ELSE fw
    BY <1>4, <1>6, <1>10, <1>11 DEF fl, nl
  <2>2. CASE m = 0
    BY <1>4, <1>6, <1>8, <1>9, <2>1, <2>2
  <2>3. CASE m # 0
    BY <1>4, <1>6, <1>8, <1>9, <2>1, <2>3
  <2> QED
    BY <2>2, <2>3
<1>13. MovedOut(c, es, st)
  <2>1. wl <= Len(st.folded) /\ nw <= Len(st.names)
    BY <1>3, <1>12 DEF fl, nl
  <2> QED
    BY <1>1, <1>3, <1>4, <1>5, <1>11, <1>12, <2>1 DEF MovedOut, wl, nw, m, t, M
<1> QED
  BY <1>13 DEF st

\* Compaction keeps what the columns hold of the table it renumbers.
LEMMA CompactedStep ==
  ASSUME entries \in Seq(Entry), NEW c, Kept(c, entries), NEW keep, NEW es, Renumbers(keep, es)
  PROVE  Kept(CompactArena(c, keep), es)
<1> DEFINE st == MoveRecords(c, keep)
           len == Written(st)
           d == CompactArena(c, keep)
           m == Len(es)
           tri == len >= TriMin
           lanes == [i \in DOMAIN keep |-> c.initials[keep[i]]]
           heads == [i \in DOMAIN keep |-> c.head[keep[i]]]
           Spelt(i) == Bytes(st.folded, st.folded_off[i], FoldedLen(keep[i]))
           masks == [i \in DOMAIN keep |-> Mask(Spelt(i))]
           grams == UNION {Grams(Spelt(i), IF tri THEN 3 ELSE 2) : i \in DOMAIN keep}
           laneGrams == UNION {Grams(lanes[i], 2) : i \in DOMAIN keep}
           names == SubSeq(st.names, 1, st.nw)
           folded == SubSeq(st.folded, 1, len)
           owner == RebuildOwners(st.recs, len)
<1>1. MovedOut(c, es, st)
  BY MovedOutFacts
<1>2. d = [names |-> names, folded |-> folded, name_off |-> st.name_off, folded_off |-> st.folded_off,
           recs |-> st.recs, owner |-> owner, head |-> heads, initials |-> lanes, classes |-> masks,
           grams |-> grams, lane_grams |-> laneGrams, tri |-> tri, dead_bytes |-> 0]
  BY DEF CompactArena, Regrammed, Written
<1>3. /\ DOMAIN keep = 1..m /\ m \in Nat /\ es \in Seq(Entry) /\ Living(es) = 1..m
  BY SurvivorFacts DEF Renumbers
<1>4. \A i \in 1..m : Survives(c, keep, es, i)
  BY SurvivorFacts
<1> HIDE DEF st, d
<1>5. /\ st.folded \in Seq(Nat) /\ st.names \in Seq(Nat)
      /\ st.folded_off \in Seq(Nat) /\ Len(st.folded_off) = m
      /\ st.name_off \in Seq(Nat) /\ Len(st.name_off) = m
      /\ st.recs \in Seq(Rec) /\ \A r \in 1..Len(st.recs) : st.recs[r].slot \in 1..m
      /\ len \in Nat /\ len <= Len(st.folded) /\ len <= MaxArena
      /\ st.nw \in Nat /\ st.nw <= Len(st.names) /\ st.nw <= MaxArena
      /\ len = 0 <=> st.recs = <<>>
  BY <1>1 DEF MovedOut
<1>6. /\ FoldedLaid(st.folded, len, st.folded_off, st.recs, Living(es), es)
      /\ NamesLaid(st.names, st.nw, st.name_off, st.folded_off, Living(es), es)
      /\ st.nw + len = Total(Weights(es)) + (IF len = 0 THEN 0 ELSE Len(st.recs) + 1)
  BY <1>1 DEF MovedOut
<1> HIDE DEF len
\* The columns read without the arena.
<1>7. ASSUME NEW i \in 1..m
      PROVE  /\ heads[i] = HeadPair(es[i].name) /\ lanes[i] = Lane(es[i].name)
             /\ Spelt(i) = Folded[es[i].name] /\ es[i].name \in Name \ BadName /\ ~es[i].dead
  <2> DEFINE n == es[i].name
  <2>1. keep[i] \in Living(entries) /\ n = entries[keep[i]].name /\ n \in Name \ BadName /\ ~es[i].dead
    BY <1>4 DEF Survives
  <2>2. c.head[keep[i]] = HeadPair(n) /\ c.initials[keep[i]] = Lane(n)
    <3>1. Columned(c, entries)
      BY DEF Kept
    <3> QED
      BY <2>1, <3>1 DEF Columned
  <2>3. Owns(st.folded, len, st.folded_off, st.recs, Living(es), es, i)
    BY <1>3, <1>5, <1>6, OwnRecord
  <2> DEFINE off == st.folded_off[i]
             w == Folded[n]
             fb == st.folded
  <2>4. /\ off \in Nat /\ off + Len(w) + 1 <= len /\ \A j \in 1..Len(w) : fb[off + j] = w[j]
    BY <2>3 DEF Owns
  <2>5. w \in Seq(Nat) /\ Len(w) \in Nat /\ fb \in Seq(Nat) /\ len \in Nat /\ len <= Len(fb) /\ Len(fb) \in Nat
    <3>1. w \in Seq(Nat) /\ Len(w) \in Nat
      <4> HIDE DEF n
      <4> QED
        BY <2>1, NameBytes
    <3>2. fb \in Seq(Nat) /\ len \in Nat /\ len <= Len(fb)
      BY <1>5, Zenon
    <3> HIDE DEF fb, w
    <3> QED
      BY <3>1, <3>2
  <2>6. FoldedLen(keep[i]) = Len(w)
    BY <2>1 DEF FoldedLen
  <2> HIDE DEF off, w, fb, n
  <2>7. off + Len(w) <= Len(fb)
    <3> DEFINE x == Len(w)
               y == Len(fb)
    <3>1. x \in Nat /\ y \in Nat /\ len \in Nat /\ off \in Nat /\ off + x + 1 <= len /\ len <= y
      BY <2>4, <2>5
    <3> HIDE DEF x, y
    <3>2. off + x <= y
      BY <3>1
    <3> QED
      BY <3>2 DEF x, y
  <2>8. Bytes(fb, off, Len(w)) = w
    BY <2>4, <2>5, <2>7, BytesAre
  <2>9. Spelt(i) = w
    BY <2>6, <2>8 DEF fb, off
  <2> QED
    BY <1>3, <2>1, <2>2, <2>9 DEF w, n
<1> HIDE DEF Spelt
<1>8. \A i \in 1..m : masks[i] = Mask(Folded[es[i].name])
  BY <1>3, <1>7
<1>9. grams = UNION {Grams(Folded[es[i].name], IF tri THEN 3 ELSE 2) : i \in 1..m}
  BY <1>3, <1>7
<1>10. laneGrams = UNION {Grams(Lane(es[i].name), 2) : i \in 1..m}
  BY <1>3, <1>7, Zenon
<1>11. ASSUME NEW i \in 1..m
       PROVE  /\ heads[i] \in Nat \X Nat /\ lanes[i] \in [1..LaneWidth -> Nat]
              /\ masks[i] \in SUBSET Nat
              /\ Grams(Folded[es[i].name], IF tri THEN 3 ELSE 2) \in SUBSET Seq(Nat)
              /\ Grams(Lane(es[i].name), 2) \in SUBSET Seq(Nat)
  <2> DEFINE n == es[i].name
  <2>1. n \in Name \ BadName /\ heads[i] = HeadPair(n) /\ lanes[i] = Lane(n) /\ masks[i] = Mask(Folded[n])
    BY <1>7, <1>8, Zenon
  <2>2. (IF tri THEN 3 ELSE 2) \in Nat /\ 2 \in Nat
    OBVIOUS
  <2> HIDE DEF n, heads, lanes, masks, tri
  <2>3. /\ HeadPair(n) \in Nat \X Nat /\ Lane(n) \in [1..LaneWidth -> Nat] /\ Mask(Folded[n]) \in SUBSET Nat
        /\ \A k \in Nat : Grams(Folded[n], k) \in SUBSET Seq(Nat)
        /\ \A k \in Nat : Grams(Lane(n), k) \in SUBSET Seq(Nat)
    BY <2>1, NameColumns
  <2> QED
    BY <2>1, <2>2, <2>3 DEF n
<1>12. /\ heads \in Seq(Nat \X Nat) /\ Len(heads) = m /\ lanes \in Seq([1..LaneWidth -> Nat]) /\ Len(lanes) = m
       /\ masks \in Seq(SUBSET Nat) /\ Len(masks) = m
  <2>2. /\ heads = [i \in 1..m |-> heads[i]] /\ lanes = [i \in 1..m |-> lanes[i]]
        /\ masks = [i \in 1..m |-> masks[i]]
    BY <1>3
  <2> HIDE DEF heads, lanes, masks, m
  <2>3. heads \in Seq(Nat \X Nat) /\ Len(heads) = m
    <3>1. heads \in [1..m -> Nat \X Nat]
      BY <1>11, <2>2
    <3> QED
      BY <1>3, <3>1
  <2>4. lanes \in Seq([1..LaneWidth -> Nat]) /\ Len(lanes) = m
    <3>1. lanes \in [1..m -> [1..LaneWidth -> Nat]]
      BY <1>11, <2>2
    <3> DEFINE S == [1..LaneWidth -> Nat]
    <3>2. lanes \in [1..m -> S]
      BY <3>1
    <3> HIDE DEF S
    <3>3. lanes \in Seq(S) /\ Len(lanes) = m
      BY <1>3, <3>2
    <3> QED
      BY <3>3 DEF S
  <2>5. masks \in Seq(SUBSET Nat) /\ Len(masks) = m
    <3>1. masks \in [1..m -> SUBSET Nat]
      BY <1>11, <2>2
    <3> QED
      BY <1>3, <3>1
  <2> QED
    BY <2>3, <2>4, <2>5
<1>13. grams \in SUBSET Seq(Nat) /\ laneGrams \in SUBSET Seq(Nat) /\ tri \in BOOLEAN
  <2>1. \A i \in 1..m : Grams(Folded[es[i].name], IF tri THEN 3 ELSE 2) \subseteq Seq(Nat)
    BY <1>11, Zenon
  <2>2. \A i \in 1..m : Grams(Lane(es[i].name), 2) \subseteq Seq(Nat)
    BY <1>11, Zenon
  <2> HIDE DEF grams, laneGrams
  <2>3. grams \subseteq Seq(Nat)
    BY <1>9, <2>1
  <2>4. laneGrams \subseteq Seq(Nat)
    BY <1>10, <2>2
  <2>5. tri \in BOOLEAN
    OBVIOUS
  <2> QED
    BY <2>3, <2>4, <2>5
<1>14. OwnersOf(st.recs, len, owner)
  <2> DEFINE rs == st.recs
  <2>1. rs \in Seq(Rec) /\ (len # 0 => rs # <<>>)
    BY <1>5
  <2> HIDE DEF rs
  <2>2. OwnersOf(rs, len, RebuildOwners(rs, len))
    BY <1>5, <2>1, RebuildFacts
  <2> QED
    BY <2>2 DEF rs
<1>15. /\ names \in Seq(Nat) /\ Len(names) = st.nw /\ \A i \in 1..st.nw : names[i] = st.names[i]
       /\ folded \in Seq(Nat) /\ Len(folded) = len /\ \A i \in 1..len : folded[i] = st.folded[i]
  <2> DEFINE nb == st.names
             nw == st.nw
             fb == st.folded
  <2>1. nb \in Seq(Nat) /\ nw \in Nat /\ nw <= Len(nb) /\ fb \in Seq(Nat) /\ len \in Nat /\ len <= Len(fb)
    BY <1>5
  <2> HIDE DEF nb, nw, fb
  <2>2. /\ SubSeq(nb, 1, nw) \in Seq(Nat) /\ Len(SubSeq(nb, 1, nw)) = nw
        /\ \A i \in 1..nw : SubSeq(nb, 1, nw)[i] = nb[i]
    BY <2>1, FirstBytes
  <2>3. /\ SubSeq(fb, 1, len) \in Seq(Nat) /\ Len(SubSeq(fb, 1, len)) = len
        /\ \A i \in 1..len : SubSeq(fb, 1, len)[i] = fb[i]
    BY <2>1, FirstBytes
  <2> QED
    BY <2>2, <2>3 DEF nb, nw, fb
<1>16. FoldedLaid(folded, len, st.folded_off, st.recs, Living(es), es)
  <2> DEFINE fb == st.folded
             rs == st.recs
             fo == st.folded_off
  <2>1. /\ rs \in Seq(Rec) /\ FoldedLaid(fb, len, fo, rs, Living(es), es) /\ len \in Nat
        /\ \A i \in 1..len : folded[i] = fb[i]
    BY <1>5, <1>6, <1>15
  <2> HIDE DEF fb, rs, fo, folded
  <2>2. FoldedLaid(folded, len, fo, rs, Living(es), es)
    BY <2>1, FoldedSame, Zenon
  <2> QED
    BY <2>2 DEF rs, fo
<1>17. NamesLaid(names, st.nw, st.name_off, st.folded_off, Living(es), es)
  <2> DEFINE nb == st.names
             nw == st.nw
  <2>1. /\ NamesLaid(nb, nw, st.name_off, st.folded_off, Living(es), es) /\ nw \in Nat
        /\ \A i \in 1..nw : names[i] = nb[i]
        /\ \A s \in Living(es) : es[s].name \in Name \ BadName
    BY <1>3, <1>5, <1>6, <1>7, <1>15, Zenon
  <2> HIDE DEF nb, nw, names
  <2>2. NamesLaid(names, nw, st.name_off, st.folded_off, Living(es), es)
    BY <2>1, NamesSame, Zenon
  <2> QED
    BY <2>2 DEF nw
<1> HIDE DEF names, folded, owner, heads, lanes, masks, grams, laneGrams, tri
<1>18. /\ d.names = names /\ d.folded = folded /\ d.name_off = st.name_off /\ d.folded_off = st.folded_off
       /\ d.recs = st.recs /\ d.owner = owner /\ d.head = heads /\ d.initials = lanes /\ d.classes = masks
       /\ d.grams = grams /\ d.lane_grams = laneGrams /\ d.tri = tri /\ d.dead_bytes = 0
  BY <1>2
<1>19. d \in Cols
  <2>1. owner \in Seq(Nat)
    BY <1>14 DEF OwnersOf
  <2> HIDE DEF m
  <2> QED
    BY <1>2, <1>5, <1>12, <1>13, <1>15, <2>1, Zenon DEF Cols
<1>20. Rowed(d, m) /\ \A r \in 1..Len(d.recs) : d.recs[r].slot \in 1..m
  BY <1>5, <1>12, <1>18 DEF Rowed
<1>21. /\ FoldedLaid(d.folded, Len(d.folded), d.folded_off, d.recs, Living(es), es)
       /\ NamesLaid(d.names, Len(d.names), d.name_off, d.folded_off, Living(es), es)
  BY <1>15, <1>16, <1>17, <1>18
<1>22. Owned(d)
  BY <1>14, <1>15, <1>18, Zenon DEF Owned, OwnersOf
<1>23. Columned(d, es)
  <2>1. \A s \in 1..m : ~es[s].dead
    BY <1>7
  <2> QED
    BY <1>3, <1>7, <1>8, <1>18, <2>1 DEF Columned
<1>24. Seen(d, es)
  <2>1. \A i \in 1..m : Grams(Folded[es[i].name], IF tri THEN 3 ELSE 2) \subseteq grams
    BY <1>9
  <2>2. \A i \in 1..m : Grams(Lane(es[i].name), 2) \subseteq laneGrams
    BY <1>10
  <2> QED
    BY <1>3, <1>18, <2>1, <2>2 DEF Seen
<1>25. Accounted(d, es)
  <2> DEFINE x == st.nw
             t == Total(Weights(es))
             r == Len(st.recs)
  <2>1. x + len = t + (IF len = 0 THEN 0 ELSE r + 1) /\ len \in Nat /\ Len(d.names) = x /\ Len(d.folded) = len
        /\ d.dead_bytes = 0 /\ Len(d.recs) = r
    BY <1>5, <1>6, <1>15, <1>18
  <2>2. d.folded = <<>> <=> len = 0
    <3>1. folded = <<>> <=> Len(folded) = 0
      BY <1>15
    <3> QED
      BY <1>15, <1>18, <3>1
  <2>3. t \in Nat /\ r \in Nat
    <3> DEFINE w == Weights(es)
    <3>1. w \in Seq(Nat)
      BY <1>3, <1>7, WeightsFacts
    <3> HIDE DEF w
    <3>2. Total(w) \in Nat
      <4>1. PICK g : RunsTo(w, g) /\ Total(w) = g[Len(w)]
        BY <3>1, TotalRuns
      <4>2. g[Len(w)] \in Nat
        BY <3>1, <4>1 DEF RunsTo
      <4> QED
        BY <4>1, <4>2
    <3>3. r \in Nat
      BY <1>5
    <3> QED
      BY <3>2, <3>3 DEF w
  <2> HIDE DEF x, t, r
  <2>4. x + len = t + 0 + (IF len = 0 THEN 0 ELSE r + 1)
    BY <2>1, <2>3
  <2> QED
    BY <2>1, <2>2, <2>4 DEF Accounted, t
<1>26. Len(d.names) <= MaxArena /\ Len(d.folded) <= MaxArena
  BY <1>5, <1>15, <1>18
<1>27. Kept(d, es)
  BY <1>19, <1>20, <1>21, <1>22, <1>23, <1>24, <1>25, <1>26 DEF Kept, m
<1> QED
  BY <1>27 DEF d

\* A compaction in place.
LEMMA CompactKeeps ==
  ASSUME ArenaInv, NEW keep \in Renumbering, ArenaCompact(keep), SlotInv'
  PROVE  ArenaInv'
<1>1. /\ SlotInv /\ arena_settled \in BOOLEAN /\ Kept(cols, entries) /\ entries \in Seq(Entry)
      /\ SlotCompact(keep) /\ cols' = CompactArena(cols, keep) /\ arena_settled' = arena_settled
      /\ Survivors(keep)
  BY DEF ArenaInv, SlotInv, SlotTypeOK, ArenaCompact, SlotCompact
<1>2. PICK n \in Nat :
            /\ keep \in [1..n -> LiveSlot]
            /\ \A i, j \in 1..n : keep[i] = keep[j] => i = j
            /\ Slot' = 1..n
            /\ entries' \in Seq(Entry)
            /\ \A i \in 1..n : entries'[i] = entries[keep[i]]
  BY <1>1, CompactFacts
<1>3. LiveSlot = Living(entries)
  BY DEF LiveSlot, Living, Slot
<1>4. \A s \in LiveSlot : \E i \in 1..n : keep[i] = s
  BY <1>1, <1>2 DEF Survivors
<1>5. Len(entries') = n
  <2>1. Len(entries') \in Nat /\ 1..Len(entries') = 1..n
    BY <1>2 DEF Slot
  <2> QED
    BY <2>1
<1>6. Renumbers(keep, entries')
  <2>1. DOMAIN keep = 1..Len(entries')
    BY <1>2, <1>5
  <2>2. \A i \in 1..Len(entries') : keep[i] \in Living(entries) /\ entries'[i] = entries[keep[i]]
    BY <1>2, <1>3, <1>5
  <2>3. \A i, j \in 1..Len(entries') : keep[i] = keep[j] => i = j
    BY <1>2, <1>5
  <2>4. \A s \in Living(entries) : \E i \in 1..Len(entries') : keep[i] = s
    BY <1>3, <1>4, <1>5
  <2> QED
    BY <1>2, <1>5, <2>1, <2>2, <2>3, <2>4 DEF Renumbers
<1>7. Kept(cols', entries')
  <2> DEFINE es == entries'
  <2>1. Renumbers(keep, es)
    BY <1>6
  <2> HIDE DEF es
  <2>2. Kept(CompactArena(cols, keep), es)
    BY <1>1, <2>1, CompactedStep
  <2> QED
    BY <1>1, <2>2 DEF es
<1> QED
  BY <1>1, <1>7 DEF ArenaInv

\* Every step.
LEMMA ArenaStepKeeps == ArenaInv /\ [ArenaNext]_arenaVars => ArenaInv'
<1> SUFFICES ASSUME ArenaInv, [ArenaNext]_arenaVars PROVE ArenaInv'
  OBVIOUS
<1>1. SlotInv'
  BY ArenaStepIsSlotStep, NextKeepsInv DEF ArenaInv
<1>2. ASSUME NEW f \in Frn, NEW p \in Parent, NEW n \in Name,
             ArenaLoad(f, p, n) \/ ArenaCreate(f, p, n) \/ ArenaRename(f, p, n)
      PROVE  ArenaInv'
  <2>1. CASE ArenaLoad(f, p, n)
    BY <1>1, <2>1, AddStep DEF ArenaLoad
  <2>2. CASE ArenaCreate(f, p, n)
    BY <1>1, <2>2, AddStep DEF ArenaCreate
  <2>3. CASE ArenaRename(f, p, n)
    BY <1>1, <2>3, RenameKeeps
  <2> QED
    BY <1>2, <2>1, <2>2, <2>3
<1>3. ASSUME NEW f \in Frn, ArenaDelete(f) PROVE ArenaInv'
  BY <1>1, <1>3, DeleteKeeps
<1>4. ASSUME NEW keep \in Renumbering, ArenaCompact(keep) PROVE ArenaInv'
  BY <1>1, <1>4, CompactKeeps
<1>5. CASE ArenaFinalize
  BY <1>1, <1>5, FinalizeKeeps
<1>6. CASE UNCHANGED arenaVars
  <2>1. entries' = entries /\ cols' = cols /\ arena_settled' = arena_settled
    BY <1>6 DEF arenaVars, slotVars
  <2> QED
    BY <1>1, <2>1 DEF ArenaInv
<1> QED
  BY <1>2, <1>3, <1>4, <1>5, <1>6 DEF ArenaNext

\* After every handler, compactions in place included, the arenas and the columns hold
\* exactly the table (index.rs, register_slot, unregister_slot and compact).
THEOREM ColumnsHoldTable == ArenaSpec => []ArenaInv
<1>1. ArenaInit => ArenaInv
  BY ArenaStarts
<1> QED
  BY <1>1, ArenaStepKeeps, PTL DEF ArenaSpec

\* The invariant types the arenas.
LEMMA InvTyped == ArenaInv => ArenaTypeOK
<1> SUFFICES ASSUME ArenaInv PROVE ArenaTypeOK
  OBVIOUS
<1>1. SlotTypeOK /\ arena_settled \in BOOLEAN /\ Kept(cols, entries)
  BY DEF ArenaInv, SlotInv
<1>2. cols \in Cols /\ Rowed(cols, Len(entries)) /\ Len(cols.names) <= MaxArena /\ Len(cols.folded) <= MaxArena
  BY <1>1 DEF Kept
<1>3. cols.dead_bytes \in Nat
  BY <1>2, ColsFields
<1> QED
  BY <1>1, <1>2, <1>3 DEF ArenaTypeOK, Rowed, Rows

\* A live entry's name in both arenas, with its fences.
LEMMA InvSpells == ArenaInv => LiveNamesIntact
<1> SUFFICES ASSUME ArenaInv, NEW s \in LiveSlot
             PROVE  /\ Bytes(cols.names, cols.name_off[s], OrigLen(s)) = Orig[entries[s].name]
                    /\ Bytes(cols.folded, cols.folded_off[s] - 1, FoldedLen(s) + 2)
                           = <<Fence>> \o Folded[entries[s].name] \o <<Fence>>
  BY Zenon DEF LiveNamesIntact
<1> DEFINE n == entries[s].name
           fb == cols.folded
           nb == cols.names
           fo == cols.folded_off[s]
           no == cols.name_off[s]
           w == Folded[n]
           o == Orig[n]
           all == <<Fence>> \o w \o <<Fence>>
<1>1. Kept(cols, entries) /\ entries \in Seq(Entry)
  BY DEF ArenaInv, SlotInv, SlotTypeOK
<1>2. s \in Living(entries)
  BY DEF LiveSlot, Living, Slot
<1>3. /\ n \in Name \ BadName /\ fb \in Seq(Nat) /\ nb \in Seq(Nat) /\ Len(fb) \in Nat /\ Len(nb) \in Nat
      /\ Owns(fb, Len(fb), cols.folded_off, cols.recs, Living(entries), entries, s)
  BY <1>1, <1>2, KeptNames
<1>4. /\ no \in Nat /\ no + Len(o) <= Len(nb) /\ \A j \in 1..Len(o) : nb[no + j] = o[j]
  BY <1>1, <1>2, Zenon DEF Kept, NamesLaid
<1>5. /\ fo \in Nat /\ fo > 0 /\ fo + Len(w) + 1 <= Len(fb) /\ fb[fo] = Fence /\ fb[fo + Len(w) + 1] = Fence
      /\ \A j \in 1..Len(w) : fb[fo + j] = w[j]
  BY <1>3, Zenon DEF Owns
<1>6. o \in Seq(Nat) /\ w \in Seq(Nat) /\ Len(w) \in Nat
  <2>1. w \in Seq(Nat \ {Fence})
    BY <1>3, NameBytes
  <2>2. w \in Seq(Nat)
    <3> HIDE DEF w
    <3> QED
      BY <2>1
  <2> HIDE DEF n
  <2> QED
    BY <1>3, <2>2, NameBytes
<1>7. OrigLen(s) = Len(o) /\ FoldedLen(s) = Len(w)
  BY DEF OrigLen, FoldedLen
<1> HIDE DEF n, fb, nb, fo, no, w, o
<1>8. Bytes(nb, no, Len(o)) = o
  BY <1>3, <1>4, <1>6, BytesAre
<1>9. /\ all \in Seq(Nat) /\ Len(all) = Len(w) + 2 /\ all[1] = Fence
      /\ \A j \in 1..Len(w) : all[1 + j] = w[j]
      /\ all[Len(w) + 2] = Fence
  <2> DEFINE a == <<Fence>>
             ab == a \o w
             x == Len(w)
  <2>1. a \in Seq(Nat) /\ Len(a) = 1 /\ a[1] = Fence /\ Fence \in Nat
    BY DEF Fence
  <2> HIDE DEF a
  <2>2. /\ ab \in Seq(Nat) /\ Len(ab) = Len(a) + Len(w)
        /\ \A i \in 1..Len(a) : ab[i] = a[i]
        /\ \A j \in 1..Len(w) : ab[Len(a) + j] = w[j]
    <3>1. a \in Seq(Nat) /\ w \in Seq(Nat)
      BY <1>6, <2>1
    <3>2. \A i \in 1..Len(a) : (a \o w)[i] = a[i]
      BY <3>1, TwoParts
    <3>3. \A j \in 1..Len(w) : (a \o w)[Len(a) + j] = w[j]
      BY <3>1, TwoParts
    <3>4. a \o w \in Seq(Nat) /\ Len(a \o w) = Len(a) + Len(w)
      BY <3>1, TwoParts
    <3> QED
      BY <3>2, <3>3, <3>4
  <2> HIDE DEF ab
  <2>3. /\ ab \o <<Fence>> \in Seq(Nat) /\ Len(ab \o <<Fence>>) = Len(ab) + 1
        /\ \A i \in 1..Len(ab) : (ab \o <<Fence>>)[i] = ab[i]
        /\ (ab \o <<Fence>>)[Len(ab) + 1] = Fence
    BY <2>1, <2>2, LastPart
  <2>4. all = ab \o <<Fence>>
    BY DEF ab, a
  <2> HIDE DEF all
  <2>5. x \in Nat /\ Len(ab) = x + 1 /\ Len(a) = 1
    <3>1. \A y \in Nat : 1 + y = y + 1
      OBVIOUS
    <3> QED
      BY <1>6, <2>1, <2>2, <3>1
  <2> HIDE DEF x
  <2>6. 1 \in 1..(x + 1) /\ (x + 1) + 1 = x + 2 /\ \A j \in 1..x : 1 + j \in 1..(x + 1)
    BY <2>5
  <2>7. all \in Seq(Nat) /\ Len(all) = x + 2 /\ all[x + 2] = Fence /\ \A i \in 1..(x + 1) : all[i] = ab[i]
    BY <2>3, <2>4, <2>5, <2>6
  <2>8. ab[1] = Fence /\ \A j \in 1..x : ab[1 + j] = w[j]
    BY <2>1, <2>2, <2>5 DEF x
  <2> QED
    BY <2>6, <2>7, <2>8, Zenon DEF x
<1> HIDE DEF all
<1>10. Bytes(fb, fo - 1, Len(all)) = all
  <2> DEFINE x == Len(w)
             y == Len(fb)
             off == fo - 1
  <2>1. x \in Nat /\ y \in Nat /\ fo \in Nat /\ fo > 0 /\ fo + x + 1 <= y /\ Len(all) = x + 2
    BY <1>3, <1>5, <1>6, <1>9
  <2> HIDE DEF x, y
  <2>2. off \in Nat /\ off + (x + 2) <= y /\ off + 1 = fo /\ off + (x + 2) = fo + x + 1
    BY <2>1
  <2>3. ASSUME NEW j \in 1..(x + 2) PROVE fb[off + j] = all[j]
    <3>1. CASE j = 1
      BY <1>5, <1>9, <2>2, <3>1
    <3>2. CASE j = x + 2
      BY <1>5, <1>9, <2>2, <3>2 DEF x
    <3>3. CASE j # 1 /\ j # x + 2
      <4> DEFINE i == j - 1
      <4>1. i \in 1..x /\ j = 1 + i /\ off + j = fo + i
        BY <2>1, <3>3
      <4> HIDE DEF i
      <4> QED
        BY <1>5, <1>9, <4>1 DEF x
    <3> QED
      BY <3>1, <3>2, <3>3
  <2> HIDE DEF off
  <2>4. off + Len(all) <= Len(fb) /\ \A j \in 1..Len(all) : fb[off + j] = all[j]
    BY <2>1, <2>2, <2>3 DEF y
  <2>5. Bytes(fb, off, Len(all)) = all
    BY <1>3, <1>9, <2>2, <2>4, BytesAre, Zenon
  <2> QED
    BY <2>5 DEF off
<1>11. Bytes(fb, fo - 1, FoldedLen(s) + 2) = all /\ Bytes(nb, no, OrigLen(s)) = o
  BY <1>7, <1>8, <1>9, <1>10
<1> QED
  BY <1>11, Zenon DEF fb, fo, nb, no, all, w, o, n

\* The invariant accounts for every byte.
LEMMA InvAccounts == ArenaInv => DeadBytesExact
<1> SUFFICES ASSUME ArenaInv PROVE DeadBytesExact
  OBVIOUS
<1>1. Accounted(cols, entries)
  BY DEF ArenaInv, Kept
<1>2. Weights(entries) = [s \in Slot |-> IF entries[s].dead THEN 0 ELSE OrigLen(s) + FoldedLen(s)]
  BY DEF Weights, Slot, NameWeight, OrigLen, FoldedLen
<1> QED
  BY <1>1, <1>2, Zenon DEF Accounted, DeadBytesExact

\* A live file's offsets spell its own name between fences, through any number of
\* in-place compactions (index.rs, compact), and every byte is accounted for.
THEOREM NamesStayIntact == ArenaSpec => [](ArenaTypeOK /\ LiveNamesIntact /\ DeadBytesExact)
BY ColumnsHoldTable, InvTyped, InvSpells, InvAccounts, PTL

-----------------------------------------------------------------------------
(* Scanning a column.                                                      *)

\* The positions a scan that steps by next comes by from x, until it stops.
Onward(D, stop, next, x) ==
  {y \in D : \A C \in SUBSET D :
     (x \in C /\ \A z \in C : z \notin stop => next[z] \in C) => y \in C}

\* A scan that gathers what each position has of its own.
Gathers(D, stop, own, next, f) ==
  f = [x \in D |-> IF x \in stop THEN {} ELSE own[x] \cup f[next[x]]]

\* A scan that stays within its positions gathers something, whatever the steps.
LEMMA GatherExists ==
  ASSUME NEW D, NEW stop, NEW own, NEW next, \A x \in D : x \notin stop => next[x] \in D
  PROVE  \E f : Gathers(D, stop, own, next, f)
<1> DEFINE On(x) == Onward(D, stop, next, x)
           f == [x \in D |-> UNION {own[y] : y \in On(x) \ stop}]
<1>1. ASSUME NEW x \in D, x \in stop PROVE On(x) = {x}
  <2>1. {x} \in SUBSET D /\ x \in {x} /\ \A z \in {x} : z \notin stop => next[z] \in {x}
    BY <1>1
  <2>2. \A y \in On(x) : y \in {x}
    BY <2>1, Zenon DEF Onward
  <2>3. x \in On(x)
    BY DEF Onward
  <2> QED
    BY <2>2, <2>3
<1>2. ASSUME NEW x \in D, x \notin stop PROVE On(x) = {x} \cup On(next[x])
  <2> DEFINE n == next[x]
  <2>1. n \in D
    BY <1>2
  <2>2. x \in On(x)
    BY DEF Onward
  <2>3. ASSUME NEW y \in On(n) PROVE y \in On(x)
    <3>1. y \in D
      BY <2>3 DEF Onward
    <3>2. ASSUME NEW C \in SUBSET D, x \in C, \A z \in C : z \notin stop => next[z] \in C PROVE y \in C
      <4>1. n \in C
        BY <1>2, <3>2
      <4> QED
        BY <2>3, <3>2, <4>1 DEF Onward
    <3> QED
      BY <3>1, <3>2 DEF Onward
  <2>4. ASSUME NEW y \in On(x) PROVE y \in {x} \cup On(n)
    <3> DEFINE C == {x} \cup On(n)
    <3>1. C \in SUBSET D
      BY DEF Onward
    <3>2. ASSUME NEW z \in C, z \notin stop PROVE next[z] \in C
      <4>1. CASE z = x
        <5>1. n \in On(n)
          BY <2>1 DEF Onward
        <5> QED
          BY <4>1, <5>1
      <4>2. CASE z \in On(n)
        <5>1. z \in D /\ next[z] \in D
          BY <4>2, <3>2 DEF Onward
        <5>2. ASSUME NEW B \in SUBSET D, n \in B, \A w \in B : w \notin stop => next[w] \in B PROVE next[z] \in B
          <6>1. z \in B
            BY <4>2, <5>2 DEF Onward
          <6> QED
            BY <3>2, <5>2, <6>1
        <5>3. next[z] \in On(n)
          BY <5>1, <5>2 DEF Onward
        <5> QED
          BY <5>3
      <4> QED
        BY <4>1, <4>2
    <3> HIDE DEF C
    <3>3. x \in C
      BY DEF C
    <3>4. y \in C
      BY <2>4, <3>1, <3>2, <3>3 DEF Onward
    <3> QED
      BY <3>4 DEF C
  <2> QED
    BY <2>2, <2>3, <2>4
<1> HIDE DEF On
<1>3. \A x \in D : f[x] = IF x \in stop THEN {} ELSE own[x] \cup f[next[x]]
  <2> TAKE x \in D
  <2>1. f[x] = UNION {own[y] : y \in On(x) \ stop}
    OBVIOUS
  <2>2. CASE x \in stop
    <3>1. On(x) \ stop = {}
      BY <1>1, <2>2
    <3> QED
      BY <2>1, <2>2, <3>1
  <2>3. CASE x \notin stop
    <3>1. next[x] \in D /\ f[next[x]] = UNION {own[y] : y \in On(next[x]) \ stop}
      BY <2>3
    <3>2. On(x) \ stop = {x} \cup (On(next[x]) \ stop)
      BY <1>2, <2>3
    <3> HIDE DEF f
    <3>3. f[x] = own[x] \cup f[next[x]]
      BY <2>1, <3>1, <3>2
    <3> QED
      BY <2>3, <3>3
  <2> QED
    BY <2>2, <2>3, Zenon
<1>4. f = [x \in D |-> f[x]]
  OBVIOUS
<1> HIDE DEF f
<1>5. Gathers(D, stop, own, next, f)
  BY <1>3, <1>4 DEF Gathers
<1> QED
  BY <1>5

\* Where each step is onward, what holds wherever it held further on holds everywhere.
LEMMA DownFrom ==
  ASSUME NEW lo \in Nat, NEW hi \in Nat, NEW P,
         \A x \in lo..hi : (\A y \in (x + 1)..hi : y \in P) => x \in P
  PROVE  \A x \in lo..hi : x \in P
<1> DEFINE n == hi - lo
           T == {i \in 0..n : \A x \in lo..hi : x >= hi - i => x \in P}
<1>1. CASE lo > hi
  BY <1>1
<1>2. CASE lo <= hi
  <2>1. n \in Nat
    BY <1>2
  <2>2. 0 \in T
    <3>1. ASSUME NEW x \in lo..hi, x >= hi - 0 PROVE x \in P
      <4>1. x = hi /\ (x + 1)..hi = {}
        BY <3>1
      <4> QED
        BY <4>1
    <3> QED
      BY <2>1, <3>1
  <2>3. ASSUME NEW i \in 0..(n - 1), i \in T PROVE i + 1 \in T
    <3>1. ASSUME NEW x \in lo..hi, x >= hi - (i + 1) PROVE x \in P
      <4>1. \A y \in (x + 1)..hi : y \in lo..hi /\ y >= hi - i
        BY <2>1, <3>1
      <4>2. \A y \in (x + 1)..hi : y \in P
        BY <2>3, <4>1
      <4> QED
        BY <4>2
    <3>2. i + 1 \in 0..n
      BY <2>1
    <3> QED
      BY <3>1, <3>2
  <2> HIDE DEF T
  <2>4. \A i \in 0..n : i \in T
    <3> HIDE DEF n
    <3> QED
      BY <2>1, <2>2, <2>3, InductionUpTo
  <2>5. n \in T
    BY <2>1, <2>4
  <2>6. \A x \in lo..hi : x >= hi - n
    BY <1>2
  <2> QED
    BY <2>5, <2>6 DEF T
<1> QED
  BY <1>1, <1>2

\* q is in col at h.
Spot(col, q, h) == h \in Nat /\ h + Len(q) <= Len(col) /\ Bytes(col, h, Len(q)) = q

\* found has occurrences from x to y only, and one that meets each of those.
Covers(col, q, x, y, found) ==
  /\ \A h \in found : Spot(col, q, h) /\ x <= h /\ h + Len(q) <= y
  /\ \A h \in Nat : (Spot(col, q, h) /\ x <= h /\ h + Len(q) <= y) =>
       \E g \in found : g <= h /\ h < g + Len(q)

\* The occurrences in a window are the places of the query within it.
LEMMA OccurrenceFacts ==
  ASSUME NEW col \in Seq(Nat), NEW q \in Seq(Nat), Len(q) > 0, NEW x \in Nat, NEW y \in Nat, y <= Len(col)
  PROVE  /\ \A h \in Nat : h \in Occurrences(col, q, x, y) <=>
                             (Spot(col, q, h) /\ x <= h /\ h + Len(q) <= y)
         /\ Occurrences(col, q, x, y) \in SUBSET Nat
<1> DEFINE l == Len(q)
           m == Len(col)
<1>1. l \in Nat /\ m \in Nat /\ l > 0 /\ y <= m
  OBVIOUS
<1>2. Occurrences(col, q, x, y) = {h \in x..(y - 1) : h + l <= y /\ Bytes(col, h, l) = q}
  BY DEF Occurrences
<1>3. \A h \in Nat : Spot(col, q, h) <=> (h + l <= m /\ Bytes(col, h, l) = q)
  BY DEF Spot
<1> HIDE DEF l, m
<1>4. \A h \in Nat : (h + l <= y /\ x <= h) => h \in x..(y - 1) /\ h + l <= m
  BY <1>1
<1>5. \A h \in x..(y - 1) : h \in Nat /\ x <= h
  OBVIOUS
<1> QED
  BY <1>2, <1>3, <1>4, <1>5, Zenon DEF l

\* The hits of a window are occurrences, and each occurrence there meets one.
LEMMA HitsInCover ==
  ASSUME NEW col \in Seq(Nat), NEW q \in Seq(Nat), Len(q) > 0, NEW lo \in Nat, NEW hi \in Nat,
         lo <= hi, hi <= Len(col)
  PROVE  Covers(col, q, lo, hi, HitsIn(col, q, lo, hi))
<1> DEFINE l == Len(q)
           D == lo..hi
           Occ(x) == Occurrences(col, q, x, hi)
           Step(g, x) == IF Occ(x) = {} THEN {} ELSE {Min(Occ(x))} \cup g[Min(Occ(x)) + l]
           Def(g) == [cu \in D |-> Step(g, cu)]
           found == CHOOSE h : h = Def(h)
           stop == {x \in D : Occ(x) = {}}
           own == [x \in D |-> {Min(Occ(x))}]
           next == [x \in D |-> Min(Occ(x)) + l]
<1>1. HitsIn(col, q, lo, hi) = found[lo]
  BY DEF HitsIn
<1>2. l \in Nat /\ l > 0
  OBVIOUS
<1> HIDE DEF l, found
<1>3. ASSUME NEW x \in D
      PROVE  /\ \A h \in Nat : h \in Occ(x) <=> (Spot(col, q, h) /\ x <= h /\ h + l <= hi)
             /\ Occ(x) \in SUBSET Nat
             /\ Occ(x) # {} => Min(Occ(x)) \in Occ(x) /\ \A h \in Occ(x) : Min(Occ(x)) <= h
  <2>1. /\ \A h \in Nat : h \in Occ(x) <=> (Spot(col, q, h) /\ x <= h /\ h + l <= hi)
        /\ Occ(x) \in SUBSET Nat
    BY OccurrenceFacts DEF l
  <2> HIDE DEF Occ
  <2> QED
    BY <2>1, MinFacts, Zenon
<1> HIDE DEF Occ
<1>4. ASSUME NEW x \in D, Occ(x) # {}
      PROVE  LET g == Min(Occ(x))
             IN  g \in Nat /\ Spot(col, q, g) /\ x <= g /\ g + l <= hi /\ g + l \in (x + 1)..hi /\ g + l \in D
  <2> DEFINE g == Min(Occ(x))
  <2>1. g \in Nat /\ g \in Occ(x)
    BY <1>3, <1>4
  <2> HIDE DEF g
  <2>2. Spot(col, q, g) /\ x <= g /\ g + l <= hi
    BY <1>3, <2>1
  <2>3. g + l \in (x + 1)..hi /\ g + l \in D
    BY <1>2, <2>1, <2>2
  <2> QED
    BY <2>1, <2>2, <2>3 DEF g
<1>5. found = Def(found)
  <2>1. \A x \in D : x \notin stop => next[x] \in D
    BY <1>4
  <2>2. PICK f : Gathers(D, stop, own, next, f)
    <3> HIDE DEF D, stop, own, next
    <3> QED
      BY <2>1, GatherExists, Zenon
  <2>3. f = [x \in D |-> IF x \in stop THEN {} ELSE own[x] \cup f[next[x]]]
    BY <2>2, Zenon DEF Gathers
  <2>4. \A x \in D : (IF x \in stop THEN {} ELSE own[x] \cup f[next[x]]) = Step(f, x)
    OBVIOUS
  <2> HIDE DEF stop, own, next, Step, D
  <2>5. f = Def(f)
    BY <2>3, <2>4, Zenon
  <2> HIDE DEF Def
  <2> QED
    BY <2>5 DEF found
<1> HIDE DEF D
<1>6. \A x \in D : found[x] = Step(found, x)
  <2>1. \A x \in D : Def(found)[x] = Step(found, x)
    OBVIOUS
  <2> HIDE DEF Def, Step
  <2> QED
    BY <1>5, <2>1
<1> DEFINE P == {x \in D : Covers(col, q, x, hi, found[x])}
<1>7. ASSUME NEW x \in D, \A y \in (x + 1)..hi : y \in P PROVE x \in P
  <2>0. x \in Nat /\ x <= hi
    BY DEF D
  <2>1. CASE Occ(x) = {}
    <3>1. found[x] = {}
      BY <1>6, <2>1, Zenon
    <3>2. \A h \in Nat : ~(Spot(col, q, h) /\ x <= h /\ h + l <= hi)
      BY <1>3, <2>1
    <3> QED
      BY <3>1, <3>2 DEF Covers, l
  <2>2. CASE Occ(x) # {}
    <3> DEFINE g == Min(Occ(x))
               y == g + l
    <3>1. found[x] = {g} \cup found[y]
      BY <1>6, <2>2, Zenon
    <3>2. /\ g \in Nat /\ Spot(col, q, g) /\ x <= g /\ g + l <= hi /\ y \in (x + 1)..hi /\ y = g + l
      BY <1>4, <2>2
    <3>a. \A h \in Occ(x) : g <= h
      BY <1>3, <2>2
    <3>3. Covers(col, q, y, hi, found[y])
      BY <1>7, <3>2
    <3> HIDE DEF g, y
    <3>4. /\ \A h \in found[y] : Spot(col, q, h) /\ y <= h /\ h + l <= hi
          /\ \A h \in Nat : (Spot(col, q, h) /\ y <= h /\ h + l <= hi) =>
               \E k \in found[y] : k <= h /\ h < k + l
      BY <3>3 DEF Covers, l
    <3>5. ASSUME NEW h \in found[x] PROVE Spot(col, q, h) /\ x <= h /\ h + l <= hi
      <4>1. CASE h = g
        BY <3>2, <4>1
      <4>2. CASE h \in found[y]
        <5>1. Spot(col, q, h) /\ y <= h /\ h + l <= hi /\ h \in Nat
          BY <3>4, <4>2 DEF Spot
        <5> QED
          BY <2>0, <1>2, <3>2, <5>1
      <4> QED
        BY <3>1, <4>1, <4>2
    <3>6. ASSUME NEW h \in Nat, Spot(col, q, h), x <= h, h + l <= hi
          PROVE  \E k \in found[x] : k <= h /\ h < k + l
      <4>1. g <= h
        <5>1. h \in Occ(x)
          BY <1>3, <3>6
        <5> QED
          BY <3>a, <5>1
      <4>2. CASE h < y
        BY <3>1, <3>2, <4>1, <4>2
      <4>3. CASE ~(h < y)
        <5>1. y <= h
          BY <1>2, <3>2, <4>3
        <5>2. PICK k \in found[y] : k <= h /\ h < k + l
          BY <3>4, <3>6, <5>1
        <5> QED
          BY <3>1, <5>2
      <4> QED
        BY <4>2, <4>3
    <3> QED
      BY <3>5, <3>6 DEF Covers, l
  <2> QED
    BY <2>1, <2>2
<1>8. lo \in P
  <2>1. \A x \in lo..hi : (\A y \in (x + 1)..hi : y \in P) => x \in P
    BY <1>7 DEF D
  <2> HIDE DEF P
  <2>2. \A x \in lo..hi : x \in P
    BY <2>1, DownFrom, Zenon
  <2> QED
    BY <2>2
<1> QED
  BY <1>1, <1>8

\* The scan of the whole column, window by window.
LEMMA ScanCovers ==
  ASSUME NEW col \in Seq(Nat), NEW q \in Seq(Nat), Len(q) > 0
  PROVE  Covers(col, q, 0, Len(col), ScanHits(col, q))
<1> DEFINE l == Len(q)
           len == Len(col)
           D == 0..len
           End(x) == Min({x + PollChunk + l, len})
           Hits(x) == HitsIn(col, q, x, End(x))
           Cur(x) == IF Hits(x) = {} THEN x ELSE Max(Hits(x)) + l
           Next(x) == IF End(x) = len THEN len ELSE Max({Cur(x), End(x) - (l - 1)})
           Step(g, x) == IF x + l > len THEN {} ELSE Hits(x) \cup g[Next(x)]
           Def(g) == [pos \in D |-> Step(g, pos)]
           from == CHOOSE h : h = Def(h)
           stop == {x \in D : x + l > len}
           own == [x \in D |-> Hits(x)]
           next == [x \in D |-> Next(x)]
<1>1. ScanHits(col, q) = from[0]
  BY DEF ScanHits
<1>2. l \in Nat /\ l > 0 /\ len \in Nat /\ PollChunk \in Nat \ {0}
  BY ArenaAssumption
<1> HIDE DEF l, len, from
\* A window ends past its start, by a chunk and a needle or at the end of the column.
<1>3. ASSUME NEW x \in D, ~(x + l > len)
      PROVE  /\ End(x) \in Nat /\ x <= End(x) /\ End(x) <= len /\ End(x) >= x + l
             /\ End(x) = len \/ End(x) = x + PollChunk + l
  <2> DEFINE T == {x + PollChunk + l, len}
             e == Min(T)
  <2>1. T \in SUBSET Nat /\ T # {}
    BY <1>2
  <2>2. e \in T /\ \A m \in T : e <= m
    <3> HIDE DEF T
    <3> QED
      BY <2>1, MinFacts
  <2> HIDE DEF e
  <2>3. /\ e \in Nat /\ x <= e /\ e <= len /\ e >= x + l
        /\ e = len \/ e = x + PollChunk + l
    BY <1>2, <1>3, <2>2
  <2> QED
    BY <2>3 DEF e
<1>4. ASSUME NEW x \in D, ~(x + l > len)
      PROVE  Covers(col, q, x, End(x), Hits(x))
  <2> DEFINE e == End(x)
  <2>1. x \in Nat /\ e \in Nat /\ x <= e /\ e <= len
    BY <1>3, <1>4
  <2> HIDE DEF e
  <2>2. Covers(col, q, x, e, HitsIn(col, q, x, e))
    BY <1>2, <2>1, HitsInCover DEF l, len
  <2> QED
    BY <2>2 DEF e
<1> HIDE DEF End, Hits
<1>5. ASSUME NEW x \in D, ~(x + l > len), Hits(x) # {}
      PROVE  LET m == Max(Hits(x))
             IN  m \in Nat /\ m \in Hits(x) /\ m + l <= End(x)
  <2> DEFINE H == Hits(x)
             m == Max(H)
  <2>1. \A h \in H : h \in Nat /\ h + l <= End(x)
    BY <1>4, <1>5 DEF Covers, Spot, l
  <2>2. H \in SUBSET (0..len) /\ H # {}
    BY <1>2, <1>3, <1>5, <2>1
  <2> HIDE DEF H
  <2>3. m \in H
    BY <1>2, <2>2, MaxFacts, Zenon
  <2> HIDE DEF m
  <2>4. m \in Nat /\ m \in H /\ m + l <= End(x)
    BY <2>1, <2>3
  <2> QED
    BY <2>4 DEF H, m
<1>6. ASSUME NEW x \in D, ~(x + l > len)
      PROVE  Cur(x) \in Nat /\ Cur(x) <= End(x)
  <2>1. CASE Hits(x) = {}
    BY <1>3, <1>6, <2>1
  <2>2. CASE Hits(x) # {}
    <3> DEFINE m == Max(Hits(x))
    <3>1. m \in Nat /\ m + l <= End(x) /\ Cur(x) = m + l
      BY <1>5, <1>6, <2>2
    <3> HIDE DEF m, Cur
    <3> QED
      BY <1>2, <3>1
  <2> QED
    BY <2>1, <2>2
<1> HIDE DEF Cur
<1>7. ASSUME NEW x \in D, ~(x + l > len)
      PROVE  /\ Next(x) \in (x + 1)..len
             /\ End(x) # len => /\ Next(x) \in {Cur(x), End(x) - (l - 1)}
                                /\ End(x) - (l - 1) <= Next(x) /\ x < End(x) - (l - 1)
  <2>1. CASE End(x) = len
    BY <1>2, <1>3, <1>7, <2>1
  <2>2. CASE End(x) # len
    <3> DEFINE e == End(x)
               T == {Cur(x), e - (l - 1)}
               n == Max(T)
    <3>1. e \in Nat /\ e <= len /\ e = x + PollChunk + l /\ Cur(x) \in Nat /\ Cur(x) <= e
      BY <1>3, <1>6, <1>7, <2>2
    <3>2. Next(x) = n
      BY <2>2
    <3> HIDE DEF e, Next
    <3>3. T \in SUBSET (0..len) /\ T # {} /\ x < e - (l - 1)
      BY <1>2, <3>1
    <3>4. n \in T /\ \A m \in T : m <= n
      <4> HIDE DEF T
      <4> QED
        BY <1>2, <3>3, MaxFacts, Zenon
    <3> HIDE DEF n
    <3>5. n \in (x + 1)..len /\ e - (l - 1) <= n
      BY <1>2, <3>1, <3>3, <3>4
    <3> QED
      BY <2>2, <3>2, <3>3, <3>4, <3>5 DEF e
  <2> QED
    BY <2>1, <2>2
<1> HIDE DEF Next
<1>8. from = Def(from)
  <2>1. \A x \in D : x \notin stop => next[x] \in D
    <3> TAKE x \in D
    <3>1. x \notin stop => Next(x) \in (x + 1)..len
      BY <1>7
    <3> QED
      BY <3>1
  <2>2. PICK f : Gathers(D, stop, own, next, f)
    <3> HIDE DEF D, stop, own, next
    <3> QED
      BY <2>1, GatherExists, Zenon
  <2>3. f = [x \in D |-> IF x \in stop THEN {} ELSE own[x] \cup f[next[x]]]
    BY <2>2, Zenon DEF Gathers
  <2>4. \A x \in D : (IF x \in stop THEN {} ELSE own[x] \cup f[next[x]]) = Step(f, x)
    OBVIOUS
  <2> HIDE DEF stop, own, next, Step, D
  <2>5. f = Def(f)
    BY <2>3, <2>4, Zenon
  <2> HIDE DEF Def
  <2> QED
    BY <2>5 DEF from
<1> HIDE DEF D
<1>9. \A x \in D : from[x] = Step(from, x)
  <2>1. \A x \in D : Def(from)[x] = Step(from, x)
    OBVIOUS
  <2> HIDE DEF Def, Step
  <2> QED
    BY <1>8, <2>1
<1> DEFINE P == {x \in D : Covers(col, q, x, len, from[x])}
<1>10. ASSUME NEW x \in D, \A y \in (x + 1)..len : y \in P PROVE x \in P
  <2>0. x \in Nat /\ x <= len
    BY DEF D
  <2>1. CASE x + l > len
    <3>1. from[x] = {}
      BY <1>9, <2>1, Zenon
    <3>2. \A h \in Nat : ~(x <= h /\ h + l <= len)
      BY <1>2, <2>0, <2>1
    <3> QED
      BY <3>1, <3>2 DEF Covers, l
  <2>2. CASE ~(x + l > len)
    <3> DEFINE y == Next(x)
               e == End(x)
               H == Hits(x)
    <3>1. from[x] = H \cup from[y]
      BY <1>9, <2>2, Zenon
    <3>2. y \in (x + 1)..len /\ e \in Nat /\ e <= len
      BY <1>3, <1>7, <2>2
    <3>3. Covers(col, q, y, len, from[y])
      BY <1>10, <3>2
    <3>4. Covers(col, q, x, e, H)
      BY <1>4, <2>2
    <3>5. e # len => y \in {Cur(x), e - (l - 1)} /\ e - (l - 1) <= y /\ x < e - (l - 1)
      BY <1>7, <2>2
    <3>6. H # {} => Max(H) \in Nat /\ Max(H) \in H /\ Max(H) + l <= e /\ Cur(x) = Max(H) + l
      BY <1>5, <2>2 DEF Cur
    <3>7. H = {} => Cur(x) = x
      BY DEF Cur
    <3>b. e = len => y = len
      BY <2>2 DEF Next
    <3> HIDE DEF y, e, H
    <3>8. /\ \A h \in from[y] : Spot(col, q, h) /\ y <= h /\ h + l <= len
          /\ \A h \in Nat : (Spot(col, q, h) /\ y <= h /\ h + l <= len) =>
               \E k \in from[y] : k <= h /\ h < k + l
      BY <3>3 DEF Covers, l
    <3>9. /\ \A h \in H : Spot(col, q, h) /\ x <= h /\ h + l <= e
          /\ \A h \in Nat : (Spot(col, q, h) /\ x <= h /\ h + l <= e) =>
               \E k \in H : k <= h /\ h < k + l
      BY <3>4 DEF Covers, l
    <3>10. ASSUME NEW h \in from[x] PROVE Spot(col, q, h) /\ x <= h /\ h + l <= len
      <4>1. CASE h \in H
        <5>1. Spot(col, q, h) /\ x <= h /\ h + l <= e /\ h \in Nat
          BY <3>9, <4>1 DEF Spot
        <5> QED
          BY <1>2, <3>2, <5>1
      <4>2. CASE h \in from[y]
        <5>1. Spot(col, q, h) /\ y <= h /\ h + l <= len /\ h \in Nat
          BY <3>8, <4>2 DEF Spot
        <5> QED
          BY <2>0, <1>2, <3>2, <5>1
      <4> QED
        BY <3>1, <4>1, <4>2
    <3>11. ASSUME NEW h \in Nat, Spot(col, q, h), x <= h, h + l <= len
           PROVE  \E k \in from[x] : k <= h /\ h < k + l
      <4>1. CASE h + l <= e
        <5>1. PICK k \in H : k <= h /\ h < k + l
          BY <3>9, <3>11, <4>1
        <5> QED
          BY <3>1, <5>1
      <4>2. CASE y <= h
        <5>1. PICK k \in from[y] : k <= h /\ h < k + l
          BY <3>8, <3>11, <4>2
        <5> QED
          BY <3>1, <5>1
      <4>3. CASE ~(h + l <= e) /\ ~(y <= h)
        <5>1. e # len /\ e - (l - 1) <= h
          BY <1>2, <3>2, <3>11, <4>3
        <5>2. y = Cur(x) /\ y # e - (l - 1)
          BY <1>2, <3>2, <3>5, <4>3, <5>1
        <5>3. H # {}
          BY <1>2, <2>0, <3>2, <3>5, <3>7, <5>1, <5>2
        <5> DEFINE m == Max(H)
        <5>4. m \in Nat /\ m \in H /\ m + l <= e /\ y = m + l
          BY <3>6, <5>2, <5>3
        <5> HIDE DEF m
        <5>5. m <= h /\ h < m + l
          BY <1>2, <3>2, <3>11, <4>3, <5>4
        <5> QED
          BY <3>1, <5>4, <5>5
      <4> QED
        BY <4>1, <4>2, <4>3
    <3> QED
      BY <3>10, <3>11 DEF Covers, l
  <2> QED
    BY <2>1, <2>2
<1>11. 0 \in P
  <2>1. \A x \in 0..len : (\A y \in (x + 1)..len : y \in P) => x \in P
    BY <1>10 DEF D
  <2> HIDE DEF P
  <2>2. \A x \in 0..len : x \in P
    BY <1>2, <2>1, DownFrom, Zenon
  <2> QED
    BY <1>2, <2>2
<1> QED
  BY <1>1, <1>11 DEF len

-----------------------------------------------------------------------------
(* Where a query lies.                                                     *)

\* q is in w at x.
Within(q, w, x) == x \in Nat /\ x + Len(q) <= Len(w) /\ \A j \in 1..Len(q) : w[x + j] = q[j]

\* A spot is a place the query is at.
LEMMA SpotWithin ==
  ASSUME NEW col \in Seq(Nat), NEW q \in Seq(Nat), NEW h
  PROVE  Spot(col, q, h) <=> Within(q, col, h)
<1> DEFINE l == Len(q)
<1>1. l \in Nat /\ q = [j \in 1..l |-> q[j]]
  OBVIOUS
<1> HIDE DEF l
<1>2. ASSUME Spot(col, q, h) PROVE Within(q, col, h)
  <2>1. h \in Nat /\ h + l <= Len(col) /\ Bytes(col, h, l) = q
    BY <1>2 DEF Spot, l
  <2>2. Bytes(col, h, l) = [x \in 1..l |-> col[h + x]]
    BY <1>1, <2>1, BytesForm, Zenon
  <2>3. \A j \in 1..l : q[j] = col[h + j]
    BY <2>1, <2>2
  <2> QED
    BY <2>1, <2>3 DEF Within, l
<1>3. ASSUME Within(q, col, h) PROVE Spot(col, q, h)
  <2>1. h \in Nat /\ h + Len(q) <= Len(col) /\ \A j \in 1..Len(q) : col[h + j] = q[j]
    BY <1>3 DEF Within
  <2>2. Bytes(col, h, Len(q)) = q
    BY <2>1, BytesAre
  <2> QED
    BY <2>1, <2>2 DEF Spot
<1> QED
  BY <1>2, <1>3

\* To occur is to be somewhere within.
LEMMA OccursWithin ==
  ASSUME NEW q \in Seq(Nat), NEW w \in Seq(Nat)
  PROVE  Occurs(q, w) <=> \E x \in Nat : Within(q, w, x)
<1> DEFINE l == Len(q)
           m == Len(w)
<1>0. l \in Nat /\ m \in Nat
  OBVIOUS
<1>1. \A x : Spot(w, q, x) <=> Within(q, w, x)
  BY SpotWithin
<1>2. \A x : Spot(w, q, x) <=> (x \in Nat /\ x + l <= m /\ SubSeq(w, x + 1, x + l) = q)
  BY DEF Spot, Bytes
<1>3. Occurs(q, w) <=> \E i \in 1..(m + 1 - l) : q = SubSeq(w, i, i + l - 1)
  BY DEF Occurs, Windows
<1> HIDE DEF l, m
<1>4. ASSUME NEW i \in 1..(m + 1 - l), q = SubSeq(w, i, i + l - 1) PROVE \E x \in Nat : Spot(w, q, x)
  <2> DEFINE x == i - 1
  <2>1. x \in Nat /\ x + l <= m /\ x + 1 = i /\ x + l = i + l - 1
    BY <1>0, <1>4
  <2> HIDE DEF x
  <2> QED
    BY <1>2, <1>4, <2>1, Zenon
<1>5. ASSUME NEW x \in Nat, Spot(w, q, x) PROVE \E i \in 1..(m + 1 - l) : q = SubSeq(w, i, i + l - 1)
  <2> DEFINE i == x + 1
  <2>1. x + l <= m /\ SubSeq(w, i, x + l) = q
    BY <1>2, <1>5, Zenon
  <2>2. i \in 1..(m + 1 - l) /\ x + l = i + l - 1
    BY <1>0, <2>1
  <2> HIDE DEF i
  <2> QED
    BY <2>1, <2>2
<1> QED
  BY <1>1, <1>3, <1>4, <1>5, Zenon

\* The windows of a part are windows of the whole.
LEMMA WindowsWithin ==
  ASSUME NEW q \in Seq(Nat), NEW w \in Seq(Nat), NEW x, Within(q, w, x), NEW k \in Nat
  PROVE  Windows(q, k) \subseteq Windows(w, k)
<1> DEFINE l == Len(q)
           m == Len(w)
<1>0. l \in Nat /\ m \in Nat
  OBVIOUS
<1>1. x \in Nat /\ x + l <= m /\ \A j \in 1..l : w[x + j] = q[j]
  BY DEF Within
<1> HIDE DEF l, m
<1>2. SUFFICES ASSUME NEW i \in 1..(l + 1 - k) PROVE SubSeq(q, i, i + k - 1) \in Windows(w, k)
  BY Zenon DEF Windows, l
<1> DEFINE a == i - 1
           b == x + a
<1>3. a \in Nat /\ b \in Nat /\ a + k <= l /\ b + k <= m /\ a + 1 = i /\ a + k = i + k - 1 /\ b + 1 = x + i
      /\ b + k = (x + i) + k - 1 /\ x + i \in 1..(m + 1 - k) /\ b = x + a
  BY <1>0, <1>1
<1> HIDE DEF a, b
<1>4. Bytes(q, a, k) = [j \in 1..k |-> q[a + j]]
  BY <1>3, BytesForm, Zenon DEF l
<1>5. Bytes(w, b, k) = [j \in 1..k |-> w[b + j]]
  BY <1>3, BytesForm, Zenon DEF m
<1>6. \A j \in 1..k : w[b + j] = q[a + j]
  <2> TAKE j \in 1..k
  <2>1. a + j \in 1..l /\ b + j = x + (a + j)
    BY <1>0, <1>1, <1>3
  <2> QED
    BY <1>1, <2>1, Zenon
<1>7. Bytes(q, a, k) = Bytes(w, b, k)
  BY <1>4, <1>5, <1>6
<1>8. SubSeq(q, i, i + k - 1) = SubSeq(w, x + i, (x + i) + k - 1)
  BY <1>3, <1>7, Zenon DEF Bytes
<1> QED
  BY <1>3, <1>8, Zenon DEF Windows, m

\* The presence gate lets through every query some name holds.
LEMMA GateOpens ==
  ASSUME NEW q \in Seq(Nat), NEW w \in Seq(Nat), NEW x, Within(q, w, x), NEW widest \in Nat,
         NEW grams, Grams(w, widest) \subseteq grams
  PROVE  MayContain(grams, q, widest)
<1> SUFFICES ASSUME NEW k \in 1..widest PROVE Windows(q, k) \subseteq grams
  BY DEF MayContain
<1>1. Windows(q, k) \subseteq Windows(w, k)
  BY WindowsWithin
<1>2. Windows(w, k) \subseteq Grams(w, widest)
  BY DEF Grams
<1> QED
  BY <1>1, <1>2

\* A whole match and a prefix are matches at the start.
LEMMA WholeWithin ==
  ASSUME NEW q \in Seq(Nat), NEW w \in Seq(Nat)
  PROVE  /\ w = q <=> Within(q, w, 0) /\ Len(w) = Len(q)
         /\ IsPrefix(q, w) <=> Within(q, w, 0)
<1> DEFINE l == Len(q)
           m == Len(w)
<1>0. l \in Nat /\ m \in Nat /\ q = [j \in 1..l |-> q[j]] /\ w = [j \in 1..m |-> w[j]]
  OBVIOUS
<1>1. Within(q, w, 0) <=> Spot(w, q, 0)
  BY SpotWithin
<1>2. Spot(w, q, 0) <=> (0 + l <= m /\ SubSeq(w, 0 + 1, 0 + l) = q)
  BY DEF Spot, Bytes
<1>3. IsPrefix(q, w) <=> (l <= m /\ SubSeq(q, 1, l) = SubSeq(w, 1, l))
  BY DEF IsPrefix
<1>5. Within(q, w, 0) <=> (0 + l <= m /\ \A j \in 1..l : w[0 + j] = q[j])
  BY DEF Within
<1>4. SubSeq(q, 1, l) = q
  BY <1>0
<1> HIDE DEF l, m
<1>6. 0 + l = l /\ 0 + 1 = 1 /\ \A j \in 1..l : 0 + j = j
  BY <1>0
<1>7. IsPrefix(q, w) <=> Within(q, w, 0)
  BY <1>1, <1>2, <1>3, <1>4, <1>6, Zenon
<1>8. ASSUME w = q PROVE Within(q, w, 0) /\ m = l
  <2>1. m = l
    BY <1>8 DEF m, l
  <2> QED
    BY <1>0, <1>5, <1>6, <1>8, <2>1
<1>9. ASSUME Within(q, w, 0), m = l PROVE w = q
  <2>1. \A j \in 1..l : w[j] = q[j]
    BY <1>5, <1>6, <1>9
  <2> QED
    BY <1>0, <1>9, <2>1
<1> QED
  BY <1>7, <1>8, <1>9 DEF l, m

-----------------------------------------------------------------------------
(* The file a hit in the folded arena belongs to.                          *)

\* The hit h of q lies in the name of slot s.
InArena(c, es, q, h, s) ==
  /\ s \in Living(es) /\ h \in Nat /\ c.folded_off[s] <= h
  /\ Within(q, Folded[es[s].name], h - c.folded_off[s])

\* The byte at h is of record r, or the fence before it.
OfRecord(rs, flen, h, r) == r \in 1..Len(rs) /\ rs[r].off <= h /\ h < EndOf(rs, flen, r)

\* A place in the arena belongs to one record at most.
LEMMA OneRecord ==
  ASSUME NEW fb, NEW flen \in Nat, NEW rs, Records(fb, flen, rs), NEW h \in Nat,
         NEW r, NEW p, OfRecord(rs, flen, h, r), OfRecord(rs, flen, h, p)
  PROVE  r = p
<1> DEFINE a == rs[r].off
           b == EndOf(rs, flen, r)
           d == rs[p].off
           e == EndOf(rs, flen, p)
<1>1. r \in 1..Len(rs) /\ p \in 1..Len(rs) /\ Len(rs) \in Nat /\ a <= h /\ h < b /\ d <= h /\ h < e
  BY DEF OfRecord, Records
<1>2. a \in Nat /\ b \in Nat /\ d \in Nat /\ e \in Nat /\ (r < p => b <= d) /\ (p < r => e <= a)
  BY <1>1, Zenon DEF Records
<1> HIDE DEF a, b, d, e
<1>3. ~(r < p) /\ ~(p < r)
  BY <1>1, <1>2
<1> QED
  BY <1>1, <1>3

\* Every place of the arena is in an owner block that starts no later.
LEMMA BlockOf ==
  ASSUME NEW len \in Nat, NEW h \in Nat, h < len
  PROVE  /\ (h \div OwnerBlock) + 1 \in 1..Blocks(len)
         /\ (((h \div OwnerBlock) + 1) - 1) * OwnerBlock <= h
<1> DEFINE b == (h \div OwnerBlock) + 1
           z == b - 1
           B == Blocks(len)
<1>1. OwnerBlock \in Nat \ {0} /\ B \in Nat
  BY ArenaAssumption, BlocksNat, Zenon
<1>2. z \in Nat /\ z * OwnerBlock <= h /\ b \in Nat /\ b > 0 /\ z = b - 1
  <2> DEFINE y == h \div OwnerBlock
  <2>1. y \in Nat /\ y * OwnerBlock <= h
    BY <1>1
  <2>2. b = y + 1 /\ z = y
    BY <2>1
  <2> HIDE DEF y, z
  <2>3. b \in Nat /\ b > 0 /\ y = b - 1
    BY <2>1, <2>2
  <2> QED
    BY <2>1, <2>2, <2>3
<1> HIDE DEF B
<1>3. b <= B
  <2> SUFFICES ASSUME ~(b <= B) PROVE FALSE
    OBVIOUS
  <2> HIDE DEF b, z
  <2>1. len <= (b - 1) * OwnerBlock
    BY <1>2, BeyondBlocks DEF B
  <2>2. len <= z * OwnerBlock /\ z * OwnerBlock \in Nat
    BY <1>1, <1>2, <2>1
  <2> QED
    BY <1>2, <2>2
<1> HIDE DEF z
<1>4. b \in 1..B /\ (b - 1) * OwnerBlock <= h
  BY <1>1, <1>2, <1>3
<1> QED
  BY <1>4 DEF b, B

\* The owner of a hit's block and the records after it end at the hit's own record.
LEMMA SlotAtRecord ==
  ASSUME NEW c, Owned(c), NEW flen \in Nat, flen = Len(c.folded), Records(c.folded, flen, c.recs),
         NEW h \in Nat, NEW r, OfRecord(c.recs, flen, h, r)
  PROVE  SlotAt(c, h) = IF c.recs[r].off = c.folded_off[c.recs[r].slot] /\ ~entries[c.recs[r].slot].dead
                        THEN c.recs[r].slot ELSE 0
<1> DEFINE rs == c.recs
           k == Len(rs)
           b == (h \div OwnerBlock) + 1
           ri == c.owner[b]
           walked == {x \in (ri + 1)..k : \A j \in (ri + 1)..x : rs[j].off <= h}
           T == {ri} \cup walked
<1>1. /\ k \in Nat /\ r \in 1..k /\ rs[r].off <= h /\ h < EndOf(rs, flen, r)
      /\ EndOf(rs, flen, r) \in Nat /\ EndOf(rs, flen, r) <= flen
      /\ \A x \in 1..k : rs[x].off \in Nat
      /\ \A x, y \in 1..k : x < y => rs[x].off < rs[y].off /\ EndOf(rs, flen, x) <= rs[y].off
  BY Zenon DEF OfRecord, Records
<1>2. h < flen
  BY <1>1
<1>3. b \in 1..Blocks(flen) /\ (b - 1) * OwnerBlock <= h
  BY <1>2, BlockOf
<1>4. (b - 1) * OwnerBlock \in Nat
  <2> HIDE DEF b
  <2>1. b \in Nat /\ b > 0
    <3>1. Blocks(flen) \in Nat
      BY BlocksNat, Zenon
    <3> QED
      BY <1>3, <3>1
  <2>2. b - 1 \in Nat /\ OwnerBlock \in Nat
    BY <2>1, ArenaAssumption
  <2> QED
    BY <2>2
<1> DEFINE z == (b - 1) * OwnerBlock
<1>5. ri \in 1..k /\ (ri = 1 \/ rs[ri].off <= z)
  <2>1. Len(c.owner) = Blocks(flen)
    BY DEF Owned
  <2> HIDE DEF b
  <2> QED
    BY <1>3, <2>1 DEF Owned
<1>6. SlotAt(c, h) = IF rs[Max(T)].off = c.folded_off[rs[Max(T)].slot] /\ ~entries[rs[Max(T)].slot].dead
                     THEN rs[Max(T)].slot ELSE 0
  BY DEF SlotAt
<1>z. z \in Nat /\ z <= h
  BY <1>3, <1>4
<1> HIDE DEF k, rs, ri, z
<1>7. ri = 1 \/ rs[ri].off <= h
  BY <1>z, <1>1, <1>5
<1>8. \A x \in 1..k : x <= r => rs[x].off <= h
  <2> TAKE x \in 1..k
  <2>1. CASE x = r
    BY <1>1, <2>1
  <2>2. CASE x # r
    <3>1. x < r => rs[x].off < rs[r].off
      BY <1>1
    <3> QED
      BY <1>1, <2>2, <3>1
  <2> QED
    BY <2>1, <2>2
<1>9. \A x \in 1..k : x > r => ~(rs[x].off <= h)
  <2> TAKE x \in 1..k
  <2> HAVE x > r
  <2>1. EndOf(rs, flen, r) <= rs[x].off /\ rs[x].off \in Nat
    BY <1>1
  <2> QED
    BY <1>1, <2>1
<1>10. ri <= r
  <2>1. CASE ri = 1
    BY <1>1, <2>1
  <2>2. CASE rs[ri].off <= h
    <3>1. ~(ri > r)
      BY <1>5, <1>9, <2>2
    <3> QED
      BY <1>1, <1>5, <3>1
  <2> QED
    BY <1>7, <2>1, <2>2
<1>11. \A x \in walked : x <= r /\ x \in 0..k
  <2> TAKE x \in walked
  <2>1. x \in (ri + 1)..k /\ rs[x].off <= h
    <3>1. x \in (ri + 1)..k /\ \A j \in (ri + 1)..x : rs[j].off <= h
      OBVIOUS
    <3>2. x \in (ri + 1)..x
      BY <1>5, <3>1
    <3> QED
      BY <3>1, <3>2
  <2>2. x \in 1..k
    BY <1>5, <2>1
  <2>3. ~(x > r)
    BY <1>9, <2>1, <2>2
  <2> HIDE DEF walked
  <2> QED
    BY <1>1, <2>2, <2>3
<1>12. r \in T
  <2>1. CASE r = ri
    BY <2>1
  <2>2. CASE r # ri
    <3>1. r \in (ri + 1)..k
      BY <1>1, <1>5, <1>10, <2>2
    <3>2. \A j \in (ri + 1)..r : rs[j].off <= h
      <4> TAKE j \in (ri + 1)..r
      <4>1. j \in 1..k /\ j <= r
        BY <1>1, <1>5
      <4> QED
        BY <1>8, <4>1
    <3> QED
      BY <3>1, <3>2
  <2> QED
    BY <2>1, <2>2
<1>13. T \in SUBSET (0..k) /\ T # {} /\ \A m \in T : m <= r
  <2>1. ri \in 0..k
    BY <1>5
  <2> HIDE DEF walked
  <2> QED
    BY <1>10, <1>11, <1>12, <2>1
<1> HIDE DEF T, walked
<1>14. Max(T) = r
  <2> DEFINE m == Max(T)
  <2>1. m \in T /\ \A x \in T : x <= m
    BY <1>1, <1>13, MaxFacts, Zenon
  <2> HIDE DEF m
  <2>2. m <= r /\ r <= m /\ m \in 0..k
    BY <1>12, <1>13, <2>1
  <2>3. m = r
    BY <1>1, <2>2
  <2> QED
    BY <2>3 DEF m
<1> QED
  BY <1>6, <1>14 DEF rs

\* Every occurrence of a query is inside one live file's name.
LEMMA HitInside ==
  ASSUME NEW c, NEW es \in Seq(Entry), Kept(c, es), NEW q \in Seq(Nat \ {Fence}), Len(q) > 0,
         NEW h, Within(q, c.folded, h)
  PROVE  \E s \in Living(es) : InArena(c, es, q, h, s)
<1> DEFINE fb == c.folded
           flen == Len(fb)
           fo == c.folded_off
           rs == c.recs
           k == Len(rs)
           l == Len(q)
<1>1. /\ Records(fb, flen, rs) /\ flen \in Nat /\ rs \in Seq(Rec) /\ k \in Nat
      /\ FoldedLaid(fb, flen, fo, rs, Living(es), es)
  BY KeptNames DEF Kept
<1>2. l \in Nat /\ l > 0 /\ \A j \in 1..l : q[j] \in Nat /\ q[j] # Fence
  OBVIOUS
<1>3. h \in Nat /\ h + l <= flen /\ \A j \in 1..l : fb[h + j] = q[j]
  BY DEF Within
<1>s. \A s \in Living(es) : es[s].name \in Name \ BadName /\ Owns(fb, flen, fo, rs, Living(es), es, s)
  BY KeptNames
<1> HIDE DEF fb, flen, fo, rs, k, l
<1>4. \A j \in 1..l : fb[h + j] # Fence
  BY <1>2, <1>3, Zenon
<1>5. flen # 0 /\ h + 1 <= flen /\ fb[h + 1] # Fence
  <2>1. 1 \in 1..l
    BY <1>2
  <2> QED
    BY <1>1, <1>2, <1>3, <1>4, <2>1
<1>6. k > 0 /\ rs[1].off = 1 /\ fb[1] = Fence
  <2>1. rs # <<>>
    BY <1>1, <1>5 DEF FoldedLaid
  <2>2. k > 0
    BY <1>1, <2>1 DEF k
  <2> QED
    BY <1>1, <2>1, <2>2 DEF FoldedLaid
<1>7. h > 0
  BY <1>3, <1>5, <1>6
<1>8. PICK r : OfRecord(rs, flen, h, r)
  <2> DEFINE T == {x \in 1..k : rs[x].off <= h}
             r == Max(T)
  <2>0. \A x \in 1..k : rs[x].off \in Nat
    BY <1>1, Zenon DEF Records, k
  <2>1. T \in SUBSET (0..k) /\ T # {}
    <3>1. 1 \in T
      BY <1>1, <1>3, <1>6, <1>7
    <3>2. \A x \in 1..k : x \in 0..k
      BY <1>1
    <3> QED
      BY <3>1, <3>2
  <2>2. r \in T /\ \A x \in T : x <= r
    <3> HIDE DEF T
    <3> QED
      BY <1>1, <2>1, MaxFacts, Zenon
  <2> HIDE DEF r
  <2>3. r \in 1..k /\ rs[r].off <= h
    BY <2>2
  <2>4. h < EndOf(rs, flen, r)
    <3>1. CASE r = k
      <4>1. EndOf(rs, flen, r) = flen
        BY <3>1 DEF EndOf, k
      <4> QED
        BY <1>1, <1>3, <1>5, <4>1
    <3>2. CASE r # k
      <4>1. r + 1 \in 1..k /\ ~(r + 1 <= r)
        BY <1>1, <2>3, <3>2
      <4>2. ~(rs[r + 1].off <= h)
        BY <2>2, <4>1
      <4>3. EndOf(rs, flen, r) = rs[r + 1].off
        BY <3>2 DEF EndOf, k
      <4> QED
        BY <1>3, <2>0, <4>1, <4>2, <4>3
    <3> QED
      BY <3>1, <3>2
  <2> QED
    BY <2>3, <2>4 DEF OfRecord, k
<1> DEFINE off == rs[r].off
           end == EndOf(rs, flen, r)
           s == rs[r].slot
<1>9. /\ r \in 1..k /\ off \in Nat /\ end \in Nat /\ off <= h /\ h < end /\ end <= flen /\ fb[end] = Fence
  BY <1>1, <1>8 DEF OfRecord, Records, k
<1>10. ~Mine(fo, Living(es), rs[r]) => \A i \in (off + 1)..(end - 1) : fb[i] = Fence
  BY <1>1, <1>9, Zenon DEF FoldedLaid, k
<1> HIDE DEF off, end
<1>11. Mine(fo, Living(es), rs[r])
  <2>1. h + 1 # end
    BY <1>5, <1>9
  <2>2. h + 1 \in (off + 1)..(end - 1)
    BY <1>3, <1>9, <2>1
  <2> QED
    BY <1>5, <1>10, <2>2
<1>12. s \in Living(es) /\ fo[s] = off
  BY <1>11 DEF Mine, off
<1> DEFINE w == Folded[es[s].name]
           m == Len(w)
<1>13. /\ es[s].name \in Name \ BadName /\ m \in Nat
       /\ \A j \in 1..m : fb[off + j] = w[j]
       /\ \E p \in 1..k : rs[p].off = off /\ EndOf(rs, flen, p) = off + m + 1
  <2>1. es[s].name \in Name \ BadName /\ Owns(fb, flen, fo, rs, Living(es), es, s)
    BY <1>s, <1>12
  <2>2. m \in Nat
    BY <2>1, NameBytes
  <2> QED
    BY <2>1, <2>2, <1>12, Zenon DEF Owns, k
<1>14. PICK p \in 1..k : rs[p].off = off /\ EndOf(rs, flen, p) = off + m + 1
  BY <1>13
<1> HIDE DEF w, m, s
<1>15. p = r
  <2>1. /\ off < EndOf(rs, flen, p)
        /\ off < EndOf(rs, flen, r)
    <3>1. off < off + m + 1 /\ off < end
      BY <1>3, <1>9, <1>13
    <3> QED
      BY <1>14, <3>1 DEF end
  <2>2. OfRecord(rs, flen, off, p) /\ OfRecord(rs, flen, off, r)
    <3>1. off <= off
      BY <1>9
    <3> QED
      BY <2>1, <1>9, <1>14, <3>1 DEF OfRecord, off, k
  <2> QED
    BY <1>1, <1>9, <2>2, OneRecord
<1>16. end = off + m + 1
  BY <1>14, <1>15 DEF end
<1>17. h + l < end
  <2> SUFFICES ASSUME ~(h + l < end) PROVE FALSE
    OBVIOUS
  <2>1. end - h \in 1..l /\ h + (end - h) = end
    BY <1>2, <1>3, <1>9
  <2> QED
    BY <1>4, <1>9, <2>1
<1> DEFINE x == h - off
<1>18. x \in Nat /\ x + l <= m /\ \A j \in 1..l : x + j \in 1..m /\ off + (x + j) = h + j
  BY <1>2, <1>3, <1>9, <1>13, <1>16, <1>17
<1>19. \A j \in 1..l : w[x + j] = q[j]
  <2> TAKE j \in 1..l
  <2>1. fb[off + (x + j)] = w[x + j]
    BY <1>13, <1>18, Zenon
  <2> QED
    BY <1>3, <1>18, <2>1, Zenon
<1>20. Within(q, w, x)
  BY <1>18, <1>19 DEF Within, l, m
<1>21. InArena(c, es, q, h, s)
  BY <1>3, <1>9, <1>12, <1>20 DEF InArena, w, fo, x
<1> QED
  BY <1>12, <1>21

\* What the bytes about a hit in a name say of it.
Fences(c, es, q, h, s) ==
  /\ At(c.folded, h - 1) = Fence <=> h - c.folded_off[s] = 0
  /\ At(c.folded, h + Len(q)) = Fence <=> (h - c.folded_off[s]) + Len(q) = Len(Folded[es[s].name])

\* A query inside a live name is a hit whose record and fences are that name's.
LEMMA InsideHit ==
  ASSUME NEW c, NEW es \in Seq(Entry), Kept(c, es), NEW q \in Seq(Nat \ {Fence}), Len(q) > 0,
         NEW h, NEW s, InArena(c, es, q, h, s)
  PROVE  /\ Within(q, c.folded, h) /\ Fences(c, es, q, h, s)
         /\ \E r : /\ OfRecord(c.recs, Len(c.folded), h, r)
                   /\ c.recs[r].slot = s /\ c.recs[r].off = c.folded_off[s]
                   /\ EndOf(c.recs, Len(c.folded), r) = c.folded_off[s] + Len(Folded[es[s].name]) + 1
<1> DEFINE fb == c.folded
           flen == Len(fb)
           fo == c.folded_off
           rs == c.recs
           w == Folded[es[s].name]
           m == Len(w)
           l == Len(q)
           off == fo[s]
           x == h - off
<1>1. s \in Living(es) /\ h \in Nat /\ off <= h /\ Within(q, w, x)
  BY DEF InArena
<1>2. flen \in Nat /\ es[s].name \in Name \ BadName /\ Owns(fb, flen, fo, rs, Living(es), es, s)
  BY <1>1, KeptNames
<1>3. m \in Nat /\ \A j \in 1..m : w[j] # Fence
  BY <1>2, NameBytes, Zenon
<1>4. /\ off \in Nat /\ off > 0 /\ off + m + 1 <= flen /\ fb[off] = Fence /\ fb[off + m + 1] = Fence
      /\ \A j \in 1..m : fb[off + j] = w[j]
      /\ \E r \in 1..Len(rs) : rs[r].slot = s /\ rs[r].off = off /\ EndOf(rs, flen, r) = off + m + 1
  BY <1>2, Zenon DEF Owns
<1>5. l \in Nat /\ l > 0
  OBVIOUS
<1>6. x \in Nat /\ x + l <= m /\ \A j \in 1..l : w[x + j] = q[j]
  BY <1>1, Zenon DEF Within
<1> HIDE DEF fb, flen, fo, rs, w, m, l, off
<1>7. /\ h = off + x /\ h + l <= off + m /\ h + l <= flen /\ h > 0
      /\ \A j \in 1..l : x + j \in 1..m /\ h + j = off + (x + j)
  <2>1. h = off + x
    BY <1>1, <1>4
  <2> HIDE DEF x
  <2>2. h + l <= off + m /\ h > 0
    BY <1>1, <1>3, <1>4, <1>5, <1>6, <2>1
  <2>4. h + l <= flen
    BY <1>1, <1>2, <1>3, <1>4, <1>5, <2>2
  <2>3. \A j \in 1..l : x + j \in 1..m /\ h + j = off + (x + j)
    BY <1>1, <1>3, <1>4, <1>5, <1>6, <2>1
  <2> QED
    BY <2>1, <2>2, <2>3, <2>4
<1> HIDE DEF x
<1>8. Within(q, fb, h)
  <2>1. \A j \in 1..l : fb[h + j] = q[j]
    <3> TAKE j \in 1..l
    <3>1. x + j \in 1..m /\ h + j = off + (x + j)
      BY <1>7
    <3>2. fb[off + (x + j)] = w[x + j] /\ w[x + j] = q[j]
      BY <1>4, <1>6, <3>1, Zenon
    <3> QED
      BY <3>1, <3>2
  <2> QED
    BY <1>1, <1>7, <2>1 DEF Within, l, flen
<1>9. fb[(h - 1) + 1] = Fence <=> x = 0
  <2>1. (h - 1) + 1 = h
    BY <1>1
  <2>2. CASE x = 0
    BY <1>4, <1>7, <2>1, <2>2
  <2>3. CASE x # 0
    <3>1. x \in 1..m
      BY <1>3, <1>5, <1>6, <2>3
    <3>2. fb[off + x] = w[x] /\ w[x] # Fence
      BY <1>3, <1>4, <3>1, Zenon
    <3> QED
      BY <1>7, <2>1, <2>3, <3>2
  <2> QED
    BY <2>2, <2>3
<1>10. fb[(h + l) + 1] = Fence <=> x + l = m
  <2>1. CASE x + l = m
    <3>1. (h + l) + 1 = off + m + 1
      BY <1>1, <1>3, <1>4, <1>5, <1>6, <1>7, <2>1
    <3> QED
      BY <1>4, <2>1, <3>1
  <2>2. CASE x + l # m
    <3> DEFINE j == (x + l) + 1
    <3>1. j \in 1..m /\ (h + l) + 1 = off + j
      <4>1. x + l < m
        BY <1>3, <1>5, <1>6, <2>2
      <4>2. h = off + x
        BY <1>7
      <4>3. j \in Nat /\ j > 0 /\ j <= m
        BY <1>3, <1>5, <1>6, <4>1
      <4>4. (h + l) + 1 = off + j
        BY <1>1, <1>4, <1>5, <1>6, <4>2
      <4> QED
        BY <1>3, <4>3, <4>4
    <3> HIDE DEF j
    <3>2. fb[off + j] = w[j] /\ w[j] # Fence
      BY <1>3, <1>4, <3>1, Zenon
    <3> QED
      BY <2>2, <3>1, <3>2
  <2> QED
    BY <2>1, <2>2
<1>11. Fences(c, es, q, h, s)
  BY <1>9, <1>10 DEF Fences, At, fb, fo, off, x, l, w, m
<1>12. \E r : OfRecord(rs, flen, h, r) /\ rs[r].slot = s /\ rs[r].off = off /\ EndOf(rs, flen, r) = off + m + 1
  <2>1. PICK r \in 1..Len(rs) : rs[r].slot = s /\ rs[r].off = off /\ EndOf(rs, flen, r) = off + m + 1
    BY <1>4
  <2>2. h < off + m + 1
    BY <1>1, <1>3, <1>4, <1>5, <1>7
  <2>3. OfRecord(rs, flen, h, r)
    BY <1>1, <2>1, <2>2 DEF OfRecord
  <2> QED
    BY <2>1, <2>3
<1> QED
  BY <1>8, <1>11, <1>12 DEF fb, flen, fo, rs, w, m, off

\* Two hits that share a byte are of one file.
LEMMA HitsOfOne ==
  ASSUME NEW c, NEW es \in Seq(Entry), Kept(c, es), NEW q \in Seq(Nat \ {Fence}), Len(q) > 0,
         NEW g, NEW t, InArena(c, es, q, g, t), NEW h, NEW s, InArena(c, es, q, h, s),
         g <= h, h < g + Len(q)
  PROVE  s = t
<1> DEFINE flen == Len(c.folded)
           rs == c.recs
           a == c.folded_off[t]
           m == Len(Folded[es[t].name])
           l == Len(q)
<1>1. PICK r : OfRecord(rs, flen, h, r) /\ rs[r].slot = s
  BY InsideHit
<1>2. PICK p : OfRecord(rs, flen, g, p) /\ rs[p].slot = t /\ rs[p].off = a /\ EndOf(rs, flen, p) = a + m + 1
  BY InsideHit
<1>3. Records(c.folded, flen, rs) /\ flen \in Nat
  BY KeptNames
<1>4. t \in Living(es) /\ g \in Nat /\ h \in Nat /\ a <= g /\ (g - a) + l <= m /\ g < g + l
  <2>1. t \in Living(es) /\ g \in Nat /\ h \in Nat /\ a <= g /\ Within(q, Folded[es[t].name], g - a)
    BY DEF InArena
  <2>2. (g - a) + l <= m
    BY <2>1 DEF Within
  <2>3. l \in Nat /\ l > 0
    OBVIOUS
  <2> HIDE DEF l, a
  <2> QED
    BY <2>1, <2>2, <2>3
<1>5. a \in Nat /\ m \in Nat /\ l \in Nat
  <2>1. es[t].name \in Name \ BadName /\ Owns(c.folded, flen, c.folded_off, rs, Living(es), es, t)
    BY <1>4, KeptNames
  <2>2. a \in Nat
    BY <2>1 DEF Owns
  <2>3. m \in Nat
    BY <2>1, NameBytes
  <2>4. l \in Nat
    OBVIOUS
  <2> QED
    BY <2>2, <2>3, <2>4
<1>6. h < g + l
  OBVIOUS
<1> HIDE DEF flen, rs, a, m, l
<1>7. h < a + m + 1 /\ a <= h
  BY <1>4, <1>5, <1>6
<1>8. OfRecord(rs, flen, h, p)
  BY <1>2, <1>7 DEF OfRecord
<1>9. r = p
  BY <1>1, <1>3, <1>4, <1>8, OneRecord
<1> QED
  BY <1>1, <1>2, <1>9

\* The walk from the owner finds the file of a hit.
LEMMA HitSlot ==
  ASSUME NEW c, entries \in Seq(Entry), Kept(c, entries), NEW q \in Seq(Nat \ {Fence}), Len(q) > 0,
         NEW h, NEW s, InArena(c, entries, q, h, s)
  PROVE  SlotAt(c, h) = s
<1> DEFINE flen == Len(c.folded)
<1>1. PICK r : OfRecord(c.recs, flen, h, r) /\ c.recs[r].slot = s /\ c.recs[r].off = c.folded_off[s]
  BY InsideHit
<1>2. Records(c.folded, flen, c.recs) /\ flen \in Nat /\ flen = Len(c.folded) /\ Owned(c)
  BY KeptNames, Zenon DEF Kept
<1>3. h \in Nat /\ ~entries[s].dead
  BY DEF InArena, Living
<1> HIDE DEF flen
<1>4. SlotAt(c, h) = IF c.recs[r].off = c.folded_off[c.recs[r].slot] /\ ~entries[c.recs[r].slot].dead
                     THEN c.recs[r].slot ELSE 0
  BY <1>1, <1>2, <1>3, SlotAtRecord, Zenon
<1> QED
  BY <1>1, <1>3, <1>4

-----------------------------------------------------------------------------
(* The search by name.                                                     *)

\* The tier of a query found in a name at x.
TierAt(q, w, x) == IF x # 0 THEN "inner" ELSE IF x + Len(q) = Len(w) THEN "exact" ELSE "prefix"
NameOf(s) == Folded[entries[s].name]

\* What Pass A offers: live files that hold the query, at their tiers, and one that
\* meets each place it is at.
PassOffers(q) ==
  /\ \A o \in ArenaPass(q) : \E s \in LiveSlot : \E x \in Nat :
       Within(q, NameOf(s), x) /\ o = <<s, TierAt(q, NameOf(s), x)>>
  /\ \A s \in LiveSlot : \A x \in Nat : Within(q, NameOf(s), x) =>
       \E y \in Nat : /\ y <= x /\ x < y + Len(q) /\ Within(q, NameOf(s), y)
                      /\ <<s, TierAt(q, NameOf(s), y)>> \in ArenaPass(q)

\* What the pass over the arena offers, and what it may skip: an overlapped place.
LEMMA PassFacts ==
  ASSUME ArenaInv, NEW q \in Seq(Nat \ {Fence}), Len(q) > 0
  PROVE  PassOffers(q)
<1> DEFINE fb == cols.folded
           flen == Len(fb)
           fo == cols.folded_off
           es == entries
           hits == ScanHits(fb, q)
           l == Len(q)
           wide == IF cols.tri THEN 3 ELSE 2
           Cl(h) == Classify(At(fb, h - 1), At(fb, h + l))
           open == MayContain(cols.grams, q, wide)
<1>1. Kept(cols, es) /\ es \in Seq(Entry) /\ LiveSlot = Living(es)
  BY DEF ArenaInv, SlotInv, SlotTypeOK, LiveSlot, Living, Slot
<1>2. fb \in Seq(Nat) /\ flen \in Nat /\ \A s \in Living(es) : es[s].name \in Name \ BadName
  BY <1>1, KeptNames
<1>3. q \in Seq(Nat) /\ l \in Nat /\ l > 0
  OBVIOUS
<1>4. Covers(fb, q, 0, flen, hits)
  BY <1>2, <1>3, ScanCovers
<1>5. ArenaPass(q) = IF open THEN {<<SlotAt(cols, h), Cl(h)>> : h \in hits} ELSE {}
  BY DEF ArenaPass
<1>6. \A h : Spot(fb, q, h) <=> Within(q, fb, h)
  BY <1>2, <1>3, SpotWithin
<1> HIDE DEF open, Cl, hits, wide, fb, flen, l
\* A hit is of one file, whose name it is in, at the tier of its place there.
<1>7. ASSUME NEW h \in hits
      PROVE  \E s \in LiveSlot : LET x == h - fo[s]
                                 IN  /\ InArena(cols, es, q, h, s) /\ x \in Nat /\ Within(q, NameOf(s), x)
                                     /\ <<SlotAt(cols, h), Cl(h)>> = <<s, TierAt(q, NameOf(s), x)>>
  <2>1. Within(q, fb, h)
    BY <1>4, <1>6, <1>7 DEF Covers
  <2>2. PICK s \in Living(es) : InArena(cols, es, q, h, s)
    BY <1>1, <1>3, <2>1, HitInside, Zenon DEF fb, l
  <2>3. Fences(cols, es, q, h, s)
    BY <1>1, <1>3, <2>2, InsideHit DEF l
  <2>4. SlotAt(cols, h) = s
    BY <1>1, <1>3, <2>2, HitSlot DEF l
  <2> DEFINE x == h - fo[s]
  <2>5. Within(q, NameOf(s), x)
    BY <2>2 DEF InArena, NameOf
  <2>6. x \in Nat
    BY <2>5 DEF Within
  <2>7. Cl(h) = TierAt(q, NameOf(s), x)
    BY <2>3 DEF Cl, Classify, TierAt, Fences, NameOf, fb, l
  <2> QED
    BY <1>1, <2>2, <2>4, <2>5, <2>6, <2>7
<1>8. ASSUME NEW o \in ArenaPass(q)
      PROVE  \E s \in LiveSlot : \E x \in Nat :
               Within(q, NameOf(s), x) /\ o = <<s, TierAt(q, NameOf(s), x)>>
  <2>1. PICK h \in hits : o = <<SlotAt(cols, h), Cl(h)>>
    BY <1>5, <1>8
  <2> QED
    BY <1>7, <2>1
<1>9. ASSUME NEW s \in LiveSlot, NEW x \in Nat, Within(q, NameOf(s), x)
      PROVE  \E y \in Nat : /\ y <= x /\ x < y + l /\ Within(q, NameOf(s), y)
                            /\ <<s, TierAt(q, NameOf(s), y)>> \in ArenaPass(q)
  <2> DEFINE w == NameOf(s)
             h == fo[s] + x
  <2>1. es[s].name \in Name \ BadName /\ w \in Seq(Nat) /\ s \in Living(es)
    <3>1. es[s].name \in Name \ BadName /\ s \in Living(es)
      BY <1>1, <1>2
    <3>2. w \in Seq(Nat \ {Fence})
      BY <3>1, NameBytes DEF NameOf
    <3>3. w \in Seq(Nat)
      <4> HIDE DEF w
      <4> QED
        BY <3>2
    <3> QED
      BY <3>1, <3>3
  <2>2. fo[s] \in Nat
    BY <1>1, <2>1, KeptNames DEF Owns
  <2>3. open
    <3>1. Grams(w, wide) \subseteq cols.grams
      BY <1>1, <2>1 DEF Kept, Seen, wide, NameOf
    <3>2. wide \in Nat
      BY DEF wide
    <3> HIDE DEF w
    <3>3. Within(q, w, x)
      BY <1>9 DEF w
    <3> QED
      BY <1>3, <2>1, <3>1, <3>2, <3>3, GateOpens DEF open
  <2>4. InArena(cols, es, q, h, s)
    <3>1. h \in Nat /\ fo[s] <= h /\ h - fo[s] = x
      BY <2>2
    <3> QED
      BY <1>9, <2>1, <3>1 DEF InArena, NameOf
  <2>5. Within(q, fb, h)
    BY <1>1, <1>3, <2>4, InsideHit, Zenon DEF fb, l
  <2>6. Spot(fb, q, h) /\ h \in Nat /\ 0 <= h /\ h + l <= flen
    <3> HIDE DEF h
    <3>1. h \in Nat /\ h + l <= flen
      BY <2>5 DEF Within, l, flen
    <3> QED
      BY <1>6, <2>5, <3>1
  <2>7. PICK g \in hits : g <= h /\ h < g + l
    BY <1>4, <2>6 DEF Covers, l
  <2>8. PICK t \in LiveSlot : /\ InArena(cols, es, q, g, t) /\ g - fo[t] \in Nat /\ Within(q, NameOf(t), g - fo[t])
                              /\ <<SlotAt(cols, g), Cl(g)>> = <<t, TierAt(q, NameOf(t), g - fo[t])>>
    BY <1>7
  <2>9. t = s
    <3> HIDE DEF h
    <3> QED
      BY <1>1, <1>3, <2>4, <2>7, <2>8, HitsOfOne, Zenon DEF l
  <2> DEFINE y == g - fo[s]
  <2>10. y \in Nat /\ Within(q, NameOf(s), y) /\ <<SlotAt(cols, g), Cl(g)>> = <<s, TierAt(q, NameOf(s), y)>>
    BY <2>8, <2>9
  <2>11. y <= x /\ x < y + l
    <3>1. g \in Nat
      BY <2>8 DEF InArena
    <3>2. g <= fo[s] + x /\ fo[s] + x < g + l
      BY <2>7
    <3> QED
      BY <1>3, <2>2, <3>1, <3>2
  <2>12. <<SlotAt(cols, g), Cl(g)>> \in ArenaPass(q)
    BY <1>5, <2>3
  <2> QED
    BY <2>10, <2>11, <2>12, Zenon
<1> QED
  BY <1>8, <1>9 DEF PassOffers, l

\* The head column answers for the first byte of a live name only.
HeadOffers(q) ==
  \A o : o \in HeadPass(q) <=>
    \E s \in LiveSlot : NameOf(s)[1] = q[1] /\ o = <<s, IF Len(NameOf(s)) = 1 THEN "exact" ELSE "prefix">>

\* What the pass over the heads offers for a query of one byte.
LEMMA HeadFacts ==
  ASSUME ArenaInv, NEW q \in Seq(Nat \ {Fence}), Len(q) > 0
  PROVE  HeadOffers(q)
<1> DEFINE es == entries
           T == {t \in 1..Rows(cols) : cols.head[t][1] = q[1]}
           Tier(s) == IF cols.head[s][2] = Fence THEN "exact" ELSE "prefix"
<1>1. Kept(cols, es) /\ es \in Seq(Entry) /\ LiveSlot = Living(es)
  BY DEF ArenaInv, SlotInv, SlotTypeOK, LiveSlot, Living, Slot
<1>2. Rows(cols) = Len(es) /\ Columned(cols, es) /\ \A s \in Living(es) : es[s].name \in Name \ BadName
  BY <1>1, KeptNames, Zenon DEF Kept, Rowed, Rows
<1>3. q[1] # Fence
  <2>1. Len(q) \in Nat /\ Len(q) > 0
    OBVIOUS
  <2>2. 1 \in 1..Len(q)
    BY <2>1
  <2> QED
    BY <2>2
<1>4. HeadPass(q) = {<<s, Tier(s)>> : s \in T}
  BY DEF HeadPass
<1>5. ASSUME NEW s \in Living(es)
      PROVE  /\ cols.head[s][1] = NameOf(s)[1] /\ s \in 1..Rows(cols)
             /\ Tier(s) = IF Len(NameOf(s)) = 1 THEN "exact" ELSE "prefix"
  <2> DEFINE w == NameOf(s)
             m == Len(w)
  <2>1. m \in Nat /\ m > 0 /\ \A j \in 1..m : w[j] # Fence
    BY <1>2, <1>5, NameBytes, Zenon DEF NameOf
  <2>2. cols.head[s] = <<w[1], IF m > 1 THEN w[2] ELSE Fence>>
    BY <1>2, <1>5 DEF Columned, HeadPair, NameOf
  <2> HIDE DEF w, m
  <2>3. cols.head[s][1] = w[1] /\ cols.head[s][2] = IF m > 1 THEN w[2] ELSE Fence
    BY <2>2
  <2>4. (IF m > 1 THEN w[2] ELSE Fence) = Fence <=> m = 1
    <3>1. CASE m > 1
      <4>1. 2 \in 1..m /\ m # 1
        BY <2>1, <3>1
      <4> QED
        BY <2>1, <3>1, <4>1
    <3>2. CASE ~(m > 1)
      <4>1. m = 1
        BY <2>1, <3>2
      <4> QED
        BY <3>2, <4>1
    <3> QED
      BY <3>1, <3>2
  <2>5. s \in 1..Rows(cols)
    BY <1>2, <1>5 DEF Living
  <2> QED
    BY <2>3, <2>4, <2>5 DEF w, m
<1>6. \A s : s \in T <=> (s \in Living(es) /\ NameOf(s)[1] = q[1])
  <2> TAKE s
  <2>1. ASSUME s \in T PROVE s \in Living(es)
    <3>1. s \in 1..Len(es) /\ cols.head[s][1] = q[1]
      BY <1>2, <2>1
    <3>2. es[s].dead => cols.head[s] = <<Fence, Fence>>
      BY <1>2, <3>1 DEF Columned
    <3>3. ~es[s].dead
      BY <1>3, <3>1, <3>2
    <3> QED
      BY <3>1, <3>3 DEF Living
  <2>2. s \in Living(es) => (s \in T <=> NameOf(s)[1] = q[1])
    BY <1>5
  <2> QED
    BY <2>1, <2>2
<1> HIDE DEF T, Tier
<1> SUFFICES ASSUME NEW o
             PROVE  o \in HeadPass(q) <=>
                      \E s \in LiveSlot : /\ NameOf(s)[1] = q[1]
                                          /\ o = <<s, IF Len(NameOf(s)) = 1 THEN "exact" ELSE "prefix">>
  BY DEF HeadOffers
<1>7. o \in HeadPass(q) <=> \E s \in T : o = <<s, Tier(s)>>
  BY <1>4
<1>8. ASSUME NEW s \in T, o = <<s, Tier(s)>>
      PROVE  \E t \in LiveSlot : NameOf(t)[1] = q[1] /\ o = <<t, IF Len(NameOf(t)) = 1 THEN "exact" ELSE "prefix">>
  BY <1>1, <1>5, <1>6, <1>8
<1>9. ASSUME NEW s \in LiveSlot, NameOf(s)[1] = q[1], o = <<s, IF Len(NameOf(s)) = 1 THEN "exact" ELSE "prefix">>
      PROVE  \E t \in T : o = <<t, Tier(t)>>
  BY <1>1, <1>5, <1>6, <1>9
<1> QED
  BY <1>7, <1>8, <1>9

\* Every offer is a live file's, for a place the query is at.
OffersAre(q) ==
  \A o \in NameOffers(q) : \E s \in LiveSlot : \E x \in Nat :
    Within(q, NameOf(s), x) /\ o = <<s, TierAt(q, NameOf(s), x)>>

\* No file that holds the query is missed, nor the start of its name.
OffersReach(q) ==
  \A s \in LiveSlot : \A x \in Nat : Within(q, NameOf(s), x) =>
    \E y \in Nat : y <= x /\ Within(q, NameOf(s), y) /\ <<s, TierAt(q, NameOf(s), y)>> \in NameOffers(q)

\* The two scans together offer only matches, and the best tier of each.
LEMMA OfferFacts ==
  ASSUME NEW q \in Seq(Nat \ {Fence}), Len(q) > 0, PassOffers(q), HeadOffers(q), entries \in Seq(Entry),
         \A s \in LiveSlot : 0 < Len(NameOf(s)) /\ Len(NameOf(s)) \in Nat
  PROVE  OffersAre(q) /\ OffersReach(q)
<1> DEFINE l == Len(q)
           pass == ArenaPass(q)
           head == HeadPass(q)
           Kind(s) == IF Len(NameOf(s)) = 1 THEN "exact" ELSE "prefix"
<1>1. l \in Nat /\ l > 0
  OBVIOUS
<1>2. NameOffers(q) = {o \in pass : o[1] # 0 /\ (l = 1 => o[2] = "inner")} \cup (IF l = 1 THEN head ELSE {})
  BY DEF NameOffers
<1>3. /\ \A o \in pass : \E s \in LiveSlot : \E x \in Nat :
           Within(q, NameOf(s), x) /\ o = <<s, TierAt(q, NameOf(s), x)>>
      /\ \A s \in LiveSlot : \A x \in Nat : Within(q, NameOf(s), x) =>
           \E y \in Nat : /\ y <= x /\ x < y + l /\ Within(q, NameOf(s), y)
                          /\ <<s, TierAt(q, NameOf(s), y)>> \in pass
  BY DEF PassOffers
<1>4. \A o : o \in head <=> \E s \in LiveSlot : NameOf(s)[1] = q[1] /\ o = <<s, Kind(s)>>
  BY DEF HeadOffers
<1>5. \A s \in LiveSlot : s # 0
  <2>1. Len(entries) \in Nat
    OBVIOUS
  <2> QED
    BY <2>1 DEF LiveSlot, Slot
<1>n. \A s \in LiveSlot : l = 1 => /\ Within(q, NameOf(s), 0) <=> NameOf(s)[1] = q[1] /\ 1 <= Len(NameOf(s))
                                   /\ TierAt(q, NameOf(s), 0) = Kind(s)
  <2> TAKE s \in LiveSlot
  <2> HAVE l = 1
  <2> DEFINE w == NameOf(s)
             m == Len(w)
  <2>2. Within(q, w, 0) <=> (0 \in Nat /\ 0 + 1 <= m /\ \A j \in 1..1 : w[0 + j] = q[j])
    BY DEF Within
  <2>3. TierAt(q, w, 0) = IF 0 # 0 THEN "inner" ELSE IF 0 + 1 = m THEN "exact" ELSE "prefix"
    BY DEF TierAt
  <2>4. Kind(s) = IF m = 1 THEN "exact" ELSE "prefix"
    OBVIOUS
  <2> HIDE DEF w, m, Kind
  <2>5. 1..1 = {1} /\ 0 + 1 = 1 /\ 0 \in Nat
    OBVIOUS
  <2>6. Within(q, w, 0) <=> w[1] = q[1] /\ 1 <= m
    BY <2>2, <2>5
  <2>7. TierAt(q, w, 0) = Kind(s)
    BY <2>3, <2>4, <2>5
  <2> QED
    BY <2>6, <2>7 DEF w, m
<1> HIDE DEF l, pass, head
<1>6. ASSUME NEW o \in NameOffers(q)
      PROVE  \E s \in LiveSlot : \E x \in Nat : Within(q, NameOf(s), x) /\ o = <<s, TierAt(q, NameOf(s), x)>>
  <2>1. CASE o \in pass
    BY <1>3, <2>1
  <2>2. CASE l = 1 /\ o \in head
    <3>1. PICK s \in LiveSlot : NameOf(s)[1] = q[1] /\ o = <<s, Kind(s)>>
      BY <1>4, <2>2
    <3>2. 1 <= Len(NameOf(s))
      OBVIOUS
    <3>3. Within(q, NameOf(s), 0) /\ TierAt(q, NameOf(s), 0) = Kind(s)
      BY <1>n, <2>2, <3>1, <3>2
    <3> QED
      BY <3>1, <3>3
  <2> QED
    BY <1>2, <2>1, <2>2
<1>7. ASSUME NEW s \in LiveSlot, NEW x \in Nat, Within(q, NameOf(s), x)
      PROVE  \E y \in Nat : /\ y <= x /\ Within(q, NameOf(s), y)
                            /\ <<s, TierAt(q, NameOf(s), y)>> \in NameOffers(q)
  <2>1. PICK y \in Nat : /\ y <= x /\ x < y + l /\ Within(q, NameOf(s), y)
                         /\ <<s, TierAt(q, NameOf(s), y)>> \in pass
    BY <1>3, <1>7
  <2> DEFINE o == <<s, TierAt(q, NameOf(s), y)>>
  <2>2. o[1] # 0 /\ o[2] = TierAt(q, NameOf(s), y)
    BY <1>5
  <2>3. CASE l # 1
    <3>1. o \in NameOffers(q)
      BY <1>2, <2>1, <2>2, <2>3
    <3> QED
      BY <2>1, <3>1, Zenon
  <2>4. CASE l = 1 /\ y # 0
    <3>1. o[2] = "inner"
      BY <2>2, <2>4 DEF TierAt
    <3>2. o \in NameOffers(q)
      BY <1>2, <2>1, <2>2, <3>1
    <3> QED
      BY <2>1, <3>2, Zenon
  <2>5. CASE l = 1 /\ y = 0
    <3>1. NameOf(s)[1] = q[1] /\ o = <<s, Kind(s)>>
      BY <1>n, <2>1, <2>5
    <3> HIDE DEF o, Kind
    <3>2. o \in head
      BY <1>4, <3>1
    <3>3. o \in NameOffers(q)
      BY <1>2, <2>5, <3>2
    <3> QED
      BY <2>1, <3>3, Zenon DEF o
  <2> QED
    BY <2>3, <2>4, <2>5, Zenon
<1> QED
  BY <1>6, <1>7 DEF OffersAre, OffersReach

\* A file's tier is the best it was offered at.
LEMMA TierFacts ==
  ASSUME NEW q \in Seq(Nat), OffersAre(q), OffersReach(q), NEW s \in LiveSlot, NameOf(s) \in Seq(Nat),
         NEW z \in Nat, Within(q, NameOf(s), z)
  PROVE  BestOf(NameOffers(q), s) = TierOf(q, NameOf(s))
<1> DEFINE w == NameOf(s)
           offers == NameOffers(q)
           l == Len(q)
           m == Len(w)
<1>1. l \in Nat /\ m \in Nat
  OBVIOUS
<1>2. (w = q <=> Within(q, w, 0) /\ m = l) /\ (IsPrefix(q, w) <=> Within(q, w, 0))
  BY WholeWithin
<1>3. \A o \in offers : \E t \in LiveSlot : \E x \in Nat : Within(q, NameOf(t), x) /\ o = <<t, TierAt(q, NameOf(t), x)>>
  BY DEF OffersAre
<1>4. \A tier : <<s, tier>> \in offers => \E x \in Nat : Within(q, w, x) /\ tier = TierAt(q, w, x)
  BY <1>3
<1>5. \A x : TierAt(q, w, x) = IF x # 0 THEN "inner" ELSE IF x + l = m THEN "exact" ELSE "prefix"
  BY DEF TierAt
<1>6. Within(q, w, 0) => <<s, TierAt(q, w, 0)>> \in offers
  <2> HAVE Within(q, w, 0)
  <2>1. PICK y \in Nat : y <= 0 /\ <<s, TierAt(q, w, y)>> \in offers
    BY DEF OffersReach
  <2>2. y = 0
    BY <2>1
  <2> QED
    BY <2>1, <2>2
<1>7. BestOf(offers, s) = IF <<s, "exact">> \in offers THEN "exact"
                          ELSE IF <<s, "prefix">> \in offers THEN "prefix" ELSE "inner"
  BY DEF BestOf
<1>8. TierOf(q, w) = IF w = q THEN "exact" ELSE IF IsPrefix(q, w) THEN "prefix" ELSE "inner"
  BY DEF TierOf
<1> HIDE DEF w, offers, l, m
<1>9. 0 + l = m <=> m = l
  BY <1>1
<1>10. <<s, "exact">> \in offers <=> w = q
  <2>1. ASSUME <<s, "exact">> \in offers PROVE w = q
    <3>1. PICK x \in Nat : Within(q, w, x) /\ "exact" = TierAt(q, w, x)
      BY <1>4, <2>1
    <3>2. x = 0 /\ x + l = m
      BY <1>5, <3>1
    <3> QED
      BY <1>2, <1>9, <3>1, <3>2
  <2>2. ASSUME w = q PROVE <<s, "exact">> \in offers
    <3>1. TierAt(q, w, 0) = "exact"
      BY <1>2, <1>5, <1>9, <2>2
    <3> QED
      BY <1>2, <1>6, <2>2, <3>1, Zenon
  <2> QED
    BY <2>1, <2>2
<1>11. w # q => (<<s, "prefix">> \in offers <=> IsPrefix(q, w))
  <2> HAVE w # q
  <2>1. ASSUME <<s, "prefix">> \in offers PROVE Within(q, w, 0)
    <3>1. PICK x \in Nat : Within(q, w, x) /\ "prefix" = TierAt(q, w, x)
      BY <1>4, <2>1
    <3>2. x = 0
      BY <1>5, <3>1, Zenon
    <3> QED
      BY <3>1, <3>2
  <2>2. ASSUME Within(q, w, 0) PROVE <<s, "prefix">> \in offers
    <3>1. TierAt(q, w, 0) = "prefix"
      BY <1>2, <1>5, <1>9, <2>2
    <3> QED
      BY <1>6, <2>2, <3>1, Zenon
  <2> QED
    BY <1>2, <2>1, <2>2
<1>12. BestOf(offers, s) = TierOf(q, w)
  BY <1>7, <1>8, <1>10, <1>11
<1> QED
  BY <1>12 DEF offers, w

\* The search by name is exact.
LEMMA NamesFound == ArenaInv => NameSearchExact
<1> SUFFICES ASSUME ArenaInv, NEW q \in Query
             PROVE  LET offers == NameOffers(q)
                        offered == {o[1] : o \in offers}
                    IN  /\ offered = {s \in LiveSlot : Occurs(q, Folded[entries[s].name])}
                        /\ \A s \in offered : BestOf(offers, s) = TierOf(q, Folded[entries[s].name])
  BY DEF NameSearchExact
<1> DEFINE offers == NameOffers(q)
           offered == {o[1] : o \in offers}
           wanted == {s \in LiveSlot : Occurs(q, NameOf(s))}
<1>1. q \in Seq(Nat \ {Fence}) /\ q # <<>> /\ q \in Seq(Nat)
  BY ArenaAssumption
<1>2. Len(q) > 0
  BY <1>1
<1>3. Kept(cols, entries) /\ entries \in Seq(Entry) /\ LiveSlot = Living(entries)
  BY DEF ArenaInv, SlotInv, SlotTypeOK, LiveSlot, Living, Slot
<1>4. \A s \in LiveSlot : NameOf(s) \in Seq(Nat) /\ 0 < Len(NameOf(s)) /\ Len(NameOf(s)) \in Nat
  <2> TAKE s \in LiveSlot
  <2>1. entries[s].name \in Name \ BadName
    BY <1>3, KeptNames
  <2> DEFINE w == NameOf(s)
  <2>2. w \in Seq(Nat \ {Fence}) /\ Len(w) > 0 /\ Len(w) \in Nat
    BY <2>1, NameBytes DEF NameOf
  <2> HIDE DEF w
  <2>3. w \in Seq(Nat) /\ 0 < Len(w) /\ Len(w) \in Nat
    BY <2>2
  <2> QED
    BY <2>3 DEF w
<1>5. PassOffers(q) /\ HeadOffers(q)
  BY <1>1, <1>2, PassFacts, HeadFacts
<1>6. OffersAre(q) /\ OffersReach(q)
  BY <1>1, <1>2, <1>3, <1>4, <1>5, OfferFacts, Zenon
<1>7. \A s \in LiveSlot : Occurs(q, NameOf(s)) <=> \E x \in Nat : Within(q, NameOf(s), x)
  BY <1>1, <1>4, OccursWithin
<1> HIDE DEF offers
<1>8. ASSUME NEW s \in offered PROVE s \in wanted
  <2>1. PICK o \in offers : s = o[1]
    BY <1>8
  <2>2. PICK t \in LiveSlot, x \in Nat : Within(q, NameOf(t), x) /\ o = <<t, TierAt(q, NameOf(t), x)>>
    BY <1>6, <2>1 DEF OffersAre, offers
  <2>3. s = t
    BY <2>1, <2>2
  <2> QED
    BY <1>7, <2>2, <2>3
<1>9. ASSUME NEW s \in wanted PROVE s \in offered
  <2>1. PICK x \in Nat : Within(q, NameOf(s), x)
    BY <1>7, <1>9
  <2>2. PICK y \in Nat : <<s, TierAt(q, NameOf(s), y)>> \in offers
    BY <1>6, <1>9, <2>1 DEF OffersReach, offers
  <2>3. <<s, TierAt(q, NameOf(s), y)>>[1] = s
    OBVIOUS
  <2> QED
    BY <2>2, <2>3
<1>10. ASSUME NEW s \in offered PROVE BestOf(offers, s) = TierOf(q, NameOf(s))
  <2>1. s \in LiveSlot /\ Occurs(q, NameOf(s))
    BY <1>8, <1>10
  <2>2. PICK x \in Nat : Within(q, NameOf(s), x)
    BY <1>7, <2>1
  <2> QED
    BY <1>1, <1>4, <1>6, <2>1, <2>2, TierFacts DEF offers
<1>11. offered = wanted
  BY <1>8, <1>9
<1> QED
  BY <1>10, <1>11 DEF offers, NameOf

-----------------------------------------------------------------------------
(* The search by initials.                                                 *)

\* A byte of a lane is in that lane.
LEMMA LaneOf ==
  ASSUME NEW a \in Nat, NEW b \in 0..(LaneWidth - 1)
  PROVE  (LaneWidth * a + b) \div LaneWidth = a /\ (LaneWidth * a + b) % LaneWidth = b
<1>1. LaneWidth \in Nat \ {0}
  BY ArenaAssumption
<1> QED
  BY <1>1

\* Every place of the column is a lane and a byte of it.
LEMMA LaneParts ==
  ASSUME NEW h \in Nat
  PROVE  /\ h \div LaneWidth \in Nat /\ h % LaneWidth \in 0..(LaneWidth - 1)
         /\ h = LaneWidth * (h \div LaneWidth) + (h % LaneWidth)
<1>1. LaneWidth \in Nat \ {0}
  BY ArenaAssumption
<1> QED
  BY <1>1

\* The bytes after h that fit its lane are of that lane.
LEMMA InLane ==
  ASSUME NEW h \in Nat, NEW k \in Nat, (h % LaneWidth) + k < LaneWidth
  PROVE  (h + k) \div LaneWidth = h \div LaneWidth /\ (h + k) % LaneWidth = (h % LaneWidth) + k
<1> DEFINE a == h \div LaneWidth
           b == h % LaneWidth
           d == b + k
           z == LaneWidth * a
<1>1. LaneWidth \in Nat
  BY ArenaAssumption
<1>2. a \in Nat /\ b \in 0..(LaneWidth - 1) /\ h = z + b
  BY LaneParts
<1>z. z \in Nat
  <2> HIDE DEF a
  <2> QED
    BY <1>1, <1>2
<1>3. d = b + k /\ b + k < LaneWidth
  OBVIOUS
<1> HIDE DEF b, d, z
<1>4. d \in 0..(LaneWidth - 1) /\ h + k = z + d
  BY <1>1, <1>2, <1>3, <1>z
<1> HIDE DEF a
<1>5. (LaneWidth * a + d) \div LaneWidth = a /\ (LaneWidth * a + d) % LaneWidth = d
  BY <1>2, <1>4, LaneOf
<1> QED
  BY <1>3, <1>4, <1>5 DEF a, b, z

\* The lanes holding q, each from some place in it.
InOneLane(col, q, h) == Spot(col, q, h) /\ (h % LaneWidth) + Len(q) <= LaneWidth
LanesHold(col, q, x, found) ==
  /\ \A r \in found : \E h \in Nat : InOneLane(col, q, h) /\ r = (h \div LaneWidth) + 1
  /\ \A h \in Nat : (InOneLane(col, q, h) /\ x <= h) => (h \div LaneWidth) + 1 \in found

\* The scan of the lanes hits each lane that holds the query, and no other.
LEMMA LaneScan ==
  ASSUME NEW col \in Seq(Nat), NEW q \in Seq(Nat), Len(q) > 0
  PROVE  LanesHold(col, q, 0, LaneHits(col, q))
<1> DEFINE l == Len(q)
           len == Len(col)
           W == LaneWidth
           D == 0..len
           Occ(x) == Occurrences(col, q, x, len)
           Hit(x) == Min(Occ(x))
           Over(x) == (Hit(x) % W) + l > W
           Lane1(x) == (Hit(x) \div W) + 1
           Step(g, x) == IF Occ(x) = {} THEN {}
                         ELSE IF Over(x) THEN g[Hit(x) + 1] ELSE {Lane1(x)} \cup g[Hit(x) + l]
           Def(g) == [cu \in D |-> Step(g, cu)]
           from == CHOOSE h : h = Def(h)
           stop == {x \in D : Occ(x) = {}}
           own == [x \in D |-> IF Over(x) THEN {} ELSE {Lane1(x)}]
           next == [x \in D |-> IF Over(x) THEN Hit(x) + 1 ELSE Hit(x) + l]
<1>1. LaneHits(col, q) = from[0]
  BY DEF LaneHits
<1>2. l \in Nat /\ l > 0 /\ len \in Nat /\ W \in Nat \ {0}
  BY ArenaAssumption
<1> HIDE DEF l, len, from
<1>3. ASSUME NEW x \in D
      PROVE  /\ \A h \in Nat : h \in Occ(x) <=> (Spot(col, q, h) /\ x <= h /\ h + l <= len)
             /\ Occ(x) \in SUBSET Nat
             /\ Occ(x) # {} => Hit(x) \in Occ(x) /\ \A h \in Occ(x) : Hit(x) <= h
  <2>1. x \in Nat /\ len \in Nat /\ len <= Len(col)
    BY <1>2 DEF len
  <2>2. /\ \A h \in Nat : h \in Occ(x) <=> (Spot(col, q, h) /\ x <= h /\ h + l <= len)
        /\ Occ(x) \in SUBSET Nat
    BY <2>1, OccurrenceFacts DEF l
  <2> HIDE DEF Occ
  <2> QED
    BY <2>2, MinFacts
<1>s. \A h : Spot(col, q, h) => h \in Nat /\ h + l <= len
  BY Zenon DEF Spot, l, len
<1> HIDE DEF Occ
<1>4. ASSUME NEW x \in D, Occ(x) # {}
      PROVE  LET g == Hit(x)
             IN  /\ g \in Nat /\ Spot(col, q, g) /\ x <= g
                 /\ g + l \in (x + 1)..len /\ g + 1 \in (x + 1)..len
  <2> DEFINE g == Hit(x)
  <2>1. g \in Nat /\ g \in Occ(x)
    BY <1>3, <1>4
  <2> HIDE DEF g
  <2>2. Spot(col, q, g) /\ x <= g /\ g + l <= len
    BY <1>3, <2>1
  <2>3. g + l \in (x + 1)..len /\ g + 1 \in (x + 1)..len
    BY <1>2, <2>1, <2>2
  <2> QED
    BY <2>1, <2>2, <2>3 DEF g
<1> HIDE DEF Hit, Over, Lane1
<1>5. from = Def(from)
  <2>1. \A x \in D : x \notin stop => next[x] \in D
    <3> TAKE x \in D
    <3> HAVE x \notin stop
    <3>1. Hit(x) + l \in (x + 1)..len /\ Hit(x) + 1 \in (x + 1)..len
      BY <1>4
    <3>2. \A y \in (x + 1)..len : y \in D
      BY <1>2
    <3> QED
      BY <3>1, <3>2
  <2>2. PICK f : Gathers(D, stop, own, next, f)
    <3> HIDE DEF D, stop, own, next
    <3> QED
      BY <2>1, GatherExists, Zenon
  <2>3. f = [x \in D |-> IF x \in stop THEN {} ELSE own[x] \cup f[next[x]]]
    BY <2>2, Zenon DEF Gathers
  <2>4. \A x \in D : (IF x \in stop THEN {} ELSE own[x] \cup f[next[x]]) = Step(f, x)
    BY Zenon
  <2> HIDE DEF stop, own, next, Step, D
  <2>5. f = Def(f)
    BY <2>3, <2>4, Zenon
  <2> HIDE DEF Def
  <2> QED
    BY <2>5 DEF from
<1> HIDE DEF D
<1>6. \A x \in D : from[x] = Step(from, x)
  <2>1. \A x \in D : Def(from)[x] = Step(from, x)
    OBVIOUS
  <2> HIDE DEF Def, Step
  <2> QED
    BY <1>5, <2>1
<1> DEFINE P == {x \in D : LanesHold(col, q, x, from[x])}
           In(h) == InOneLane(col, q, h)
<1>i. \A h : In(h) <=> (Spot(col, q, h) /\ (h % W) + l <= W)
  BY DEF InOneLane, l
<1>7. ASSUME NEW x \in D, \A y \in (x + 1)..len : y \in P PROVE x \in P
  <2>0. x \in Nat /\ x <= len
    BY DEF D
  <2>1. CASE Occ(x) = {}
    <3>1. from[x] = {}
      BY <1>6, <2>1, Zenon
    <3>2. \A h \in Nat : ~(In(h) /\ x <= h)
      BY <1>3, <1>i, <1>s, <2>1
    <3> QED
      BY <3>1, <3>2 DEF LanesHold
  <2>2. CASE Occ(x) # {}
    <3> DEFINE g == Hit(x)
    <3>1. /\ g \in Nat /\ Spot(col, q, g) /\ x <= g
          /\ g + l \in (x + 1)..len /\ g + 1 \in (x + 1)..len
      BY <1>4, <2>2
    <3>2. \A h \in Nat : (In(h) /\ x <= h) => g <= h
      BY <1>3, <1>i, <1>s, <2>2
    <3>3. from[x] = IF Over(x) THEN from[g + 1] ELSE {Lane1(x)} \cup from[g + l]
      BY <1>6, <2>2
    <3>o. (Over(x) <=> (g % W) + l > W) /\ Lane1(x) = (g \div W) + 1
      BY Zenon DEF Over, Lane1
    <3>w. g % W \in Nat
      BY <3>1, LaneParts
    <3> HIDE DEF g
    <3>4. CASE Over(x)
      <4> DEFINE y == g + 1
      <4>1. LanesHold(col, q, y, from[y])
        BY <1>7, <3>1
      <4>2. \A h \in Nat : (In(h) /\ x <= h) => g + 1 <= h
        <5> TAKE h \in Nat
        <5> HAVE In(h) /\ x <= h
        <5>1. g <= h
          BY <3>2
        <5>2. g # h
          BY <1>2, <1>i, <3>4, <3>o, <3>w
        <5> QED
          BY <3>1, <5>1, <5>2
      <4> QED
        BY <3>3, <3>4, <4>1, <4>2 DEF LanesHold
    <3>5. CASE ~Over(x)
      <4> DEFINE y == g + l
      <4>1. LanesHold(col, q, y, from[y])
        BY <1>7, <3>1
      <4>2. (g % W) + l <= W /\ In(g)
        BY <1>2, <1>i, <3>1, <3>5, <3>o, <3>w
      <4>3. ASSUME NEW h \in Nat, In(h), x <= h PROVE (h \div W) + 1 \in from[x]
        <5>1. CASE y <= h
          BY <3>3, <3>5, <4>1, <4>3, <5>1 DEF LanesHold
        <5>2. CASE ~(y <= h)
          <6> DEFINE k == h - g
          <6>1. k \in Nat /\ k < l /\ g + k = h
            BY <1>2, <3>1, <3>2, <4>3, <5>2
          <6> HIDE DEF k
          <6>2. (g % W) + k < W
            BY <1>2, <3>w, <4>2, <6>1
          <6>3. (g + k) \div W = g \div W
            BY <3>1, <6>1, <6>2, InLane
          <6>4. (h \div W) + 1 = Lane1(x)
            BY <3>o, <6>1, <6>3
          <6> QED
            BY <3>3, <3>5, <6>4
        <5> QED
          BY <5>1, <5>2
      <4>4. ASSUME NEW r \in from[x] PROVE \E h \in Nat : In(h) /\ r = (h \div W) + 1
        <5>1. CASE r = Lane1(x)
          BY <3>1, <3>o, <4>2, <5>1
        <5>2. CASE r \in from[y]
          BY <4>1, <5>2, Zenon DEF LanesHold
        <5> QED
          BY <3>3, <3>5, <4>4, <5>1, <5>2
      <4> QED
        BY <4>3, <4>4 DEF LanesHold
    <3> QED
      BY <3>4, <3>5
  <2> QED
    BY <2>1, <2>2
<1>8. 0 \in P
  <2>1. \A x \in 0..len : (\A y \in (x + 1)..len : y \in P) => x \in P
    BY <1>7 DEF D
  <2> HIDE DEF P
  <2>2. \A x \in 0..len : x \in P
    BY <1>2, <2>1, DownFrom, Zenon
  <2> QED
    BY <1>2, <2>2
<1> QED
  BY <1>1, <1>8

\* The lanes end to end: a place in lane s is a place in the column.
LEMMA LanesFacts ==
  ASSUME NEW c \in Cols
  PROVE  /\ Lanes(c) \in Seq(Nat) /\ Len(Lanes(c)) = LaneWidth * Len(c.initials)
         /\ \A i \in 1..Len(Lanes(c)) :
              Lanes(c)[i] = c.initials[((i - 1) \div LaneWidth) + 1][((i - 1) % LaneWidth) + 1]
<1> DEFINE W == LaneWidth
           rows == c.initials
           k == Len(rows)
           m == W * k
           Cell(i) == rows[((i - 1) \div W) + 1][((i - 1) % W) + 1]
<1>1. rows \in Seq([1..W -> Nat]) /\ W \in Nat \ {0} /\ k \in Nat
  BY ColsFields, ArenaAssumption
<1> DEFINE all == [i \in 1..m |-> Cell(i)]
<1>2. Lanes(c) = all
  BY DEF Lanes
<1>3. \A s \in 1..k : rows[s] \in [1..W -> Nat]
  BY <1>1
<1> HIDE DEF rows, k
<1>4. m \in Nat
  BY <1>1
<1> HIDE DEF m
<1>5. ASSUME NEW i \in 1..m PROVE Cell(i) \in Nat
  <2> DEFINE h == i - 1
             a == h \div W
             b == h % W
             z == W * a
  <2>1. h \in Nat /\ h < m
    BY <1>4
  <2> HIDE DEF h
  <2>2. a \in Nat /\ b \in 0..(W - 1) /\ h = z + b
    BY <2>1, LaneParts
  <2>3. b + 1 \in 1..W
    <3> HIDE DEF b
    <3> QED
      BY <1>1, <2>2
  <2>4. z < W * k
    <3>1. z \in Nat
      <4> HIDE DEF a
      <4> QED
        BY <1>1, <2>2
    <3> HIDE DEF z, b
    <3>2. z <= h
      BY <2>1, <2>2, <3>1, <1>1
    <3> QED
      BY <1>4, <2>1, <3>1, <3>2 DEF m
  <2>5. a < k
    <3> SUFFICES ASSUME ~(a < k) PROVE FALSE
      OBVIOUS
    <3> HIDE DEF a
    <3>1. k <= a
      BY <1>1, <2>2
    <3>2. W * k <= W * a /\ W * k \in Nat /\ W * a \in Nat
      BY <1>1, <2>2, <3>1
    <3> QED
      BY <2>4, <3>2
  <2>6. a + 1 \in 1..k
    <3> HIDE DEF a
    <3> QED
      BY <1>1, <2>2, <2>5
  <2>7. rows[a + 1] \in [1..W -> Nat]
    BY <1>3, <2>6
  <2> HIDE DEF a, b
  <2>8. rows[a + 1][b + 1] \in Nat
    BY <2>3, <2>7, Zenon
  <2> QED
    BY <2>8 DEF a, b, h
<1> HIDE DEF Cell
<1>6. all \in [1..m -> Nat]
  BY <1>5
<1>7. all \in Seq(Nat) /\ Len(all) = m
  <2> HIDE DEF all
  <2> QED
    BY <1>4, <1>6
<1>8. \A i \in 1..m : all[i] = Cell(i)
  OBVIOUS
<1> HIDE DEF all
<1> QED
  BY <1>2, <1>7, <1>8, Zenon DEF m, k, rows, Cell

\* q is in the stretch of lanes inside one lane exactly where it is in that lane.
LEMMA LaneSpot ==
  ASSUME NEW c \in Cols, NEW q \in Seq(Nat), Len(q) > 0, NEW s \in 1..Len(c.initials), NEW x \in Nat,
         x + Len(q) <= LaneWidth
  PROVE  LET h == LaneWidth * (s - 1) + x
         IN  /\ h \in Nat /\ h \div LaneWidth = s - 1 /\ h % LaneWidth = x
             /\ h + Len(q) <= Len(Lanes(c))
             /\ Within(q, Lanes(c), h) <=> \A j \in 1..Len(q) : c.initials[s][x + j] = q[j]
<1> DEFINE W == LaneWidth
           rows == c.initials
           k == Len(rows)
           l == Len(q)
           a == s - 1
           z == W * a
           h == z + x
           lanes == Lanes(c)
           m == Len(lanes)
<1>1. W \in Nat \ {0} /\ k \in Nat /\ l \in Nat /\ l > 0 /\ x + l <= W
  BY ArenaAssumption, ColsFields
<1>2. /\ m = W * k
      /\ \A i \in 1..m : lanes[i] = rows[((i - 1) \div W) + 1][((i - 1) % W) + 1]
  BY LanesFacts, Zenon
<1>3. s \in 1..k
  OBVIOUS
<1>4. a \in Nat /\ a + 1 = s /\ a + 1 <= k
  BY <1>1, <1>3
<1>w. Within(q, lanes, h) <=> (h \in Nat /\ h + l <= m /\ \A j \in 1..l : lanes[h + j] = q[j])
  BY DEF Within
<1> HIDE DEF rows, k, l, a, m, lanes
<1>5. z \in Nat /\ x \in 0..(W - 1)
  BY <1>1, <1>4
<1>6. h \div W = a /\ h % W = x
  BY <1>4, <1>5, LaneOf
<1>7. z + W <= m /\ m \in Nat
  <2>1. W * (a + 1) = z + W
    BY <1>1, <1>4
  <2>2. W * (a + 1) <= W * k
    BY <1>1, <1>4
  <2>3. W * k \in Nat
    BY <1>1
  <2> QED
    BY <1>2, <2>1, <2>2, <2>3
<1> HIDE DEF z
<1>8. h \in Nat /\ h + l <= m
  BY <1>1, <1>5, <1>7
<1>9. ASSUME NEW j \in 1..l PROVE lanes[h + j] = rows[s][x + j]
  <2> DEFINE d == j - 1
             i == h + j
  <2>1. d \in Nat /\ x + d < W /\ i - 1 = h + d /\ i \in 1..m /\ (x + d) + 1 = x + j
    <3> HIDE DEF h
    <3>1. d \in Nat /\ d < l /\ d + 1 = j
      BY <1>1
    <3>2. i - 1 = h + d /\ i \in 1..m
      BY <1>1, <1>7, <1>8
    <3> HIDE DEF d
    <3>3. x + d < W /\ (x + d) + 1 = x + j
      BY <1>1, <3>1
    <3> QED
      BY <3>1, <3>2, <3>3
  <2>2. (h + d) \div W = a /\ (h + d) % W = x + d
    <3> HIDE DEF h, d
    <3>1. (h % W) + d < W
      BY <1>6, <2>1
    <3> QED
      BY <1>6, <1>8, <2>1, <3>1, InLane
  <2> HIDE DEF d, h, i
  <2>3. lanes[i] = rows[((i - 1) \div W) + 1][((i - 1) % W) + 1]
    BY <1>2, <2>1
  <2>4. lanes[i] = rows[a + 1][(x + d) + 1]
    BY <2>1, <2>2, <2>3, Zenon
  <2> QED
    BY <1>4, <2>1, <2>4, Zenon DEF i
<1>10. Within(q, lanes, h) <=> \A j \in 1..l : rows[s][x + j] = q[j]
  BY <1>w, <1>8, <1>9
<1> HIDE DEF h
<1> QED
  BY <1>6, <1>8, <1>10 DEF h, z, a, rows, l, m, lanes, k

\* Within a lane a query is in the initials or nowhere.
LEMMA LaneHolds ==
  ASSUME NEW q \in Seq(Nat \ {Fence}), Len(q) > 0, NEW n \in Name \ BadName, NEW x \in Nat
  PROVE  (x + Len(q) <= LaneWidth /\ \A j \in 1..Len(q) : Lane(n)[x + j] = q[j]) <=> Within(q, Initials[n], x)
<1> DEFINE l == Len(q)
           w == Initials[n]
           m == Len(w)
<1>1. l \in Nat /\ l > 0 /\ \A j \in 1..l : q[j] # Fence
  OBVIOUS
<1>2. m \in 0..LaneWidth /\ LaneWidth \in Nat
  BY NameBytes, ArenaAssumption
<1>3. \A i \in 1..LaneWidth : Lane(n)[i] = IF i <= m THEN w[i] ELSE Fence
  BY DEF Lane
<1> HIDE DEF l, w, m
<1>4. ASSUME x + l <= LaneWidth, \A j \in 1..l : Lane(n)[x + j] = q[j]
      PROVE  x + l <= m /\ \A j \in 1..l : w[x + j] = q[j]
  <2>1. \A j \in 1..l : x + j \in 1..LaneWidth
    BY <1>1, <1>2, <1>4
  <2>2. \A j \in 1..l : x + j <= m
    BY <1>1, <1>3, <1>4, <2>1, Zenon
  <2>3. l \in 1..l
    BY <1>1
  <2>4. x + l <= m
    BY <2>2, <2>3
  <2>5. \A j \in 1..l : w[x + j] = q[j]
    BY <1>3, <1>4, <2>1, <2>2
  <2> QED
    BY <2>4, <2>5
<1>5. ASSUME x + l <= m, \A j \in 1..l : w[x + j] = q[j]
      PROVE  x + l <= LaneWidth /\ \A j \in 1..l : Lane(n)[x + j] = q[j]
  <2>1. x + l <= LaneWidth
    BY <1>1, <1>2, <1>5
  <2>2. \A j \in 1..l : x + j \in 1..LaneWidth /\ x + j <= m
    BY <1>1, <1>2, <1>5
  <2> QED
    BY <1>3, <1>5, <2>1, <2>2
<1>6. Within(q, w, x) <=> (x + l <= m /\ \A j \in 1..l : w[x + j] = q[j])
  BY Zenon DEF Within, l, m
<1>7. (x + l <= LaneWidth /\ \A j \in 1..l : Lane(n)[x + j] = q[j]) <=> Within(q, w, x)
  BY <1>4, <1>5, <1>6
<1> QED
  BY <1>7 DEF l, w

\* The search by initials finds the live files whose initials hold the query.
LEMMA InitialsFound ==
  ASSUME ArenaInv, NEW q \in Seq(Nat \ {Fence}), Len(q) > 0
  PROVE  InitialsPass(q) = {s \in LiveSlot : Occurs(q, Initials[entries[s].name])}
<1> DEFINE es == entries
           W == LaneWidth
           l == Len(q)
           lanes == Lanes(cols)
           hits == LaneHits(lanes, q)
           I(s) == Initials[es[s].name]
           open == MayContain(cols.lane_grams, q, 2)
           R == {s \in LiveSlot : Occurs(q, I(s))}
<1>1. Kept(cols, es) /\ es \in Seq(Entry) /\ LiveSlot = Living(es)
  BY DEF ArenaInv, SlotInv, SlotTypeOK, LiveSlot, Living, Slot
<1>2. cols \in Cols /\ Len(cols.initials) = Len(es) /\ Columned(cols, es) /\ Seen(cols, es)
  BY <1>1 DEF Kept, Rowed
<1>3. \A s \in Living(es) : es[s].name \in Name \ BadName /\ s \in 1..Len(es)
  BY <1>1, KeptNames, Zenon DEF Living
<1>4. q \in Seq(Nat) /\ l \in Nat /\ l > 0 /\ W \in Nat \ {0} /\ \A j \in 1..l : q[j] # Fence
  BY ArenaAssumption
<1>5. lanes \in Seq(Nat) /\ Len(lanes) = W * Len(es)
  BY <1>2, LanesFacts
<1>6. LanesHold(lanes, q, 0, hits)
  BY <1>4, <1>5, LaneScan
<1>7. \A s \in Living(es) : I(s) \in Seq(Nat) /\ Len(I(s)) \in 0..W
  <2> TAKE s \in Living(es)
  <2> DEFINE w == I(s)
  <2>1. w \in Seq(Nat \ {Fence}) /\ Len(w) \in 0..W
    BY <1>3, NameBytes
  <2> HIDE DEF w
  <2>2. w \in Seq(Nat) /\ Len(w) \in 0..W
    BY <2>1
  <2> QED
    BY <2>2 DEF w
<1>8. \A s \in Living(es) : Occurs(q, I(s)) <=> \E x \in Nat : Within(q, I(s), x)
  BY <1>4, <1>7, OccursWithin
<1>9. InitialsPass(q) = IF l <= W /\ open THEN hits ELSE {}
  BY DEF InitialsPass
<1>10. \A h : Spot(lanes, q, h) <=> Within(q, lanes, h)
  BY <1>4, <1>5, SpotWithin
<1> HIDE DEF lanes, hits, l, open
\* Where a live file's initials hold q, and that its gate is open then.
<1>11. ASSUME NEW s \in Living(es), NEW x \in Nat, Within(q, I(s), x)
       PROVE  l <= W /\ open /\ s \in hits
  <2>1. x + l <= W /\ \A j \in 1..l : Lane(es[s].name)[x + j] = q[j]
    BY <1>3, <1>4, <1>11, LaneHolds, Zenon DEF l
  <2>2. l <= W
    BY <1>4, <2>1
  <2>3. cols.initials[s] = Lane(es[s].name)
    BY <1>2, <1>11 DEF Columned
  <2>4. open
    <3> DEFINE w == Lane(es[s].name)
    <3>1. w \in [1..W -> Nat]
      BY <1>3, NameColumns, Zenon
    <3>2. Grams(w, 2) \subseteq cols.lane_grams
      BY <1>2 DEF Seen
    <3>3. \A j \in 1..l : w[x + j] = q[j]
      BY <2>1
    <3> HIDE DEF w
    <3>4. w \in Seq(Nat) /\ Len(w) = W
      BY <1>4, <3>1
    <3>5. Within(q, w, x)
      BY <2>1, <3>3, <3>4 DEF Within, l
    <3> QED
      BY <1>4, <3>2, <3>4, <3>5, GateOpens, Zenon DEF open
  <2> DEFINE h == W * (s - 1) + x
  <2>5. s \in 1..Len(cols.initials)
    BY <1>2, <1>3
  <2>6. /\ h \in Nat /\ h \div W = s - 1 /\ h % W = x
        /\ Within(q, lanes, h) <=> \A j \in 1..l : cols.initials[s][x + j] = q[j]
    <3>1. x + Len(q) <= LaneWidth /\ Len(q) > 0
      BY <1>4, <2>1 DEF l
    <3>2. LET g == LaneWidth * (s - 1) + x
          IN  /\ g \in Nat /\ g \div LaneWidth = s - 1 /\ g % LaneWidth = x
              /\ g + Len(q) <= Len(Lanes(cols))
              /\ Within(q, Lanes(cols), g) <=> \A j \in 1..Len(q) : cols.initials[s][x + j] = q[j]
      BY <1>2, <1>4, <2>5, <3>1, LaneSpot, ZenonT(60)
    <3> QED
      BY <3>2 DEF l, lanes
  <2> HIDE DEF h
  <2>7. Within(q, lanes, h)
    BY <2>1, <2>3, <2>6
  <2>8. InOneLane(lanes, q, h) /\ 0 <= h
    BY <1>10, <2>1, <2>6, <2>7 DEF InOneLane, l
  <2>9. (h \div W) + 1 \in hits
    BY <1>6, <2>6, <2>8 DEF LanesHold
  <2>10. (s - 1) + 1 = s
    BY <1>3
  <2> QED
    BY <2>2, <2>4, <2>6, <2>9, <2>10
<1>12. ASSUME NEW r \in hits PROVE r \in R
  <2>1. PICK h \in Nat : InOneLane(lanes, q, h) /\ r = (h \div W) + 1
    BY <1>6, <1>12 DEF LanesHold
  <2> DEFINE a == h \div W
             x == h % W
             z == W * a
  <2>2. a \in Nat /\ x \in Nat /\ h = z + x
    <3>1. a \in Nat /\ x \in 0..(W - 1) /\ h = z + x
      BY <2>1, LaneParts
    <3> HIDE DEF a, x, z
    <3> QED
      BY <1>4, <3>1
  <2>3. Spot(lanes, q, h) /\ x + l <= W
    BY <2>1 DEF InOneLane, l
  <2> HIDE DEF x
  <2>4. r = a + 1 /\ r - 1 = a
    BY <2>1, <2>2
  <2>5. r \in 1..Len(es)
    <3>1. h + l <= W * Len(es) /\ Len(es) \in Nat
      BY <1>1, <1>5, <2>3 DEF Spot, l
    <3> HIDE DEF a
    <3>2. z \in Nat
      BY <1>4, <2>2
    <3> SUFFICES ASSUME ~(a < Len(es)) PROVE FALSE
      BY <2>2, <2>4, <3>1
    <3>3. Len(es) <= a
      BY <2>2, <3>1
    <3> DEFINE k == Len(es)
    <3> HIDE DEF k
    <3>4. W * k <= z /\ W * k \in Nat
      BY <1>4, <2>2, <3>1, <3>3 DEF k
    <3> HIDE DEF z
    <3> QED
      BY <1>4, <2>1, <2>2, <3>1, <3>2, <3>4 DEF k
  <2> HIDE DEF a
  <2>6. \A j \in 1..l : cols.initials[r][x + j] = q[j]
    <3>1. r \in 1..Len(cols.initials) /\ x \in Nat /\ x + Len(q) <= LaneWidth /\ Len(q) > 0
      BY <1>2, <2>2, <2>3, <2>5 DEF l
    <3>2. LET g == LaneWidth * (r - 1) + x
          IN  Within(q, Lanes(cols), g) <=> \A j \in 1..Len(q) : cols.initials[r][x + j] = q[j]
      BY <1>2, <1>4, <3>1, LaneSpot, ZenonT(60)
    <3>3. LaneWidth * (r - 1) + x = h
      BY <2>2, <2>4
    <3> QED
      BY <1>10, <2>3, <3>2, <3>3 DEF l, lanes
  <2>7. ~es[r].dead
    <3> SUFFICES ASSUME es[r].dead PROVE FALSE
      OBVIOUS
    <3>1. cols.initials[r] = Blank
      BY <1>2, <2>5 DEF Columned
    <3>2. 1 \in 1..l /\ x + 1 \in 1..W
      BY <1>4, <2>2, <2>3
    <3>3. Blank[x + 1] = Fence
      BY <3>2 DEF Blank
    <3> QED
      BY <1>4, <2>6, <3>1, <3>2, <3>3
  <2>8. r \in Living(es)
    BY <2>5, <2>7 DEF Living
  <2>9. cols.initials[r] = Lane(es[r].name)
    BY <1>2, <2>8 DEF Columned
  <2>10. Within(q, I(r), x)
    <3>1. \A j \in 1..l : Lane(es[r].name)[x + j] = q[j]
      BY <2>6, <2>9
    <3> QED
      BY <1>3, <1>4, <2>2, <2>3, <2>8, <3>1, LaneHolds, Zenon DEF l
  <2> QED
    BY <1>1, <1>8, <2>2, <2>8, <2>10
<1>13. ASSUME NEW s \in R PROVE s \in InitialsPass(q)
  <2>1. PICK x \in Nat : Within(q, I(s), x)
    BY <1>1, <1>8, <1>13
  <2> QED
    BY <1>1, <1>9, <1>11, <1>13, <2>1
<1>14. InitialsPass(q) = R
  BY <1>9, <1>12, <1>13
<1> QED
  BY <1>14

-----------------------------------------------------------------------------
(* The fuzzy search.                                                       *)

\* A name the query is a subsequence of has every byte of the query, so that a class
\* mask hides no match.
LEMMA SubsequenceMask ==
  ASSUME NEW q \in Seq(Nat), NEW s \in Seq(Nat), Subsequence(q, s)
  PROVE  Mask(q) \subseteq Mask(s)
<1> DEFINE l == Len(q)
           m == Len(s)
           One(t, k) == IF t < l /\ s[k] = q[t + 1] THEN t + 1 ELSE t
           Turn == [k \in 1..m |-> [t \in Nat |-> One(t, k)]]
           Def(g) == [k \in 0..m |-> IF k = 0 THEN 0
                                     ELSE IF g[k - 1] < l /\ s[k] = q[g[k - 1] + 1]
                                          THEN g[k - 1] + 1 ELSE g[k - 1]]
           taken == CHOOSE h : h = Def(h)
<1>1. l \in Nat /\ m \in Nat
  OBVIOUS
<1>2. taken[m] = l
  BY DEF Subsequence
<1>d. DOMAIN q = 1..l /\ DOMAIN s = 1..m
  OBVIOUS
<1> HIDE DEF m, l
<1>3. Turn \in Turns(Nat, m)
  BY <1>1 DEF Turns
<1>4. PICK g \in [0..m -> Nat] : g[0] = 0 /\ \A k \in 1..m : g[k] = Turn[k][g[k - 1]]
  <2> HIDE DEF Turn
  <2>1. Reaches(Nat, 0, m, Turn)
    BY <1>1, <1>3, Iterates, Zenon
  <2> QED
    BY <2>1, Zenon DEF Reaches
<1>5. \A k \in 1..m : k - 1 \in 0..m /\ g[k - 1] \in Nat
  BY <1>1, <1>4
<1>6. \A k \in 1..m : g[k] = One(g[k - 1], k)
  <2> TAKE k \in 1..m
  <2>1. Turn[k][g[k - 1]] = One(g[k - 1], k)
    BY <1>5
  <2> HIDE DEF Turn, One
  <2> QED
    BY <1>4, <2>1
<1>7. g = Def(g)
  <2>1. \A k \in 0..m : g[k] = Def(g)[k]
    <3> TAKE k \in 0..m
    <3>1. Def(g)[k] = IF k = 0 THEN 0 ELSE One(g[k - 1], k)
      OBVIOUS
    <3> HIDE DEF Def, One, Turn
    <3>2. k # 0 => k \in 1..m
      BY <1>1
    <3> QED
      BY <1>4, <1>6, <3>1, <3>2
  <2> QED
    BY <1>4, <2>1
<1>8. taken = Def(taken)
  <2> HIDE DEF Def
  <2> QED
    BY <1>7
<1>9. /\ taken[0] = 0
      /\ \A k \in 1..m : taken[k] = One(taken[k - 1], k)
  <2>1. Def(taken)[0] = 0 /\ \A k \in 1..m : Def(taken)[k] = One(taken[k - 1], k)
    <3> HIDE DEF taken
    <3> QED
      BY <1>1
  <2> HIDE DEF Def, taken, One
  <2> QED
    BY <1>8, <2>1
<1> HIDE DEF taken, Def
<1> DEFINE T == {k \in 0..m : taken[k] \in 0..l /\ \A j \in 1..taken[k] : q[j] \in Mask(s)}
<1>10. 0 \in T
  BY <1>1, <1>9
<1>11. ASSUME NEW k \in 0..(m - 1), k \in T PROVE k + 1 \in T
  <2> DEFINE t == taken[k]
             u == taken[k + 1]
  <2>1. k + 1 \in 1..m /\ (k + 1) - 1 = k /\ k + 1 \in 0..m
    BY <1>1
  <2>2. u = IF t < l /\ s[k + 1] = q[t + 1] THEN t + 1 ELSE t
    BY <1>9, <2>1
  <2>3. t \in 0..l /\ \A j \in 1..t : q[j] \in Mask(s)
    BY <1>11
  <2>4. s[k + 1] \in Mask(s)
    BY <1>d, <2>1, Zenon DEF Mask
  <2> HIDE DEF t, u, T
  <2>5. u \in 0..l /\ \A j \in 1..u : q[j] \in Mask(s)
    <3>1. CASE t < l /\ s[k + 1] = q[t + 1]
      <4>1. u = t + 1 /\ u \in 0..l
        BY <1>1, <2>2, <2>3, <3>1
      <4>2. \A j \in 1..u : j \in 1..t \/ j = t + 1
        BY <2>3, <4>1
      <4> QED
        BY <2>3, <2>4, <3>1, <4>1, <4>2, Zenon
    <3>2. CASE ~(t < l /\ s[k + 1] = q[t + 1])
      BY <2>2, <2>3, <3>2
    <3> QED
      BY <3>1, <3>2
  <2> QED
    BY <2>1, <2>5 DEF T, u
<1>12. m \in T
  <2> HIDE DEF T
  <2>1. \A k \in 0..m : k \in T
    BY <1>1, <1>10, <1>11, InductionUpTo, Zenon
  <2> QED
    BY <1>1, <2>1
<1>13. \A j \in 1..l : q[j] \in Mask(s)
  BY <1>2, <1>12
<1> QED
  BY <1>13, <1>d DEF Mask

\* The fuzzy search finds the live files whose name has the query in it, in order.
LEMMA FuzzyFound ==
  ASSUME ArenaInv, NEW q \in Seq(Nat \ {Fence}), Len(q) > 0
  PROVE  FuzzyPass(q) = {s \in LiveSlot : Subsequence(q, Folded[entries[s].name])}
<1> DEFINE es == entries
           W(s) == Folded[es[s].name]
           B(s) == Bytes(cols.folded, cols.folded_off[s], FoldedLen(s))
           pass == {s \in 1..Rows(cols) : Mask(q) \subseteq cols.classes[s] /\ Subsequence(q, B(s))}
           found == {s \in LiveSlot : Subsequence(q, W(s))}
<1>1. Kept(cols, es) /\ es \in Seq(Entry) /\ LiveSlot = Living(es)
  BY DEF ArenaInv, SlotInv, SlotTypeOK, LiveSlot, Living, Slot
<1>2. Rows(cols) = Len(es) /\ Columned(cols, es) /\ cols.folded \in Seq(Nat)
  BY <1>1, KeptNames, Zenon DEF Kept, Rowed, Rows
<1>3. q \in Seq(Nat) /\ q[1] \in Mask(q)
  <2>1. Len(q) \in Nat /\ Len(q) > 0 /\ DOMAIN q = 1..Len(q)
    OBVIOUS
  <2>2. 1 \in DOMAIN q
    BY <2>1
  <2>3. q[1] \in Mask(q)
    BY <2>2 DEF Mask
  <2>4. q \in Seq(Nat)
    OBVIOUS
  <2> QED
    BY <2>3, <2>4
<1>4. ASSUME NEW s \in Living(es)
      PROVE  /\ s \in 1..Rows(cols) /\ B(s) = W(s) /\ W(s) \in Seq(Nat) /\ cols.classes[s] = Mask(W(s))
  <2> DEFINE w == W(s)
             off == cols.folded_off[s]
  <2>1. es[s].name \in Name \ BadName /\ Owns(cols.folded, Len(cols.folded), cols.folded_off, cols.recs, Living(es), es, s)
    BY <1>1, KeptNames
  <2>2. w \in Seq(Nat \ {Fence}) /\ Len(w) \in Nat
    BY <2>1, NameBytes
  <2>3. off \in Nat /\ off + Len(w) + 1 <= Len(cols.folded) /\ \A j \in 1..Len(w) : cols.folded[off + j] = w[j]
    BY <2>1 DEF Owns
  <2>4. cols.classes[s] = Mask(w)
    BY <1>2 DEF Columned
  <2>5. FoldedLen(s) = Len(w)
    BY DEF FoldedLen
  <2>6. s \in 1..Rows(cols)
    BY <1>2 DEF Living
  <2> HIDE DEF w, off
  <2>7. w \in Seq(Nat)
    BY <2>2
  <2>8. off + Len(w) <= Len(cols.folded)
    <3> DEFINE x == Len(w)
               y == Len(cols.folded)
    <3>1. x \in Nat /\ y \in Nat /\ off \in Nat /\ off + x + 1 <= y
      BY <1>2, <2>2, <2>3
    <3> HIDE DEF x, y
    <3>2. off + x <= y
      BY <3>1
    <3> QED
      BY <3>2 DEF x, y
  <2>9. Bytes(cols.folded, off, Len(w)) = w
    BY <1>2, <2>3, <2>7, <2>8, BytesAre, Zenon
  <2> QED
    BY <2>4, <2>5, <2>6, <2>7, <2>9 DEF w, off
<1>5. FuzzyPass(q) = pass
  BY DEF FuzzyPass
<1> HIDE DEF B, W
<1>6. ASSUME NEW s \in pass PROVE s \in found
  <2>1. s \in 1..Len(es) /\ Mask(q) \subseteq cols.classes[s] /\ Subsequence(q, B(s))
    BY <1>2, <1>6
  <2>2. ~es[s].dead
    <3>1. es[s].dead => cols.classes[s] = {}
      BY <1>2, <2>1 DEF Columned
    <3> QED
      BY <1>3, <2>1, <3>1
  <2>3. s \in Living(es)
    BY <2>1, <2>2 DEF Living
  <2> QED
    BY <1>1, <1>4, <2>1, <2>3
<1>7. ASSUME NEW s \in found PROVE s \in pass
  <2>1. s \in Living(es) /\ Subsequence(q, W(s))
    BY <1>1, <1>7
  <2>2. s \in 1..Rows(cols) /\ B(s) = W(s) /\ W(s) \in Seq(Nat) /\ cols.classes[s] = Mask(W(s))
    BY <1>4, <2>1
  <2>3. Mask(q) \subseteq Mask(W(s))
    BY <1>3, <2>1, <2>2, SubsequenceMask
  <2> QED
    BY <2>1, <2>2, <2>3
<1>8. pass = found
  BY <1>6, <1>7
<1> QED
  BY <1>5, <1>8 DEF W

\* Both searches over the columns find what they should.
LEMMA ColumnsFound == ArenaInv => ColumnSearchExact
<1> SUFFICES ASSUME ArenaInv PROVE ColumnSearchExact
  OBVIOUS
<1>1. ASSUME NEW q \in Query
      PROVE  /\ InitialsPass(q) = {s \in LiveSlot : Occurs(q, Initials[entries[s].name])}
             /\ FuzzyPass(q) = {s \in LiveSlot : Subsequence(q, Folded[entries[s].name])}
  <2>1. q \in Seq(Nat \ {Fence}) /\ q # <<>>
    BY ArenaAssumption
  <2>2. Len(q) > 0
    BY <2>1
  <2> QED
    BY <2>1, <2>2, InitialsFound, FuzzyFound
<1>2. \A s \in Slot : cols.classes[s] = IF entries[s].dead THEN {} ELSE Mask(Folded[entries[s].name])
  <2> TAKE s \in Slot
  <2>1. Columned(cols, entries) /\ s \in 1..Len(entries)
    BY DEF ArenaInv, Kept, Slot
  <2>2. CASE entries[s].dead
    BY <2>1, <2>2 DEF Columned
  <2>3. CASE ~entries[s].dead
    <3>1. s \in Living(entries)
      BY <2>1, <2>3 DEF Living
    <3> QED
      BY <2>1, <2>3, <3>1 DEF Columned
  <2> QED
    BY <2>2, <2>3
<1> QED
  BY <1>1, <1>2 DEF ColumnSearchExact

\* After every handler, compactions in place included, the arenas spell the live names,
\* both searches over them find exactly the live files they should at the tiers they
\* should, and the garbage in them is accounted for (index.rs and matching.rs).
THEOREM ArenasAreExact == ArenaSpec => []ArenaExact
<1>1. ArenaInv => ArenaExact
  BY InvTyped, InvSpells, InvAccounts, NamesFound, ColumnsFound DEF ArenaExact
<1> QED
  BY <1>1, ColumnsHoldTable, PTL

=============================================================================
